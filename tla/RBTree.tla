-------------------------------- MODULE RBTree --------------------------------
(***************************************************************************)
(* The intrusive red-black tree (src/src/tools/ws_rbtree.c) that holds the *)
(* timers, the servers and the clean-ups.  Equal keys are allowed: a timer *)
(* key is unique only between two updates of the cached time.              *)
(*                                                                         *)
(* A step is one turn of a loop of the code, or what is between two loops. *)
(* The code writes every case twice, once per side; here a side is "l" or  *)
(* "r".  The tree is compared with a list sorted by key in which equal     *)
(* keys keep the order of their insertion.                                 *)
(***************************************************************************)
EXTENDS Integers, Sequences

CONSTANTS
    Nodes,          \* the nodes that may be inserted
    KeyOf,          \* the key each of them is inserted with
    Nil,            \* the tree's sentinel
    Null            \* the null pointer

ASSUME NodesAssumption == Nil \notin Nodes /\ Null \notin Nodes /\ Nil # Null
ASSUME KeyOfAssumption == KeyOf \in [Nodes -> Nat]

VARIABLES
    at,             \* the loop the operation under way is in, or "idle"
    arg,            \* its argument: a node, or the key to find
    temp,           \* the node the loop is at
    tree,           \* the root, and the fields of every node
    list            \* history: the nodes in the tree, as a sorted list

treeVars == <<at, arg, temp, tree, list>>

Sides == {"l", "r"}
Other(s) == IF s = "l" THEN "r" ELSE "l"
All == Nodes \union {Nil}
Keys == {KeyOf[n] : n \in Nodes}
Members == {list[i] : i \in 1..Len(list)}

TreeInit ==
    /\ at = "idle" /\ arg = Nil /\ temp = Nil /\ list = << >>
    /\ tree = [root |-> Nil,
               ch |-> [s \in Sides |-> [n \in All |-> Null]],
               p |-> [n \in All |-> Null],
               red |-> [n \in All |-> FALSE],
               key |-> [n \in All |-> 0]]

-----------------------------------------------------------------------------
(* Links.  u is a tree.                                                    *)

\* The side of its parent a node hangs on.
SideOf(u, n) == IF u.ch["l"][u.p[n]] = n THEN "l" ELSE "r"

\* Hangs node m where n hangs: at the root, or below n's parent.
Hang(u, n, m) ==
    IF n = u.root THEN [u EXCEPT !.root = m]
                  ELSE [u EXCEPT !.ch[SideOf(u, n)][u.p[n]] = m]

\* A rotation that forgets the parent of the subtree that changes sides.
RotateOrphan(u, s, n) ==
    LET o == Other(s)
        y == u.ch[o][n]
    IN [Hang(u, n, y) EXCEPT
            !.ch[o][n] = u.ch[s][y], !.ch[s][y] = n,
            !.p[n] = y, !.p[y] = u.p[n]]

\* ws_rbtree_left_rotate (s = "l") and ws_rbtree_right_rotate.
Rotate(u, s, n) ==
    LET o == Other(s)
        y == u.ch[o][n]
        b == u.ch[s][y]
    IN [Hang(u, n, y) EXCEPT
            !.ch[o][n] = b, !.ch[s][y] = n,
            !.p = [m \in All |-> CASE m = n -> y
                                   [] m = y -> u.p[n]
                                   [] m = b /\ b # Nil -> n
                                   [] OTHER -> @[m]]]

\* The removed node's fields are cleared.
Clear(u, n) ==
    [u EXCEPT !.ch["l"][n] = Null, !.ch["r"][n] = Null, !.p[n] = Null, !.key[n] = 0]

Return == at' = "idle" /\ arg' = Nil /\ temp' = Nil

-----------------------------------------------------------------------------
(* Insertion.                                                              *)

\* The sorted list: a node goes behind those with a key not above its own.
Behind(n) == {i \in 1..Len(list) : KeyOf[list[i]] <= KeyOf[n]}
InsertAt(i, n) == SubSeq(list, 1, i) \o <<n>> \o SubSeq(list, i + 1, Len(list))

\* The caller has set the key.
InsertFirst(n) ==
    /\ at = "idle" /\ tree.root = Nil
    /\ tree' = [tree EXCEPT !.root = n, !.p[n] = Null, !.red[n] = FALSE,
                            !.ch["l"][n] = Nil, !.ch["r"][n] = Nil, !.key[n] = KeyOf[n]]
    /\ list' = <<n>>
    /\ UNCHANGED <<at, arg, temp>>

StartInsert(n) ==
    /\ at = "idle" /\ tree.root # Nil
    /\ n \notin Members
    /\ at' = "place" /\ arg' = n /\ temp' = tree.root
    /\ tree' = [tree EXCEPT !.key[n] = KeyOf[n]]
    /\ UNCHANGED list

\* A comparison that puts an equal key in front.
SideForEqualLeft(u, n, m) == IF u.key[n] <= u.key[m] THEN "l" ELSE "r"

\* The comparison, the same in the insertion of values and in that of timers: a
\* key stands for v and v2, the second deciding among equal first ones.
SideFor(u, n, m) == IF u.key[n] < u.key[m] THEN "l" ELSE "r"

Descend ==
    /\ at = "place"
    /\ LET next == tree.ch[SideFor(tree, arg, temp)][temp]
       IN next # Nil /\ temp' = next
    /\ UNCHANGED <<at, arg, tree, list>>

\* The new node is linked; the next loop starts at it.
Link ==
    /\ at = "place"
    /\ LET s == SideFor(tree, arg, temp)
       IN /\ tree.ch[s][temp] = Nil
          /\ tree' = [tree EXCEPT !.ch[s][temp] = arg, !.p[arg] = temp,
                                  !.ch["l"][arg] = Nil, !.ch["r"][arg] = Nil,
                                  !.red[arg] = TRUE]
    /\ \E i \in 0..Len(list) : Behind(arg) = 1..i /\ list' = InsertAt(i, arg)
    /\ at' = "raise" /\ temp' = arg
    /\ UNCHANGED arg

Parent == tree.p[temp]
Grand == tree.p[Parent]
Side == SideOf(tree, Parent)
Uncle == tree.ch[Other(Side)][Grand]

Raising == at = "raise" /\ temp # tree.root /\ tree.red[Parent]

RaiseRedUncle ==
    /\ Raising /\ tree.red[Uncle]
    /\ tree' = [tree EXCEPT !.red[Parent] = FALSE, !.red[Uncle] = FALSE,
                            !.red[Grand] = TRUE]
    /\ temp' = Grand
    /\ UNCHANGED <<at, arg, list>>

\* The node is an inner grandchild.  Its parent becomes an outer one, which the
\* rest of the turn is about: RaiseOuter.
RaiseInner ==
    /\ Raising /\ ~tree.red[Uncle]
    /\ temp = tree.ch[Other(Side)][Parent]
    /\ tree' = Rotate(tree, Side, Parent)
    /\ temp' = Parent
    /\ UNCHANGED <<at, arg, list>>

RaiseOuter ==
    /\ Raising /\ ~tree.red[Uncle]
    /\ temp # tree.ch[Other(Side)][Parent]
    /\ tree' = Rotate([tree EXCEPT !.red[Parent] = FALSE, !.red[Grand] = TRUE],
                      Other(Side), Grand)
    /\ UNCHANGED <<at, arg, temp, list>>

EndInsert ==
    /\ at = "raise" /\ ~Raising
    /\ tree' = [tree EXCEPT !.red[tree.root] = FALSE]
    /\ Return
    /\ UNCHANGED list

-----------------------------------------------------------------------------
(* Deletion.                                                               *)

\* With two children the node is replaced by the least one on its right.
StartDelete(n) ==
    /\ at = "idle" /\ n \in Members
    /\ arg' = n
    /\ IF tree.ch["l"][n] # Nil /\ tree.ch["r"][n] # Nil
       THEN at' = "subst" /\ temp' = tree.ch["r"][n]
       ELSE at' = "unlink" /\ temp' = n
    /\ UNCHANGED <<tree, list>>

\* ws_rbtree_min, called by a deletion and by the expiry of timers.
WalkLeft ==
    /\ at \in {"subst", "min"} /\ tree.ch["l"][temp] # Nil
    /\ temp' = tree.ch["l"][temp]
    /\ UNCHANGED <<at, arg, tree, list>>

EndWalk ==
    /\ at \in {"subst", "min"} /\ tree.ch["l"][temp] = Nil
    /\ at' = IF at = "subst" THEN "unlink" ELSE "least"
    /\ UNCHANGED <<arg, temp, tree, list>>

Without(n) ==
    \E i \in 1..Len(list) :
        list[i] = n /\ list' = SubSeq(list, 1, i - 1) \o SubSeq(list, i + 1, Len(list))

\* What takes the place of the node that is unlinked.
Only == tree.ch[IF tree.ch["l"][temp] # Nil THEN "l" ELSE "r"][temp]

UnlinkRoot ==
    /\ at = "unlink" /\ temp = tree.root
    /\ tree' = Clear([tree EXCEPT !.root = Only, !.red[Only] = FALSE], arg)
    /\ Without(arg)
    /\ Return

\* The unlinked node's black is to be made up for, below its parent.
Unlinked ==
    IF tree.red[temp] THEN Return
    ELSE at' = "lower" /\ temp' = Only /\ UNCHANGED arg

UnlinkNode ==
    /\ at = "unlink" /\ temp # tree.root /\ temp = arg
    /\ tree' = Clear([Hang(tree, temp, Only) EXCEPT !.p[Only] = Parent], arg)
    /\ Without(arg)
    /\ Unlinked

\* The tree u without temp, whose place Only takes.
Cut(u) ==
    [Hang(u, temp, Only) EXCEPT !.p[Only] = IF u.p[temp] = arg THEN temp ELSE u.p[temp]]

\* The tree u in which m, that is in it no more, takes the place, the links and
\* the colour of n.
Replace(u, n, m) ==
    LET l == u.ch["l"][n]
        r == u.ch["r"][n]
    IN [Hang(u, n, m) EXCEPT
            !.ch["l"][m] = l, !.ch["r"][m] = r, !.red[m] = u.red[n],
            !.p = [k \in All |-> CASE k = m -> u.p[n]
                                   [] k \in {l, r} \ {Nil} -> m
                                   [] OTHER -> @[k]]]

UnlinkSubst ==
    /\ at = "unlink" /\ temp # tree.root /\ temp # arg
    /\ tree' = Clear(Replace(Cut(tree), arg, temp), arg)
    /\ Without(arg)
    /\ Unlinked

Black(n) == ~tree.red[n]

\* w: the sibling; its children are the near and the far nephew.
SideDown == SideOf(tree, temp)
Sibling == tree.ch[Other(SideDown)][Parent]
Near == tree.ch[SideDown][Sibling]
Far == tree.ch[Other(SideDown)][Sibling]

Lowering == at = "lower" /\ temp # tree.root /\ Black(temp)

\* The sibling's children become the next turn's, which the rest of the turn is
\* about: it has a black sibling.
LowerRedSibling ==
    /\ Lowering /\ tree.red[Sibling]
    /\ tree' = Rotate([tree EXCEPT !.red[Sibling] = FALSE, !.red[Parent] = TRUE],
                      SideDown, Parent)
    /\ UNCHANGED <<at, arg, temp, list>>

LowerBlackNephews ==
    /\ Lowering /\ Black(Sibling) /\ Black(Near) /\ Black(Far)
    /\ tree' = [tree EXCEPT !.red[Sibling] = TRUE]
    /\ temp' = Parent
    /\ UNCHANGED <<at, arg, list>>

\* The rest of the turn finds a red far nephew: LowerRedFar.
LowerRedNear ==
    /\ Lowering /\ Black(Sibling) /\ ~Black(Near) /\ Black(Far)
    /\ tree' = Rotate([tree EXCEPT !.red[Near] = FALSE, !.red[Sibling] = TRUE],
                      Other(SideDown), Sibling)
    /\ UNCHANGED <<at, arg, temp, list>>

\* A last turn that does not copy the parent's colour.
LowerRedFarNoCopy ==
    /\ Lowering /\ Black(Sibling) /\ ~Black(Far)
    /\ tree' = Rotate([tree EXCEPT !.red[Parent] = FALSE, !.red[Far] = FALSE],
                      SideDown, Parent)
    /\ temp' = tree'.root
    /\ UNCHANGED <<at, arg, list>>

LowerRedFar ==
    /\ Lowering /\ Black(Sibling) /\ ~Black(Far)
    /\ tree' = Rotate([tree EXCEPT !.red[Sibling] = tree.red[Parent],
                                   !.red[Parent] = FALSE, !.red[Far] = FALSE],
                      SideDown, Parent)
    /\ temp' = tree'.root
    /\ UNCHANGED <<at, arg, list>>

EndDelete ==
    /\ at = "lower" /\ ~Lowering
    /\ tree' = [tree EXCEPT !.red[temp] = FALSE]
    /\ Return
    /\ UNCHANGED list

-----------------------------------------------------------------------------
(* Searches.                                                               *)

StartGet(k) ==
    /\ at = "idle"
    /\ at' = "get" /\ arg' = k /\ temp' = tree.root
    /\ UNCHANGED <<tree, list>>

\* A search that misses the branch for greater keys.
SeekLeftOnly ==
    /\ at = "get" /\ temp # Nil /\ tree.key[temp] # arg
    /\ temp' = IF tree.key[temp] > arg THEN tree.ch["l"][temp] ELSE temp
    /\ UNCHANGED <<at, arg, tree, list>>

Seek ==
    /\ at = "get" /\ temp # Nil /\ tree.key[temp] # arg
    /\ temp' = tree.ch[IF tree.key[temp] > arg THEN "l" ELSE "r"][temp]
    /\ UNCHANGED <<at, arg, tree, list>>

\* The node, or the sentinel when there is none.
EndGet ==
    /\ at = "get" /\ (temp = Nil \/ tree.key[temp] = arg)
    /\ at' = "found"
    /\ UNCHANGED <<arg, temp, tree, list>>

\* ws_event_timer_expire asks a tree that is not empty.
StartMin ==
    /\ at = "idle" /\ tree.root # Nil
    /\ at' = "min" /\ temp' = tree.root
    /\ UNCHANGED <<arg, tree, list>>

Answer ==
    /\ at \in {"found", "least"}
    /\ Return
    /\ UNCHANGED <<tree, list>>

-----------------------------------------------------------------------------
Start ==
    \/ \E n \in Nodes : InsertFirst(n) \/ StartInsert(n) \/ StartDelete(n)
    \/ \E k \in Keys : StartGet(k)
    \/ StartMin

Turn ==
    \/ Descend \/ Link \/ RaiseRedUncle \/ RaiseInner \/ RaiseOuter \/ EndInsert
    \/ WalkLeft \/ EndWalk \/ UnlinkRoot \/ UnlinkNode \/ UnlinkSubst
    \/ LowerRedSibling \/ LowerBlackNephews \/ LowerRedNear \/ LowerRedFar \/ EndDelete
    \/ Seek \/ EndGet \/ Answer

TreeNext == Start \/ Turn

\* An operation is a function of one thread: once called it goes on.
TreeSpec == TreeInit /\ [][TreeNext]_treeVars /\ WF_treeVars(Turn)

-----------------------------------------------------------------------------
(* Properties.                                                             *)

\* The nodes below and with n, from left to right.
Walk[n \in All \union {Null}] ==
    IF n \in Members THEN Walk[tree.ch["l"][n]] \o <<n>> \o Walk[tree.ch["r"][n]] ELSE << >>

\* The black nodes from n down on the left.
Height[n \in All \union {Null}] ==
    IF n \in Members THEN Height[tree.ch["l"][n]] + (IF tree.red[n] THEN 0 ELSE 1) ELSE 0

\* Insertion, deletion and every rotation keep the nodes in the order of their
\* keys, equal keys in the order they came (ws_rbtree.c:139-147), at every turn
\* of the loops.
KeepsOrder == Walk[tree.root] = list

\* After every operation the tree is a red-black tree: the two re-balancing
\* loops (ws_rbtree.c:41, 316) leave no red child of a red node and as many
\* black nodes on every path, so a search stays logarithmic.
Balanced ==
    at = "idle" =>
        /\ ~tree.red[tree.root]
        /\ \A n \in Members :
              /\ Height[tree.ch["l"][n]] = Height[tree.ch["r"][n]]
              /\ tree.red[n] => ~tree.red[tree.ch["l"][n]] /\ ~tree.red[tree.ch["r"][n]]

\* Each child points back at its parent, at every turn: the re-balancing loops
\* and the next deletion go up by these links (ws_rbtree.c:43, 258, 318).
LinksBack ==
    \A n \in Members : \A s \in Sides :
        tree.ch[s][n] # Nil => tree.p[tree.ch[s][n]] = n

\* A search finds a key exactly when a node with it is in the tree
\* (ws_rbtree.c:163), and the smallest node, which ws_event_timer_expire takes, is
\* the oldest of the earliest (ws_rbtree.h:80).
Answers ==
    /\ at = "least" => temp = list[1]
    /\ at = "found" => IF \E n \in Members : KeyOf[n] = arg
                       THEN temp \in Members /\ KeyOf[temp] = arg
                       ELSE temp = Nil

\* Every operation ends: no loop (ws_rbtree.c:41, 96, 129, 171, 316) runs on a
\* tree it turns in circles.
OperationsEnd == []<>(at = "idle")

=============================================================================

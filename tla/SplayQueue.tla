----------------------------- MODULE SplayQueue -----------------------------
(***************************************************************************)
(* The splay tree behind Scheduler/Splay (common/splay-scheduler.cc). A    *)
(* tree is NIL or <<left, entry, right>>; the pointers l and r with which  *)
(* the code hangs subtrees into the two halves are the recursion here.     *)
(***************************************************************************)
EXTENDS Integers, Sequences

NIL == <<>>
LEFT(t) == t[1]
Entry(t) == t[2]
RIGHT(t) == t[3]

(* The loop of insert(): the parts of t before and after an event at time, *)
(* with a rotation at every second level of the path.                      *)
RECURSIVE Split(_, _)
Split(t, time) ==
  IF t = NIL THEN <<NIL, NIL>>
  ELSE IF time < Entry(t).time
    THEN LET x == LEFT(t)
         IN IF x = NIL THEN <<NIL, t>>
            ELSE IF time < Entry(x).time
              THEN LET s == Split(LEFT(x), time)     \* ROTATE_RIGHT, LINK_RIGHT
                   IN <<s[1], <<s[2], Entry(x), <<RIGHT(x), Entry(t), RIGHT(t)>>>>>>
              ELSE LET s == Split(x, time)           \* LINK_RIGHT
                   IN <<s[1], <<s[2], Entry(t), RIGHT(t)>>>>
    ELSE LET x == RIGHT(t)
         IN IF x = NIL THEN <<t, NIL>>
            ELSE IF time >= Entry(x).time
              THEN LET s == Split(RIGHT(x), time)    \* ROTATE_LEFT, LINK_LEFT
                   IN <<<<<<LEFT(t), Entry(t), LEFT(x)>>, Entry(x), s[1]>>, s[2]>>
              ELSE LET s == Split(x, time)           \* LINK_LEFT
                   IN <<<<LEFT(t), Entry(t), s[1]>>, s[2]>>

splay_insert(t, n) ==
  LET s == Split(t, n.time) IN <<s[1], n, s[2]>>

RECURSIVE splay_head(_)
splay_head(t) == IF LEFT(t) = NIL THEN Entry(t) ELSE splay_head(LEFT(t))

(* The loop of deque(), for a t whose left child l exists: the leftmost    *)
(* node is unlinked, and l is rotated with ll at every second level.       *)
RECURSIVE Unlink(_)
Unlink(t) ==
  LET l == LEFT(t)
      ll == LEFT(l)
  IN IF ll = NIL THEN <<RIGHT(l), Entry(t), RIGHT(t)>>
     ELSE IF LEFT(ll) = NIL
       THEN <<<<RIGHT(ll), Entry(l), RIGHT(l)>>, Entry(t), RIGHT(t)>>
       ELSE <<Unlink(<<LEFT(ll), Entry(ll), <<RIGHT(ll), Entry(l), RIGHT(l)>>>>),
              Entry(t), RIGHT(t)>>

splay_deque(t) == IF LEFT(t) = NIL THEN RIGHT(t) ELSE Unlink(t)

(* cancel(): the node is replaced by a child, or by its successor, which   *)
(* is the leftmost node of its right subtree.                              *)
RECURSIVE WithoutLeftmost(_)
WithoutLeftmost(t) ==
  IF LEFT(t) = NIL THEN RIGHT(t) ELSE <<WithoutLeftmost(LEFT(t)), Entry(t), RIGHT(t)>>

Replacement(t) ==
  IF RIGHT(t) = NIL THEN LEFT(t)
  ELSE IF LEFT(t) = NIL THEN RIGHT(t)
  ELSE <<LEFT(t), splay_head(RIGHT(t)), WithoutLeftmost(RIGHT(t))>>

(* The search for the node goes by time and uid_; a node that is not on    *)
(* the path is not found and the code aborts: the tree is left as it is.   *)
GoRight(n, m) == n.time > m.time \/ (n.time = m.time /\ n.uid > m.uid)

RECURSIVE splay_cancel(_, _)
splay_cancel(t, n) ==
  IF t = NIL THEN NIL
  ELSE IF Entry(t) = n THEN Replacement(t)
  ELSE IF GoRight(n, Entry(t))
    THEN <<LEFT(t), Entry(t), splay_cancel(RIGHT(t), n)>>
    ELSE <<splay_cancel(LEFT(t), n), Entry(t), RIGHT(t)>>

RECURSIVE SplayInOrder(_)
SplayInOrder(t) ==
  IF t = NIL THEN <<>> ELSE SplayInOrder(LEFT(t)) \o <<Entry(t)>> \o SplayInOrder(RIGHT(t))
=============================================================================

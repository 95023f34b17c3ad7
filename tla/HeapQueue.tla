----------------------------- MODULE HeapQueue ------------------------------
(***************************************************************************)
(* The binary heap behind Scheduler/Heap (common/heap.h and                *)
(* common/scheduler.cc). h.elems holds the first h_size entries of the     *)
(* array, one based; an entry's second key is h_s_key at its insertion,    *)
(* an unsigned int that wraps around at SKeys.                             *)
(***************************************************************************)
EXTENDS Integers, Sequences

CONSTANT SKeys   \* 2^32 in the code

EmptyHeap == [elems |-> <<>>, h_s_key |-> 0]

parent(i) == i \div 2
left(i) == 2 * i
right(i) == 2 * i + 1

KEY_LESS_THAN(a, b) ==
  \/ a.key < b.key
  \/ a.key = b.key /\ a.s_key < b.s_key

swap(s, i, j) == [s EXCEPT ![i] = s[j], ![j] = s[i]]

(* The loop of heap_insert: x moves up from i past larger parents.         *)
RECURSIVE SiftUp(_, _, _)
SiftUp(s, i, x) ==
  IF i > 1 /\ KEY_LESS_THAN(x, s[parent(i)])
    THEN SiftUp([s EXCEPT ![i] = s[parent(i)]], parent(i), x)
    ELSE [s EXCEPT ![i] = x]

heap_insert(h, n) ==
  LET x == [key |-> n.time, s_key |-> h.h_s_key, elem |-> n]
  IN [elems |-> SiftUp(Append(h.elems, x), Len(h.elems) + 1, x),
      h_s_key |-> (h.h_s_key + 1) % SKeys]

(* Mutant: the last entry is not taken for a right child.                  *)
MutSmallerChild(s, i) ==
  IF right(i) < Len(s)
    THEN IF KEY_LESS_THAN(s[left(i)], s[right(i)]) THEN left(i) ELSE right(i)
    ELSE IF left(i) <= Len(s) THEN left(i) ELSE i

(* "Heapify": the entry at i moves down past smaller children.             *)
SmallerChild(s, i) ==
  IF right(i) <= Len(s)
    THEN IF KEY_LESS_THAN(s[left(i)], s[right(i)]) THEN left(i) ELSE right(i)
    ELSE IF left(i) <= Len(s) THEN left(i) ELSE i

RECURSIVE Heapify(_, _)
Heapify(s, i) ==
  IF i > Len(s) THEN s
  ELSE LET x == SmallerChild(s, i)
       IN IF x # i /\ KEY_LESS_THAN(s[x], s[i]) THEN Heapify(swap(s, i, x), x) ELSE s

RemoveRoot(s) == Heapify(SubSeq([s EXCEPT ![1] = s[Len(s)]], 1, Len(s) - 1), 1)

heap_min(h) == h.elems[1].elem

heap_extract_min(h) == [h EXCEPT !.elems = RemoveRoot(@)]

(* heap_delete brings the entry to the root without looking at keys, and   *)
(* removes the root.                                                       *)
RECURSIVE ToRoot(_, _)
ToRoot(s, i) == IF i = 1 THEN s ELSE ToRoot(swap(s, i, parent(i)), parent(i))

heap_delete(h, n) ==
  LET found == {i \in DOMAIN h.elems : h.elems[i].elem = n}
  IN IF found = {} THEN h
     ELSE [h EXCEPT !.elems = RemoveRoot(ToRoot(@, CHOOSE i \in found : TRUE))]

HeapContents(h) == {h.elems[i].elem : i \in DOMAIN h.elems}
=============================================================================

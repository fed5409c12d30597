-------------------------------- MODULE Heap --------------------------------
(***************************************************************************)
(* container/heap over the delaying queue's entries.  A queue q is a       *)
(* record: q.heap, the items in heap order, and q.entry, for each item the *)
(* entry waitingEntryByData has of it - when it is ready, and the index it *)
(* is told it has in the heap.  The entry of the heap and the entry of the *)
(* map are one object in the code, so a change by either way is seen by    *)
(* both.  Indices count from 0, as in the code.                            *)
(***************************************************************************)
EXTENDS Integers, Sequences

At(q, i)      == q.heap[i + 1]
ReadyAt(q, i) == q.entry[At(q, i)].readyAt
less(q, i, j) == ReadyAt(q, i) < ReadyAt(q, j)

swap(q, i, j) ==
    [q EXCEPT !.heap[i + 1] = At(q, j), !.heap[j + 1] = At(q, i),
              !.entry[At(q, j)].index = i, !.entry[At(q, i)].index = j]

RECURSIVE up(_, _)
up(q, j) ==
    LET i == (j - 1) \div 2
    IN  IF j <= 0 \/ ~less(q, j, i) THEN q ELSE up(swap(q, i, j), i)

(* The smaller child of i among the first n, if any.                        *)
Child(q, i, n) ==
    IF 2 * i + 2 < n /\ less(q, 2 * i + 2, 2 * i + 1) THEN 2 * i + 2 ELSE 2 * i + 1

RECURSIVE down(_, _, _)
down(q, i, n) ==
    IF i < 0 \/ 2 * i + 1 >= n \/ ~less(q, Child(q, i, n), i) THEN q
    ELSE down(swap(q, i, Child(q, i, n)), Child(q, i, n), n)

(* heap.fix: down, and up if that moved nothing.                            *)
fix(q, i) == IF down(q, i, Len(q.heap)) # q THEN down(q, i, Len(q.heap)) ELSE up(q, i)

push(q, item) ==
    up([q EXCEPT !.heap = Append(@, item), !.entry[item].index = Len(q.heap)], Len(q.heap))

(* heap.pop: the first and the last change places, the last is taken off.   *)
pop(q) ==
    LET n == Len(q.heap) - 1
        p == down(swap(q, 0, n), 0, n)
    IN  [p EXCEPT !.heap = SubSeq(@, 1, n), !.entry[At(p, n)].index = -1]

(* What a heap is: no entry is ready before its parent, and every entry     *)
(* knows where it is.                                                       *)
IsHeap(q) ==
    \A i \in 0 .. Len(q.heap) - 1 : /\ i > 0 => ~less(q, i, (i - 1) \div 2)
                                    /\ q.entry[At(q, i)].index = i
=============================================================================

------------------------------ MODULE WorkSet ------------------------------
(***************************************************************************)
(* What a work queue promises its controllers (TypedInterface of           *)
(* src/src/client-go/util/workqueue/queue.ts), without queues, locks or    *)
(* waiters: a set of items somebody wants processed and a set of items     *)
(* being processed.  An item wanted while it is busy is processed again,   *)
(* after it is finished and never beside itself; a closed set takes no     *)
(* more wishes but forgets none of those it took.                          *)
(***************************************************************************)
CONSTANTS Items

VARIABLES wanted, busy, closed

workVars == <<wanted, busy, closed>>

Init == wanted = {} /\ busy = {} /\ closed = FALSE

Want(i) ==
  /\ ~closed
  /\ wanted' = wanted \cup {i}
  /\ UNCHANGED <<busy, closed>>

Take(i) ==
  /\ i \in wanted \ busy
  /\ wanted' = wanted \ {i}
  /\ busy' = busy \cup {i}
  /\ UNCHANGED closed

Finish(i) ==
  /\ i \in busy
  /\ busy' = busy \ {i}
  /\ UNCHANGED <<wanted, closed>>

Close == closed' = TRUE /\ UNCHANGED <<wanted, busy>>

Next == Close \/ \E i \in Items : Want(i) \/ Take(i) \/ Finish(i)

Spec == Init /\ [][Next]_workVars
=============================================================================

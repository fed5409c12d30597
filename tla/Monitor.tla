------------------------------ MODULE Monitor ------------------------------
(***************************************************************************)
(* The mutex and condition variable of src/src/go/sync/{mutex,cond}.ts.    *)
(*                                                                         *)
(* A monitor is a record: whether the mutex is locked, the FIFO of callers *)
(* it has parked, the FIFO of condition waiters, and for every process how *)
(* far its call is.  A promise that is resolved only makes its process     *)
(* runnable; the process runs in a step of its own, after any step already *)
(* queued.  Each operator is the synchronous effect of one method.         *)
(***************************************************************************)
EXTENDS Naturals, Sequences

\* How far a process's call is: outside, parked in lock(), owner of the
\* mutex with its continuation queued, parked in wait(), or woken from wait()
\* and about to take the mutex again.
Progress == {"outside", "parked", "owner", "waiting", "notified"}

MonitorState(Procs) ==
  [locked : BOOLEAN, waiters : Seq(Procs), conds : Seq(Procs),
   pc : [Procs -> Progress]]

NewMonitor(Procs) ==
  [locked |-> FALSE, waiters |-> <<>>, conds |-> <<>>,
   pc |-> [p \in Procs |-> "outside"]]

\* Mutex.lock called by p: take it, or park at the end of the queue.
lock(m, p) ==
  IF m.locked
  THEN [m EXCEPT !.waiters = Append(@, p), !.pc[p] = "parked"]
  ELSE [m EXCEPT !.locked = TRUE, !.pc[p] = "owner"]

\* Mutex.unlock: hand the mutex to the first parked caller, or free it.
unlock(m) ==
  IF m.waiters = <<>>
  THEN [m EXCEPT !.locked = FALSE]
  ELSE [m EXCEPT !.waiters = Tail(@), !.pc[Head(m.waiters)] = "owner"]

\* p leaves the monitor from a method's finally block.
leave(m, p) == unlock([m EXCEPT !.pc[p] = "outside"])

\* Cond.wait called by the owner p: register first, then release the mutex.
wait(m, p) == unlock([m EXCEPT !.conds = Append(@, p), !.pc[p] = "waiting"])

\* Cond.signal: wake the longest waiter, if there is one.
signal(m) ==
  IF m.conds = <<>>
  THEN m
  ELSE [m EXCEPT !.conds = Tail(@), !.pc[Head(m.conds)] = "notified"]

\* Cond.broadcast: wake every waiter.
broadcast(m) ==
  [m EXCEPT !.conds = <<>>,
            !.pc = [p \in DOMAIN m.pc |->
                      IF \E i \in DOMAIN m.conds : m.conds[i] = p
                      THEN "notified" ELSE m.pc[p]]]
=============================================================================

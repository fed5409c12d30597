----------------------------- MODULE Workqueue -----------------------------
(***************************************************************************)
(* The controllers' work queue: class Typed of                             *)
(* src/src/client-go/util/workqueue/queue.ts, with the workers that loop   *)
(* on get() and done() and the callers of shutDown() and                   *)
(* shutDownWithDrain().                                                    *)
(*                                                                         *)
(* add() and done() run synchronously and take no lock; get() and the two  *)
(* shutdowns hold the mutex of a condition variable across awaits, so they *)
(* interleave with everything else at every point where they wait.         *)
(***************************************************************************)
EXTENDS Monitor, FiniteSets

CONSTANTS
  Items,    \* what is queued: object keys
  NoItem,   \* held by a worker that has none
  Workers,  \* loops of get(), a handler, done()
  Stoppers, \* callers of shutDown(), once each
  Drainers  \* callers of shutDownWithDrain(), once each

Procs == Workers \cup Stoppers \cup Drainers

ASSUME WorkqueueAssumptions ==
  /\ NoItem \notin Items
  /\ IsFiniteSet(Workers)
  /\ Workers \cap (Stoppers \cup Drainers) = {}
  /\ Stoppers \cap Drainers = {}

VARIABLES
  queue,            \* Typed.queue: DefaultQueue.items
  dirty,            \* Typed.dirty
  processing,       \* Typed.processing
  shuttingDown,     \* Typed.shuttingDownValue
  drain,            \* Typed.drain
  mon,              \* Typed.cond and its mutex
  held,             \* the item each worker got and has not passed to done()
  announced,        \* drainers that set the shutdown flags
  returned          \* processes whose last call returned

vars == <<queue, dirty, processing, shuttingDown, drain, mon, held,
          announced, returned>>

TypeOK ==
  /\ queue \in Seq(Items)
  /\ dirty \subseteq Items
  /\ processing \subseteq Items
  /\ shuttingDown \in BOOLEAN
  /\ drain \in BOOLEAN
  /\ mon \in MonitorState(Procs)
  /\ held \in [Workers -> Items \cup {NoItem}]
  /\ announced \subseteq Drainers
  /\ returned \subseteq Procs

Init ==
  /\ queue = <<>>
  /\ dirty = {}
  /\ processing = {}
  /\ shuttingDown = FALSE
  /\ drain = FALSE
  /\ mon = NewMonitor(Procs)
  /\ held = [w \in Workers |-> NoItem]
  /\ announced = {}
  /\ returned = {}

-----------------------------------------------------------------------------
(* The synchronous methods.                                                *)

\* Mutant: an item being processed is queued a second time.
addWhileProcessing(i) ==
  IF shuttingDown \/ i \in dirty
  THEN UNCHANGED <<queue, dirty, mon>>
  ELSE /\ dirty' = dirty \cup {i}
       /\ queue' = Append(queue, i)
       /\ mon' = signal(mon)

\* add(i): ignored once shutting down or already dirty; an item being
\* processed is only remembered, any other is queued and one waiter woken.
add(i) ==
  /\ \/ /\ shuttingDown \/ i \in dirty
        /\ UNCHANGED <<queue, dirty, mon>>
     \/ /\ ~shuttingDown /\ i \notin dirty
        /\ dirty' = dirty \cup {i}
        /\ IF i \in processing
           THEN UNCHANGED <<queue, mon>>
           ELSE queue' = Append(queue, i) /\ mon' = signal(mon)

Add(i) ==
  /\ add(i)
  /\ UNCHANGED <<processing, shuttingDown, drain, held, announced, returned>>

\* Mutant: the requeued item wakes nobody.
doneQuietly(i) ==
  /\ processing' = processing \ {i}
  /\ IF i \in dirty
     THEN queue' = Append(queue, i) /\ UNCHANGED mon
     ELSE /\ UNCHANGED queue
          /\ mon' = IF processing' = {} THEN signal(mon) ELSE mon

\* Mutant: the last item finished does not wake a drainer.
doneWithoutDrain(i) ==
  /\ processing' = processing \ {i}
  /\ IF i \in dirty
     THEN queue' = Append(queue, i) /\ mon' = signal(mon)
     ELSE UNCHANGED <<queue, mon>>

\* done(i): an item made dirty meanwhile is queued again and one waiter
\* woken; otherwise a waiter is woken when nothing is processed any more.
done(i) ==
  /\ processing' = processing \ {i}
  /\ IF i \in dirty
     THEN queue' = Append(queue, i) /\ mon' = signal(mon)
     ELSE /\ UNCHANGED queue
          /\ mon' = IF processing' = {} THEN signal(mon) ELSE mon

\* The worker's handler ends and it calls done.
Done(w) ==
  /\ held[w] # NoItem
  /\ done(held[w])
  /\ held' = [held EXCEPT ![w] = NoItem]
  /\ UNCHANGED <<dirty, shuttingDown, drain, announced, returned>>

-----------------------------------------------------------------------------
(* The methods that await the mutex.                                       *)

\* A process calls get(), shutDown() or shutDownWithDrain(): lock the mutex.
Call(p) ==
  /\ mon.pc[p] = "outside" /\ p \notin returned
  /\ p \in Workers => held[p] = NoItem
  /\ mon' = lock(mon, p)
  /\ UNCHANGED <<queue, dirty, processing, shuttingDown, drain, held,
                 announced, returned>>

\* Cond.wait, notified: take the mutex again.
Relock(p) ==
  /\ mon.pc[p] = "notified"
  /\ mon' = lock(mon, p)
  /\ UNCHANGED <<queue, dirty, processing, shuttingDown, drain, held,
                 announced, returned>>

\* get() finds nothing and waits.
GetWaits(w) ==
  /\ mon.pc[w] = "owner" /\ queue = <<>> /\ ~shuttingDown
  /\ mon' = wait(mon, w)
  /\ UNCHANGED <<queue, dirty, processing, shuttingDown, drain, held,
                 announced, returned>>

\* get() finds nothing in a queue that is shutting down: the worker ends.
GetEnds(w) ==
  /\ mon.pc[w] = "owner" /\ queue = <<>> /\ shuttingDown
  /\ mon' = leave(mon, w)
  /\ returned' = returned \cup {w}
  /\ UNCHANGED <<queue, dirty, processing, shuttingDown, drain, held, announced>>

\* Mutant: the item stays dirty while it is processed.
GetTakesDirty(w) ==
  /\ mon.pc[w] = "owner" /\ queue # <<>>
  /\ queue' = Tail(queue)
  /\ processing' = processing \cup {Head(queue)}
  /\ held' = [held EXCEPT ![w] = Head(queue)]
  /\ mon' = leave(mon, w)
  /\ UNCHANGED <<dirty, shuttingDown, drain, announced, returned>>

\* get() takes the head of the queue.
GetTakes(w) ==
  /\ mon.pc[w] = "owner" /\ queue # <<>>
  /\ queue' = Tail(queue)
  /\ processing' = processing \cup {Head(queue)}
  /\ dirty' = dirty \ {Head(queue)}
  /\ held' = [held EXCEPT ![w] = Head(queue)]
  /\ mon' = leave(mon, w)
  /\ UNCHANGED <<shuttingDown, drain, announced, returned>>

\* shutDown() owns the mutex: flags, broadcast, return (the wait group is
\* never added to).
ShutDown(s) ==
  /\ mon.pc[s] = "owner"
  /\ drain' = FALSE
  /\ shuttingDown' = TRUE
  /\ mon' = leave(broadcast(mon), s)
  /\ returned' = returned \cup {s}
  /\ UNCHANGED <<queue, dirty, processing, held, announced>>

\* The loop of shutDownWithDrain(), draining being the value of this.drain.
awaitDrained(d, m, draining) ==
  IF processing # {} /\ draining
  THEN mon' = wait(m, d) /\ UNCHANGED returned
  ELSE mon' = leave(m, d) /\ returned' = returned \cup {d}

\* shutDownWithDrain() owns the mutex for the first time.
ShutDownWithDrain(d) ==
  /\ mon.pc[d] = "owner" /\ d \notin announced
  /\ drain' = TRUE
  /\ shuttingDown' = TRUE
  /\ announced' = announced \cup {d}
  /\ awaitDrained(d, broadcast(mon), TRUE)
  /\ UNCHANGED <<queue, dirty, processing, held>>

\* shutDownWithDrain() owns the mutex again after a wait.
DrainChecks(d) ==
  /\ mon.pc[d] = "owner" /\ d \in announced
  /\ awaitDrained(d, mon, drain)
  /\ UNCHANGED <<queue, dirty, processing, shuttingDown, drain, held, announced>>

Get(w) == GetWaits(w) \/ GetEnds(w) \/ GetTakes(w)

\* What a process does without being called by anybody.
Runs(p) ==
  \/ Relock(p)
  \/ p \in Workers /\ (Call(p) \/ Get(p) \/ Done(p))
  \/ p \in Stoppers /\ ShutDown(p)
  \/ p \in Drainers /\ (ShutDownWithDrain(p) \/ DrainChecks(p))

Next ==
  \/ \E i \in Items : Add(i)
  \/ \E p \in Stoppers \cup Drainers : Call(p)
  \/ \E p \in Procs : Runs(p)

\* The event loop runs every queued continuation and the workers' loops call
\* get() again; nobody has to add items or shut the queue down.
Fairness == \A p \in Procs : WF_vars(Runs(p))

Spec == Init /\ [][Next]_vars /\ Fairness

-----------------------------------------------------------------------------
(* Properties.                                                             *)

\* No item is handed to a second worker before done() was called for it: two
\* syncs of one object never run at once, whatever adds interleave.
OneWorkerPerItem ==
  /\ \A v, w \in Workers : held[v] = held[w] /\ held[v] # NoItem => v = w
  /\ processing = {held[w] : w \in Workers} \ {NoItem}

\* The queue holds exactly the dirty items nobody is processing, each once:
\* add(), get() and done() cannot disagree about who must requeue an item.
QueueHoldsIdleDirt ==
  /\ {queue[n] : n \in DOMAIN queue} = dirty \ processing
  /\ \A m, n \in DOMAIN queue : queue[m] = queue[n] => m = n

\* Workers on their way to the check of the queue.
Arriving == {w \in Workers : mon.pc[w] \in {"notified", "parked", "owner"}}

\* add() and done() signal without holding the mutex; still a worker never
\* waits while there are more items than workers about to look, and never
\* once the queue is shutting down.
NoLostWakeup ==
  (\E w \in Workers : mon.pc[w] = "waiting") =>
    ~shuttingDown /\ Len(queue) <= Cardinality(Arriving)

\* At most one process owns the mutex, and it is free only if nobody queues
\* for it: a lock handed over in unlock() is never taken by a third caller.
MutexIsExclusive ==
  /\ \A p, q \in Procs : mon.pc[p] = "owner" /\ mon.pc[q] = "owner" => p = q
  /\ mon.locked <=> \E p \in Procs : mon.pc[p] = "owner"
  /\ ~mon.locked => mon.waiters = <<>>

\* Everything added is processed after it was added, also when the queue is
\* shut down with items in it or the add came while the item was busy.
EveryAddIsProcessed == \A i \in Items : i \in dirty ~> i \notin dirty

\* A drain ends once the workers are through, although done() wakes a single
\* waiter and the waiter may not be waiting at that moment.  (When two drains
\* run at once, the last done() wakes only one of them.)
DrainReturns ==
  (\E d \in Drainers : mon.pc[d] # "outside") ~> Drainers \cap returned # {}

\* Once shut down, every worker ends.
ShutdownEndsWorkers == shuttingDown ~> Workers \subseteq returned

\* The queue implements the abstract set of work.
Work == INSTANCE WorkSet WITH
  wanted <- dirty, busy <- processing, closed <- shuttingDown
ImplementsWorkSet == Work!Spec

\* What the queue's sets and its mutex promise at any moment.
QueueIsSound == TypeOK /\ OneWorkerPerItem /\ QueueHoldsIdleDirt /\ MutexIsExclusive

\* What is bound to happen: adds are processed, drains return, workers end.
QueueServes == EveryAddIsProcessed /\ DrainReturns /\ ShutdownEndsWorkers
=============================================================================

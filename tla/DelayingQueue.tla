--------------------------- MODULE DelayingQueue ---------------------------
(***************************************************************************)
(* The delaying and rate-limiting queues in front of a controller's work   *)
(* queue, which is taken for what it promises (WorkSet.tla; Workqueue.tla  *)
(* is shown to keep it).  addAfter hands an entry to the waiting loop over *)
(* a channel; the loop keeps the earliest time of each item and adds it    *)
(* when that time has come; a worker that fails adds its item again after  *)
(* a time that doubles with every failure.                                 *)
(*                                                                         *)
(* Between two selects the loop runs without an await, so a turn of it is  *)
(* one step.                                                               *)
(***************************************************************************)
EXTENDS WorkSet, Heap, FiniteSets

CONSTANTS
    MaxTime,    \* bound: the clock, and the times entries are ready at
    MaxAdds,    \* bound: calls of addAfter that aren't a worker's
    RoomForAdd, \* the buffer of waitingForAddCh, 1000 in the code
    BaseDelay,  \* the first delay of the rate limiter, 5 ms in the code
    MaxDelay    \* its longest

VARIABLES
    now,        \* the clock
    adding,     \* waitingForAddCh: the entries in its buffer, then those that wait for room
    waiting,    \* the loop's waitingForQueue: the items in heap order
    known,      \* the loop's waitingEntryByData: the entry of each item
    loop,       \* the waiting loop: "select" or "ended"
    stopCh,     \* whether stopCh is closed
    failures,   \* the rate limiter's failures of each item
    requeuing,  \* the items whose workers have called addRateLimited
    adds,       \* calls of addAfter so far
    promised    \* history: the earliest time each item is owed, since the loop added it last
loopVars  == <<waiting, known, loop>>
delayVars == <<workVars, now, adding, loopVars, stopCh, failures, requeuing, adds, promised>>

Never == MaxTime + 1      \* no time
NoEntry == [readyAt |-> Never, index |-> -1]
Earlier(s, t) == IF s < t THEN s ELSE t

DelayInit ==
    /\ Init
    /\ now = 0 /\ adding = <<>> /\ stopCh = FALSE /\ loop = "select" /\ adds = 0
    /\ waiting = <<>> /\ known = [i \in Items |-> NoEntry]
    /\ promised = [i \in Items |-> Never]
    /\ failures = [i \in Items |-> 0] /\ requeuing = {}

----------------------------------------------------------------------------
(* addAfter: nothing once the queue shuts down; at once without a delay;    *)
(* else an entry is sent, and the caller waits while the channel is full.   *)
(* A caller that waits is let go when stopCh is closed.                     *)
addAfter(i, delay) ==
    \/ closed /\ UNCHANGED <<workVars, adding, promised>>
    \/ /\ ~closed /\ delay = 0
       /\ Want(i) /\ UNCHANGED <<adding, promised>>
    \/ /\ ~closed /\ delay > 0 /\ now + delay <= MaxTime
       /\ adding' = Append(adding, [item |-> i, readyAt |-> now + delay])
       /\ promised' = [promised EXCEPT ![i] = Earlier(@, now + delay)]
       /\ UNCHANGED workVars

AddAfter(i, delay) ==
    /\ adds < MaxAdds /\ adds' = adds + 1
    /\ addAfter(i, delay)
    /\ UNCHANGED <<now, loopVars, stopCh, failures, requeuing>>

(* A worker takes an item; the sync succeeds: forget, then done.            *)
Get(i) ==
    Take(i) /\ UNCHANGED <<now, adding, loopVars, stopCh, failures, requeuing, adds, promised>>
Succeeds(i) ==
    /\ i \notin requeuing /\ Finish(i)
    /\ failures' = [failures EXCEPT ![i] = 0]
    /\ UNCHANGED <<now, adding, loopVars, stopCh, requeuing, adds, promised>>

(* The sync fails: addRateLimited, and done once that has returned.         *)
When(i) == Earlier(BaseDelay * 2 ^ failures[i], MaxDelay)
Fails(i) ==
    /\ i \in busy \ requeuing
    /\ addAfter(i, When(i))
    /\ failures' = [failures EXCEPT ![i] = @ + 1]
    /\ requeuing' = requeuing \cup {i}
    /\ UNCHANGED <<now, loopVars, stopCh, adds>>
Waits(i) == ~stopCh /\ \E k \in RoomForAdd + 1 .. Len(adding) : adding[k].item = i
FailedIsDone(i) ==
    /\ i \in requeuing /\ ~Waits(i)
    /\ Finish(i)
    /\ requeuing' = requeuing \ {i}
    /\ UNCHANGED <<now, adding, loopVars, stopCh, failures, adds, promised>>

----------------------------------------------------------------------------
(* The loop's own state, and what it adds to the queue in this turn.        *)
Loop == [heap |-> waiting, entry |-> known, added |-> {}]
Known(l, i) == l.entry[i] # NoEntry

(* insert: an item that is known keeps the earlier of its times, and its    *)
(* entry moves to where that belongs; any other is pushed.                  *)
insertLater(l, e) ==    \* mutant: the last time counts
    IF Known(l, e.item) THEN fix([l EXCEPT !.entry[e.item].readyAt = e.readyAt], l.entry[e.item].index)
    ELSE push([l EXCEPT !.entry[e.item].readyAt = e.readyAt], e.item)
insert(l, e) ==
    IF ~Known(l, e.item) THEN push([l EXCEPT !.entry[e.item].readyAt = e.readyAt], e.item)
    ELSE IF l.entry[e.item].readyAt <= e.readyAt THEN l
    ELSE fix([l EXCEPT !.entry[e.item].readyAt = e.readyAt], l.entry[e.item].index)

(* A new entry is inserted, or added when its time has come.                *)
Received(l, e) ==
    IF e.readyAt > now THEN insert(l, e) ELSE [l EXCEPT !.added = @ \cup {e.item}]

ReceivedAll[n \in 0 .. Len(adding)] ==
    IF n = 0 THEN Loop ELSE Received(ReceivedAll[n - 1], adding[n])

(* The entries whose time has come are popped, forgotten and added.         *)
FirstIsReady(l) == l.heap # <<>> /\ ReadyAt(l, 0) <= now
RECURSIVE popped(_)
popped(l) ==
    IF ~FirstIsReady(l) THEN l
    ELSE popped([pop(l) EXCEPT !.entry[At(l, 0)] = NoEntry, !.added = @ \cup {At(l, 0)}])

(* A turn: what the channel holds is taken - all of it, callers that wait   *)
(* included -, then the loop ends if the queue shuts down, else adds what   *)
(* is ready.  What it adds to a queue that shuts down is dropped.           *)
Turn(l) ==
    /\ waiting' = l.heap /\ known' = l.entry
    /\ wanted' = IF closed THEN wanted ELSE wanted \cup l.added
    /\ promised' = [i \in Items |-> IF i \in l.added THEN Never ELSE promised[i]]
    /\ UNCHANGED <<busy, closed, now, stopCh, failures, requeuing, adds>>

(* The select has an entry of the channel.                                  *)
LoopReceives ==
    /\ loop = "select" /\ adding # <<>>
    /\ adding' = <<>>
    /\ \/ ~closed /\ Turn(popped(ReceivedAll[Len(adding)])) /\ UNCHANGED loop
       \/ closed /\ Turn(ReceivedAll[Len(adding)]) /\ loop' = "ended"

(* The select has the heartbeat, or the timer of the first entry.           *)
TimerFires == FirstIsReady(Loop)
LoopWakes(heartbeat) ==
    /\ loop = "select" /\ (heartbeat \/ TimerFires)
    /\ \/ ~closed /\ Turn(popped(Loop)) /\ UNCHANGED loop
       \/ closed /\ Turn(Loop) /\ loop' = "ended"
    /\ UNCHANGED adding

LoopStops ==
    /\ loop = "select" /\ stopCh
    /\ loop' = "ended"
    /\ UNCHANGED <<workVars, now, adding, waiting, known, stopCh, failures, requeuing, adds, promised>>

(* shutDown: the queue first, then stopCh; shutDownWithDrain only the queue. *)
CloseQueue ==
    /\ ~closed /\ Close
    /\ UNCHANGED <<now, adding, loopVars, stopCh, failures, requeuing, adds, promised>>
StopLoop ==
    /\ closed /\ ~stopCh /\ stopCh' = TRUE
    /\ UNCHANGED <<workVars, now, adding, loopVars, failures, requeuing, adds, promised>>

Tick ==
    /\ now < MaxTime /\ now' = now + 1
    /\ UNCHANGED <<workVars, adding, loopVars, stopCh, failures, requeuing, adds, promised>>

----------------------------------------------------------------------------
DelayNext ==
    \/ \E i \in Items : Get(i) \/ Succeeds(i) \/ Fails(i) \/ FailedIsDone(i)
    \/ \E i \in Items, delay \in 0 .. MaxTime : AddAfter(i, delay)
    \/ LoopReceives \/ LoopStops \/ \E heartbeat \in BOOLEAN : LoopWakes(heartbeat)
    \/ CloseQueue \/ StopLoop \/ Tick
DelaySpec == DelayInit /\ [][DelayNext]_delayVars

(* Time passes, the timer fires, the loop and the workers go on.  Nothing   *)
(* is asked of the heartbeat, and nobody has to shut the queue down.        *)
DelayFairness ==
    /\ WF_delayVars(Tick) /\ WF_delayVars(LoopReceives) /\ WF_delayVars(LoopWakes(FALSE))
    /\ \A i \in Items : /\ WF_delayVars(Get(i)) /\ WF_delayVars(FailedIsDone(i))
                        /\ WF_delayVars(Succeeds(i) \/ Fails(i))

----------------------------------------------------------------------------
(* Properties *)

(* What addAfter accepted is somewhere on its way, with a time no later     *)
(* than promised, until the loop adds it: however often it was added again  *)
(* with other delays, before, while or after it was in the heap.            *)
DelayedIsKept ==
    loop = "select" => \A i \in Items : promised[i] # Never =>
        \/ known[i].readyAt <= promised[i] /\ \E k \in DOMAIN waiting : waiting[k] = i
        \/ \E k \in DOMAIN adding : adding[k].item = i /\ adding[k].readyAt <= promised[i]

(* The first of the heap is the one the loop's timer must be set for, and   *)
(* every entry finds itself in it when its time is moved forward.           *)
HeapIsSound ==
    /\ IsHeap(Loop)
    /\ \A i \in Items : known[i] # NoEntry <=> \E k \in DOMAIN waiting : waiting[k] = i

DelayingIsSound == DelayedIsKept /\ HeapIsSound

(* An item owed at a time is taken by a worker afterwards, unless the queue *)
(* shuts down; a failed item is one.                                        *)
DelayedIsServed == \A i \in Items : promised[i] # Never ~> (i \in busy \/ closed)
=============================================================================

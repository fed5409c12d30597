------------------------------ MODULE SyncProofs ------------------------------
(***************************************************************************)
(* Theorems about the work queue, for every set of items, workers and      *)
(* callers of the shutdowns; about the channels, for every set of channels *)
(* and callers, every capacity and every number of messages; and about the *)
(* simulated clock, for all delays and intervals and any number of tasks,  *)
(* contexts, resets and steps.                                             *)
(*                                                                         *)
(* The work queue: the inductive invariant Core adds to the checked        *)
(* properties that the monitor is sound (who is parked, who waits, who     *)
(* owns the mutex) and that a worker inside get() holds nothing; without   *)
(* the first a signal could go to the owner, without the second get()      *)
(* could overwrite an item its worker never passed to done().              *)
(*                                                                         *)
(* The channels: the inductive invariant ChannelInv adds that a message    *)
(* waits at the door of one channel at most and that a message not yet     *)
(* offered is nowhere.  Without the first, a select that loses would       *)
(* withdraw a message somebody else has parked; without the second, the    *)
(* next message would not come after all others.  Every operation is an    *)
(* instance of one step: the calls of some callers complete (settle()),    *)
(* which takes their entries out of all queues in order, and at most one   *)
(* message comes into a channel, a new one or that of its first sender.    *)
(*                                                                         *)
(* The clock: the inductive invariant ClockInv adds that no two tasks call *)
(* the same thing, that the clock is paused while it steps and is not past *)
(* a task that waits, and that the tree of contexts has its links both     *)
(* ways.  Without the first a task that has run would leave another behind *)
(* for a timer that says it is not active; without the last a cancel would *)
(* miss a context below one it reaches.                                    *)
(***************************************************************************)
EXTENDS Workqueue, Channel, Clock, FiniteSetTheorems, TLAPS

Injective(s) == \A i, j \in 1..Len(s) : s[i] = s[j] => i = j

OneOwner(locked, pc, P) ==
  /\ \A p, q \in P : pc[p] = "owner" /\ pc[q] = "owner" => p = q
  /\ locked <=> \E p \in P : pc[p] = "owner"

\* A queue of processes, each once, that all are at one point.
QueuedAt(s, pc, at) ==
  /\ \A i \in 1..Len(s) : pc[s[i]] = at
  /\ Injective(s)

Sound(m, P) ==
  /\ m \in MonitorState(P)
  /\ OneOwner(m.locked, m.pc, P)
  /\ ~m.locked => m.waiters = <<>>
  /\ QueuedAt(m.waiters, m.pc, "parked")
  /\ QueuedAt(m.conds, m.pc, "waiting")

IdleWhileCalling == \A w \in Workers : mon.pc[w] # "outside" => held[w] = NoItem

----
(* Sequences.                                                              *)

\* What Tail and Head of a non-empty queue are: DefaultQueue.pop and the
\* shift() calls of the mutex and the condition variable.
LEMMA TailFacts ==
  ASSUME NEW S, NEW s \in Seq(S), s # <<>>
  PROVE  /\ Len(s) \in Nat \ {0} /\ Head(s) = s[1] /\ Head(s) \in S
         /\ Tail(s) \in Seq(S) /\ Len(Tail(s)) = Len(s) - 1
         /\ \A i \in 1..Len(Tail(s)) : Tail(s)[i] = s[i + 1]
  OBVIOUS

\* What Append is: the push() calls.
LEMMA AppendFacts ==
  ASSUME NEW S, NEW s \in Seq(S), NEW x \in S
  PROVE  /\ Append(s, x) \in Seq(S) /\ Len(Append(s, x)) = Len(s) + 1
         /\ \A i \in 1..Len(s) : Append(s, x)[i] = s[i]
         /\ Append(s, x)[Len(s) + 1] = x
         /\ Len(s) \in Nat
  OBVIOUS

\* A queue without duplicates keeps none when its head is shifted out.
LEMMA TailInjective ==
  ASSUME NEW S, NEW s \in Seq(S), s # <<>>, Injective(s)
  PROVE  /\ Injective(Tail(s))
         /\ \A i \in 1..Len(Tail(s)) : Tail(s)[i] # Head(s)
  BY TailFacts DEF Injective

\* A queue without duplicates keeps none when a new element is pushed.
LEMMA AppendInjective ==
  ASSUME NEW S, NEW s \in Seq(S), NEW x \in S, Injective(s),
         \A i \in 1..Len(s) : s[i] # x
  PROVE  Injective(Append(s, x))
  BY AppendFacts DEF Injective

----
(* The monitor.                                                            *)

\* A process that moves between two points neither of which is `at' does not
\* touch the queue of those that are there.
LEMMA OthersStayQueued ==
  ASSUME NEW P, NEW s \in Seq(P), NEW pc \in [P -> Progress], NEW at,
         QueuedAt(s, pc, at), NEW p \in P, pc[p] # at, NEW to
  PROVE  QueuedAt(s, [pc EXCEPT ![p] = to], at)
  BY DEF QueuedAt

\* A process that joins a queue stands at its end.
LEMMA JoinsQueue ==
  ASSUME NEW P, NEW s \in Seq(P), NEW pc \in [P -> Progress], NEW at,
         QueuedAt(s, pc, at), NEW p \in P, pc[p] # at
  PROVE  /\ Append(s, p) \in Seq(P)
         /\ QueuedAt(Append(s, p), [pc EXCEPT ![p] = at], at)
<1>1. \A i \in 1..Len(s) : s[i] # p
  BY DEF QueuedAt
<1>2. Injective(Append(s, p))
  BY <1>1, AppendInjective DEF QueuedAt
<1>3. \A i \in 1..Len(s) : [pc EXCEPT ![p] = at][s[i]] = at
  BY <1>1 DEF QueuedAt
<1> QED BY <1>2, <1>3, AppendFacts DEF QueuedAt

\* The head of a queue leaves it.
LEMMA HeadLeaves ==
  ASSUME NEW P, NEW s \in Seq(P), s # <<>>, NEW pc \in [P -> Progress], NEW at,
         QueuedAt(s, pc, at), NEW to
  PROVE  /\ Head(s) \in P /\ pc[Head(s)] = at /\ Tail(s) \in Seq(P)
         /\ QueuedAt(Tail(s), [pc EXCEPT ![Head(s)] = to], at)
<1>1. Head(s) \in P /\ pc[Head(s)] = at /\ Tail(s) \in Seq(P)
  BY TailFacts DEF QueuedAt
<1>2. /\ Injective(Tail(s))
      /\ \A i \in 1..Len(Tail(s)) : Tail(s)[i] # Head(s) /\ Tail(s)[i] \in P
  BY TailInjective, TailFacts DEF QueuedAt
<1>3. \A i \in 1..Len(Tail(s)) : pc[Tail(s)[i]] = at
  BY TailFacts DEF QueuedAt
<1> QED BY <1>1, <1>2, <1>3 DEF QueuedAt

\* The queue of nobody.
LEMMA NobodyQueued ==
  ASSUME NEW P, NEW pc, NEW at
  PROVE  <<>> \in Seq(P) /\ QueuedAt(<<>>, pc, at)
  BY DEF QueuedAt, Injective

\* lock() by a process that is outside or woken keeps the monitor sound and
\* moves no other process.
LEMMA LockSound ==
  ASSUME NEW P, NEW m, Sound(m, P), NEW p \in P, m.pc[p] \in {"outside", "notified"}
  PROVE  /\ Sound(lock(m, p), P)
         /\ \A q \in P : q # p => lock(m, p).pc[q] = m.pc[q]
<1> USE DEF Sound, MonitorState
<1> DEFINE n == lock(m, p)
<1>1. CASE m.locked
  <2>1. /\ n.locked = TRUE /\ n.waiters = Append(m.waiters, p)
        /\ n.conds = m.conds /\ n.pc = [m.pc EXCEPT ![p] = "parked"]
        /\ n = [locked |-> n.locked, waiters |-> n.waiters, conds |-> n.conds, pc |-> n.pc]
    BY <1>1 DEF lock
  <2> HIDE DEF n
  <2>2. n.waiters \in Seq(P) /\ QueuedAt(n.waiters, n.pc, "parked")
    BY <2>1, JoinsQueue
  <2>3. QueuedAt(m.conds, [m.pc EXCEPT ![p] = "parked"], "waiting")
    <3>1. m.conds \in Seq(P) /\ m.pc \in [P -> Progress] /\ m.pc[p] # "waiting"
      OBVIOUS
    <3>2. QueuedAt(m.conds, m.pc, "waiting")
      OBVIOUS
    <3> QED BY <3>1, <3>2, OthersStayQueued
  <2>4. n.pc \in [P -> Progress] /\ \A q \in P : q # p => n.pc[q] = m.pc[q]
    BY <2>1 DEF Progress
  <2>5. OneOwner(n.locked, n.pc, P)
    BY <1>1, <2>1 DEF OneOwner
  <2>6. n \in MonitorState(P)
    BY <2>1, <2>2, <2>4
  <2>7. Sound(n, P)
    BY <2>1, <2>2, <2>3, <2>5, <2>6
  <2> QED BY <2>4, <2>7 DEF n
<1>2. CASE ~m.locked
  <2>1. /\ n.locked = TRUE /\ n.waiters = m.waiters
        /\ n.conds = m.conds /\ n.pc = [m.pc EXCEPT ![p] = "owner"]
        /\ n = [locked |-> n.locked, waiters |-> n.waiters, conds |-> n.conds, pc |-> n.pc]
    BY <1>2 DEF lock
  <2> HIDE DEF n
  <2>2. /\ QueuedAt(m.waiters, [m.pc EXCEPT ![p] = "owner"], "parked")
        /\ QueuedAt(m.conds, [m.pc EXCEPT ![p] = "owner"], "waiting")
    <3>1. /\ m.conds \in Seq(P) /\ m.waiters \in Seq(P) /\ m.pc \in [P -> Progress]
          /\ m.pc[p] # "waiting" /\ m.pc[p] # "parked"
      OBVIOUS
    <3>2. QueuedAt(m.conds, m.pc, "waiting") /\ QueuedAt(m.waiters, m.pc, "parked")
      OBVIOUS
    <3> QED BY <3>1, <3>2, OthersStayQueued
  <2>4. n.pc \in [P -> Progress] /\ \A q \in P : q # p => n.pc[q] = m.pc[q]
    BY <2>1 DEF Progress
  <2>5. OneOwner(n.locked, n.pc, P)
    BY <1>2, <2>1 DEF OneOwner
  <2>6. n \in MonitorState(P)
    BY <2>1, <2>4
  <2>7. Sound(n, P)
    BY <2>1, <2>2, <2>5, <2>6
  <2> QED BY <2>4, <2>7 DEF n
<1> QED BY <1>1, <1>2

\* The owner p moves to a point that is not "owner" and releases the mutex:
\* what leave() and wait() have in common.
LEMMA ReleaseSound ==
  ASSUME NEW P, NEW m, Sound(m, P), NEW p \in P, m.pc[p] = "owner",
         NEW to \in Progress \ {"owner", "parked"},
         NEW c \in Seq(P), QueuedAt(c, [m.pc EXCEPT ![p] = to], "waiting"),
         NEW k, k \in MonitorState(P), k.locked = m.locked, k.waiters = m.waiters,
         k.conds = c, k.pc = [m.pc EXCEPT ![p] = to]
  PROVE  /\ Sound(unlock(k), P)
         /\ unlock(k).pc[p] = to
         /\ \A q \in P \ {p} : unlock(k).pc[q] # "outside" => m.pc[q] # "outside"
<1> USE DEF Sound, MonitorState
<1> DEFINE n == unlock(k)
<1>0. /\ k.locked = m.locked /\ k.waiters = m.waiters /\ k.conds = c
      /\ k.pc = [m.pc EXCEPT ![p] = to]
      /\ k = [locked |-> k.locked, waiters |-> k.waiters, conds |-> k.conds, pc |-> k.pc]
      /\ k.pc \in [P -> Progress] /\ k.pc[p] = to
  OBVIOUS
<1>3. QueuedAt(m.waiters, k.pc, "parked")
  <2>1. /\ m.waiters \in Seq(P) /\ m.pc \in [P -> Progress] /\ m.pc[p] # "parked"
        /\ QueuedAt(m.waiters, m.pc, "parked")
    OBVIOUS
  <2>2. QueuedAt(m.waiters, [m.pc EXCEPT ![p] = to], "parked")
    BY <2>1, OthersStayQueued
  <2> QED BY <1>0, <2>2
<1>1. CASE m.waiters = <<>>
  <2>1. /\ n.locked = FALSE /\ n.waiters = <<>> /\ n.conds = c /\ n.pc = k.pc
        /\ n = [locked |-> n.locked, waiters |-> n.waiters, conds |-> n.conds, pc |-> n.pc]
    BY <1>0, <1>1 DEF unlock
  <2> HIDE DEF n
  <2>2. n.waiters \in Seq(P) /\ QueuedAt(n.waiters, n.pc, "parked")
    BY <2>1, NobodyQueued
  <2>3. OneOwner(n.locked, n.pc, P)
    BY <1>0, <2>1 DEF OneOwner
  <2>4. n \in MonitorState(P)
    BY <1>0, <2>1, <2>2
  <2>5. Sound(n, P)
    BY <1>0, <2>1, <2>2, <2>3, <2>4
  <2> QED BY <1>0, <2>1, <2>5 DEF n
<1>2. CASE m.waiters # <<>>
  <2> DEFINE h == Head(m.waiters)
  <2>0. /\ h \in P /\ k.pc[h] = "parked" /\ Tail(m.waiters) \in Seq(P)
        /\ QueuedAt(Tail(m.waiters), [k.pc EXCEPT ![h] = "owner"], "parked")
    BY <1>0, <1>2, <1>3, HeadLeaves
  <2>1. /\ n.locked = m.locked /\ n.waiters = Tail(m.waiters) /\ n.conds = c
        /\ n.pc = [k.pc EXCEPT ![h] = "owner"]
        /\ n = [locked |-> n.locked, waiters |-> n.waiters, conds |-> n.conds, pc |-> n.pc]
    BY <1>0, <1>2 DEF unlock
  <2> HIDE DEF n, h
  <2>2. h # p /\ m.pc[h] = "parked"
    BY <1>0, <2>0
  <2>3. m.locked
    BY DEF OneOwner
  <2>4. QueuedAt(c, [k.pc EXCEPT ![h] = "owner"], "waiting")
    <3>1. k.pc[h] # "waiting" /\ QueuedAt(c, k.pc, "waiting")
      BY <1>0, <2>0
    <3> QED BY <1>0, <2>0, <3>1, OthersStayQueued
  <2>5. OneOwner(n.locked, n.pc, P)
    <3>1. \A q \in P : n.pc[q] = "owner" <=> q = h
      BY <1>0, <2>0, <2>1, <2>2 DEF OneOwner
    <3>2. n.locked
      BY <2>1, <2>3
    <3> QED BY <2>0, <3>1, <3>2 DEF OneOwner
  <2>6. n.pc \in [P -> Progress]
    BY <1>0, <2>1 DEF Progress
  <2>7. n \in MonitorState(P)
    BY <1>0, <2>0, <2>1, <2>6
  <2>8. Sound(n, P)
    BY <2>0, <2>1, <2>3, <2>4, <2>5, <2>7
  <2> QED BY <1>0, <2>1, <2>2, <2>8 DEF n
<1> QED BY <1>1, <1>2

\* A process that leaves a method keeps the monitor sound; it ends outside
\* and nobody else gets there.
LEMMA LeaveSound ==
  ASSUME NEW P, NEW m, Sound(m, P), NEW p \in P, m.pc[p] = "owner"
  PROVE  /\ Sound(leave(m, p), P)
         /\ leave(m, p).pc[p] = "outside"
         /\ \A q \in P : leave(m, p).pc[q] # "outside" => m.pc[q] # "outside"
<1> DEFINE k == [m EXCEPT !.pc[p] = "outside"]
<1>1. /\ k \in MonitorState(P) /\ k.locked = m.locked /\ k.waiters = m.waiters
      /\ k.conds = m.conds /\ k.pc = [m.pc EXCEPT ![p] = "outside"]
  BY DEF Sound, MonitorState, Progress
<1>2. QueuedAt(m.conds, [m.pc EXCEPT ![p] = "outside"], "waiting")
  BY OthersStayQueued DEF Sound, MonitorState
<1>3. m.conds \in Seq(P) /\ "outside" \in Progress \ {"owner", "parked"}
  BY DEF Sound, MonitorState, Progress
<1>4. leave(m, p) = unlock(k)
  BY DEF leave
<1> HIDE DEF k
<1>5. /\ Sound(unlock(k), P) /\ unlock(k).pc[p] = "outside"
      /\ \A q \in P \ {p} : unlock(k).pc[q] # "outside" => m.pc[q] # "outside"
  BY <1>1, <1>2, <1>3, ReleaseSound
<1> QED BY <1>4, <1>5

\* A process that waits on the condition keeps the monitor sound.
LEMMA WaitSound ==
  ASSUME NEW P, NEW m, Sound(m, P), NEW p \in P, m.pc[p] = "owner"
  PROVE  /\ Sound(wait(m, p), P)
         /\ \A q \in P : wait(m, p).pc[q] # "outside" => m.pc[q] # "outside"
<1> DEFINE c == Append(m.conds, p)
           k == [m EXCEPT !.pc[p] = "waiting", !.conds = c]
<1>2. c \in Seq(P) /\ QueuedAt(c, [m.pc EXCEPT ![p] = "waiting"], "waiting")
  BY JoinsQueue DEF Sound, MonitorState
<1>3. "waiting" \in Progress \ {"owner", "parked"}
  BY DEF Progress
<1>4. wait(m, p) = unlock(k)
  BY DEF wait, Sound, MonitorState
<1>1. /\ k \in MonitorState(P) /\ k.locked = m.locked /\ k.waiters = m.waiters
      /\ k.conds = c /\ k.pc = [m.pc EXCEPT ![p] = "waiting"]
  BY <1>2 DEF Sound, MonitorState, Progress
<1> HIDE DEF c, k
<1>5. /\ Sound(unlock(k), P) /\ unlock(k).pc[p] = "waiting"
      /\ \A q \in P \ {p} : unlock(k).pc[q] # "outside" => m.pc[q] # "outside"
  BY <1>1, <1>2, <1>3, ReleaseSound
<1> QED BY <1>4, <1>5

\* signal() keeps the monitor sound: who it wakes was waiting.
LEMMA SignalSound ==
  ASSUME NEW P, NEW m, Sound(m, P)
  PROVE  /\ Sound(signal(m), P)
         /\ \A q \in P : signal(m).pc[q] # "outside" => m.pc[q] # "outside"
<1> USE DEF Sound, MonitorState
<1>1. CASE m.conds = <<>>
  BY <1>1 DEF signal
<1>2. CASE m.conds # <<>>
  <2> DEFINE h == Head(m.conds)
             n == signal(m)
  <2>0. /\ h \in P /\ m.pc[h] = "waiting" /\ Tail(m.conds) \in Seq(P)
        /\ QueuedAt(Tail(m.conds), [m.pc EXCEPT ![h] = "notified"], "waiting")
    BY <1>2, HeadLeaves
  <2>1. /\ n.locked = m.locked /\ n.waiters = m.waiters /\ n.conds = Tail(m.conds)
        /\ n.pc = [m.pc EXCEPT ![h] = "notified"]
        /\ n = [locked |-> n.locked, waiters |-> n.waiters, conds |-> n.conds, pc |-> n.pc]
    BY <1>2 DEF signal
  <2> HIDE DEF n, h
  <2>2. QueuedAt(m.waiters, [m.pc EXCEPT ![h] = "notified"], "parked")
    <3>1. /\ m.waiters \in Seq(P) /\ m.pc \in [P -> Progress] /\ m.pc[h] # "parked"
          /\ QueuedAt(m.waiters, m.pc, "parked")
      BY <2>0
    <3> QED BY <2>0, <3>1, OthersStayQueued
  <2>3. OneOwner(n.locked, n.pc, P)
    <3>1. \A q \in P : n.pc[q] = "owner" <=> m.pc[q] = "owner"
      BY <2>0, <2>1
    <3> QED BY <2>1, <3>1 DEF OneOwner
  <2>4. n.pc \in [P -> Progress]
    BY <2>1 DEF Progress
  <2>5. n \in MonitorState(P)
    BY <2>0, <2>1, <2>4
  <2>6. Sound(n, P)
    BY <2>0, <2>1, <2>2, <2>3, <2>5
  <2> QED BY <2>0, <2>1, <2>6 DEF n
<1> QED BY <1>1, <1>2

\* broadcast() keeps the monitor sound.
LEMMA BroadcastSound ==
  ASSUME NEW P, NEW m, Sound(m, P)
  PROVE  /\ Sound(broadcast(m), P)
         /\ \A q \in P : m.pc[q] = "owner" => broadcast(m).pc[q] = "owner"
         /\ \A q \in P : broadcast(m).pc[q] # "outside" => m.pc[q] # "outside"
<1> USE DEF Sound, MonitorState
<1> DEFINE n == broadcast(m)
           Woken(q) == \E i \in DOMAIN m.conds : m.conds[i] = q
<1>1. /\ n.locked = m.locked /\ n.waiters = m.waiters /\ n.conds = <<>>
      /\ n.pc = [q \in P |-> IF Woken(q) THEN "notified" ELSE m.pc[q]]
      /\ n = [locked |-> n.locked, waiters |-> n.waiters, conds |-> n.conds, pc |-> n.pc]
  <2>1. m = [locked |-> m.locked, waiters |-> m.waiters, conds |-> m.conds, pc |-> m.pc]
    OBVIOUS
  <2>2. n = [m EXCEPT !.conds = <<>>,
                      !.pc = [q \in DOMAIN m.pc |-> IF Woken(q) THEN "notified" ELSE m.pc[q]]]
    BY DEF broadcast
  <2>3. DOMAIN m.pc = P
    OBVIOUS
  <2> HIDE DEF Woken, n
  <2> QED BY <2>1, <2>2, <2>3
<1>2. \A q \in P : Woken(q) => m.pc[q] = "waiting"
  <2>1. DOMAIN m.conds = 1..Len(m.conds)
    OBVIOUS
  <2> QED BY <2>1 DEF QueuedAt
<1> HIDE DEF n, Woken
<1>3. \A q \in P : n.pc[q] = "notified" \/ n.pc[q] = m.pc[q]
  BY <1>1
<1>4. \A q \in P : m.pc[q] # "waiting" => n.pc[q] = m.pc[q]
  BY <1>1, <1>2
<1>5. n.pc \in [P -> Progress]
  BY <1>1 DEF Progress
<1>6. \A q \in P : n.pc[q] = "owner" <=> m.pc[q] = "owner"
  BY <1>3, <1>4
<1>7. OneOwner(n.locked, n.pc, P)
  BY <1>1, <1>6 DEF OneOwner
<1>8. QueuedAt(n.waiters, n.pc, "parked")
  BY <1>1, <1>4 DEF QueuedAt
<1>9. QueuedAt(n.conds, n.pc, "waiting") /\ n.conds \in Seq(P)
  BY <1>1, NobodyQueued
<1>10. n \in MonitorState(P)
  BY <1>1, <1>5, <1>9
<1>11. Sound(n, P)
  BY <1>1, <1>7, <1>8, <1>9, <1>10
<1> QED BY <1>3, <1>4, <1>6, <1>11, <1>1, <1>2 DEF n

----
(* The queue.                                                              *)

\* s lists the elements of S, each once.
Lists(s, S) == {s[n] : n \in DOMAIN s} = S /\ Injective(s)

\* push() of a new item.
LEMMA PushLists ==
  ASSUME NEW T, NEW q \in Seq(T), NEW S, Lists(q, S), NEW x \in T, x \notin S
  PROVE  Append(q, x) \in Seq(T) /\ Lists(Append(q, x), S \cup {x})
<1>1. \A n \in 1..Len(q) : q[n] # x
  BY DEF Lists
<1>2. Injective(Append(q, x))
  BY <1>1, AppendInjective DEF Lists
<1>3. DOMAIN q = 1..Len(q) /\ DOMAIN Append(q, x) = 1..(Len(q) + 1) /\ Len(q) \in Nat
  BY AppendFacts
<1>4. \A y : y \in {Append(q, x)[n] : n \in DOMAIN Append(q, x)} <=> y \in S \cup {x}
  <2>1. ASSUME NEW n \in DOMAIN Append(q, x)
        PROVE  Append(q, x)[n] \in S \cup {x}
    BY <1>3, AppendFacts DEF Lists
  <2>2. ASSUME NEW y \in S
        PROVE  \E n \in DOMAIN Append(q, x) : Append(q, x)[n] = y
    <3>1. PICK n \in DOMAIN q : q[n] = y
      BY DEF Lists
    <3> QED BY <3>1, <1>3, AppendFacts
  <2>3. \E n \in DOMAIN Append(q, x) : Append(q, x)[n] = x
    BY <1>3, AppendFacts
  <2> QED BY <2>1, <2>2, <2>3
<1> QED BY <1>2, <1>4, AppendFacts DEF Lists

\* pop() of a non-empty queue.
LEMMA PopLists ==
  ASSUME NEW T, NEW q \in Seq(T), NEW S, Lists(q, S), q # <<>>
  PROVE  /\ Head(q) \in S /\ Head(q) \in T /\ Tail(q) \in Seq(T)
         /\ Lists(Tail(q), S \ {Head(q)})
<1>1. Injective(Tail(q)) /\ \A i \in 1..Len(Tail(q)) : Tail(q)[i] # Head(q)
  BY TailInjective DEF Lists
<1>2. DOMAIN q = 1..Len(q) /\ DOMAIN Tail(q) = 1..(Len(q) - 1) /\ Len(q) \in Nat \ {0}
  BY TailFacts
<1>3. Head(q) \in S
  BY <1>2, TailFacts DEF Lists
<1>4. \A y : y \in {Tail(q)[n] : n \in DOMAIN Tail(q)} <=> y \in S \ {Head(q)}
  <2>1. ASSUME NEW n \in DOMAIN Tail(q)
        PROVE  Tail(q)[n] \in S \ {Head(q)}
    BY <1>1, <1>2, TailFacts DEF Lists
  <2>2. ASSUME NEW y \in S \ {Head(q)}
        PROVE  \E n \in DOMAIN Tail(q) : Tail(q)[n] = y
    <3>1. PICK n \in DOMAIN q : q[n] = y
      BY DEF Lists
    <3>2. n # 1
      BY <3>1, TailFacts
    <3>3. n - 1 \in DOMAIN Tail(q) /\ Tail(q)[n - 1] = y
      BY <1>2, <3>1, <3>2, TailFacts
    <3> QED BY <3>3
  <2> QED BY <2>1, <2>2
<1> QED BY <1>1, <1>3, <1>4, TailFacts DEF Lists

LEMMA QueueIsListing ==
  ASSUME TypeOK
  PROVE  QueueHoldsIdleDirt <=> Lists(queue, dirty \ processing)
<1>1. DOMAIN queue = 1..Len(queue)
  BY DEF TypeOK
<1> QED BY <1>1 DEF QueueHoldsIdleDirt, Lists, Injective

----
(* The inductive invariant.                                                *)

Core ==
  /\ TypeOK
  /\ Sound(mon, Procs)
  /\ IdleWhileCalling
  /\ OneWorkerPerItem
  /\ Lists(queue, dirty \ processing)

\* The initial state: nothing queued, nothing held.
LEMMA InitCore == Init => Core
<1> SUFFICES ASSUME Init PROVE Core
  OBVIOUS
<1> USE DEF Init
<1>1. mon.pc = [p \in Procs |-> "outside"] /\ mon.locked = FALSE
      /\ mon.waiters = <<>> /\ mon.conds = <<>>
  BY DEF NewMonitor
<1>2. mon \in MonitorState(Procs)
  BY DEF NewMonitor, MonitorState, Progress
<1>3. Sound(mon, Procs)
  BY <1>1, <1>2, NobodyQueued DEF Sound, OneOwner
<1>4. TypeOK
  <2>1. queue \in Seq(Items) /\ held \in [Workers -> Items \cup {NoItem}]
    OBVIOUS
  <2> QED BY <1>2, <2>1 DEF TypeOK
<1>5. OneWorkerPerItem
  BY DEF OneWorkerPerItem
<1>6. IdleWhileCalling
  BY DEF IdleWhileCalling
<1>7. Lists(queue, dirty \ processing)
  BY DEF Lists, Injective
<1> QED BY <1>3, <1>4, <1>5, <1>6, <1>7 DEF Core

\* A step that only moves the monitor, letting no worker in that holds an item.
LEMMA MonitorStep ==
  ASSUME Core, Sound(mon', Procs),
         \A w \in Workers : mon'.pc[w] # "outside" =>
           mon.pc[w] # "outside" \/ held[w] = NoItem,
         UNCHANGED <<queue, dirty, processing, held>>,
         shuttingDown' \in BOOLEAN, drain' \in BOOLEAN,
         announced' \subseteq Drainers, returned' \subseteq Procs
  PROVE  Core'
<1>1. TypeOK'
  BY DEF Core, TypeOK, Sound
<1>2. IdleWhileCalling'
  BY DEF Core, IdleWhileCalling, Procs
<1>3. OneWorkerPerItem'
  BY DEF Core, OneWorkerPerItem
<1>4. Lists(queue, dirty \ processing)'
  BY DEF Core
<1> QED BY <1>1, <1>2, <1>3, <1>4 DEF Core

\* add() keeps the invariant.
LEMMA AddCore == ASSUME Core, NEW i \in Items, Add(i) PROVE Core'
<1> USE DEF Core, Add, add
<1>1. CASE shuttingDown \/ i \in dirty
  BY <1>1, MonitorStep DEF TypeOK
<1>2. CASE ~shuttingDown /\ i \notin dirty /\ i \in processing
  <2>1. dirty' \ processing' = dirty \ processing /\ UNCHANGED <<queue, mon>>
    BY <1>2
  <2>2. TypeOK'
    BY <1>2, <2>1 DEF TypeOK
  <2> QED BY <2>1, <2>2 DEF IdleWhileCalling, OneWorkerPerItem
<1>3. CASE ~shuttingDown /\ i \notin dirty /\ i \notin processing
  <2>1. /\ queue' = Append(queue, i) /\ mon' = signal(mon)
        /\ dirty' \ processing' = (dirty \ processing) \cup {i}
    BY <1>3
  <2>2. queue' \in Seq(Items) /\ Lists(queue', dirty' \ processing')
    BY <1>3, <2>1, PushLists DEF TypeOK
  <2>3. /\ Sound(mon', Procs)
        /\ \A q \in Procs : mon'.pc[q] # "outside" => mon.pc[q] # "outside"
    BY <2>1, SignalSound
  <2>4. TypeOK'
    BY <1>3, <2>2, <2>3 DEF TypeOK, Sound
  <2>5. IdleWhileCalling'
    BY <2>3 DEF IdleWhileCalling, Procs
  <2>6. OneWorkerPerItem'
    BY DEF OneWorkerPerItem
  <2> QED BY <2>2, <2>3, <2>4, <2>5, <2>6
<1> QED BY <1>1, <1>2, <1>3

\* done() keeps the invariant: the item leaves processing and, if it is
\* dirty, exactly then joins the queue.
LEMMA DoneCore == ASSUME Core, NEW w \in Workers, Done(w) PROVE Core'
<1> USE DEF Core
<1> DEFINE i == held[w]
<1>1. i \in processing /\ i \in Items
  BY DEF Done, TypeOK, OneWorkerPerItem
<1>2. processing' = processing \ {i} /\ UNCHANGED dirty
      /\ held' = [held EXCEPT ![w] = NoItem] /\ held \in [Workers -> Items \cup {NoItem}]
  BY DEF Done, done, TypeOK
<1>3. mon' = mon \/ mon' = signal(mon)
  BY DEF Done, done
<1>4. /\ Sound(mon', Procs)
      /\ \A q \in Procs : mon'.pc[q] # "outside" => mon.pc[q] # "outside"
  BY <1>3, SignalSound
<1>5. queue' \in Seq(Items) /\ Lists(queue', dirty' \ processing')
  <2>1. CASE i \in dirty
    <3>1. queue' = Append(queue, i)
      BY <2>1 DEF Done, done
    <3>2. dirty' \ processing' = (dirty \ processing) \cup {i} /\ i \notin dirty \ processing
      BY <1>1, <1>2, <2>1
    <3> QED BY <1>1, <3>1, <3>2, PushLists DEF TypeOK
  <2>2. CASE i \notin dirty
    <3>1. UNCHANGED queue
      BY <2>2 DEF Done, done
    <3>2. dirty' \ processing' = dirty \ processing
      BY <1>2, <2>2
    <3> QED BY <3>1, <3>2 DEF TypeOK
  <2> QED BY <2>1, <2>2
<1>6. OneWorkerPerItem'
  <2>1. \A v \in Workers : held'[v] = IF v = w THEN NoItem ELSE held[v]
    BY <1>2
  <2>2. \A u, v \in Workers : held'[u] = held'[v] /\ held'[u] # NoItem => u = v
    BY <2>1 DEF OneWorkerPerItem
  <2>3. processing' = {held'[v] : v \in Workers} \ {NoItem}
    BY <1>1, <1>2, <2>1 DEF OneWorkerPerItem
  <2> QED BY <2>2, <2>3 DEF OneWorkerPerItem
<1>7. IdleWhileCalling'
  BY <1>2, <1>4 DEF IdleWhileCalling, Procs
<1>8. TypeOK'
  BY <1>2, <1>4, <1>5 DEF TypeOK, Sound, Done
<1> QED BY <1>4, <1>5, <1>6, <1>7, <1>8

\* get() keeps the invariant when it returns an item.
LEMMA GetTakesCore == ASSUME Core, NEW w \in Workers, GetTakes(w) PROVE Core'
<1> USE DEF Core, GetTakes
<1> DEFINE i == Head(queue)
<1>1. /\ i \in dirty \ processing /\ i \in Items /\ queue' \in Seq(Items)
      /\ Lists(queue', (dirty \ processing) \ {i})
  BY PopLists DEF TypeOK
<1>2. dirty' \ processing' = (dirty \ processing) \ {i}
  OBVIOUS
<1>3. w \in Procs
  BY DEF Procs
<1>4. /\ Sound(mon', Procs) /\ mon'.pc[w] = "outside"
      /\ \A q \in Procs : mon'.pc[q] # "outside" => mon.pc[q] # "outside"
  BY <1>3, LeaveSound
<1>5. /\ held[w] = NoItem /\ held' = [held EXCEPT ![w] = i]
      /\ held \in [Workers -> Items \cup {NoItem}]
  BY DEF IdleWhileCalling, TypeOK
<1>6. OneWorkerPerItem'
  <2>1. \A v \in Workers : held'[v] = IF v = w THEN i ELSE held[v]
    BY <1>5
  <2>2. i # NoItem /\ \A v \in Workers : held[v] # i
    BY <1>1, WorkqueueAssumptions DEF OneWorkerPerItem
  <2>3. \A u, v \in Workers : held'[u] = held'[v] /\ held'[u] # NoItem => u = v
    BY <2>1, <2>2 DEF OneWorkerPerItem
  <2>4. processing' = {held'[v] : v \in Workers} \ {NoItem}
    BY <1>5, <2>1, <2>2 DEF OneWorkerPerItem
  <2> QED BY <2>3, <2>4 DEF OneWorkerPerItem
<1>7. IdleWhileCalling'
  BY <1>3, <1>4, <1>5 DEF IdleWhileCalling, Procs
<1>8. TypeOK'
  BY <1>1, <1>4, <1>5 DEF TypeOK, Sound
<1> QED BY <1>1, <1>2, <1>4, <1>6, <1>7, <1>8

\* Every other step moves only the monitor and the flags.
LEMMA OtherCore ==
  ASSUME Core, NEW p \in Procs,
         \/ Call(p) \/ Relock(p)
         \/ p \in Workers /\ (GetWaits(p) \/ GetEnds(p))
         \/ p \in Stoppers /\ ShutDown(p)
         \/ p \in Drainers /\ (ShutDownWithDrain(p) \/ DrainChecks(p))
  PROVE  Core'
<1> USE DEF Core
<1>0. Sound(mon, Procs) /\ returned \subseteq Procs /\ announced \subseteq Drainers
      /\ shuttingDown \in BOOLEAN /\ drain \in BOOLEAN
  BY DEF TypeOK
<1>1. CASE Call(p)
  <2>1. Sound(mon', Procs) /\ \A q \in Procs : q # p => mon'.pc[q] = mon.pc[q]
    BY <1>0, <1>1, LockSound DEF Call
  <2>2. \A w \in Workers : mon'.pc[w] # "outside" =>
          mon.pc[w] # "outside" \/ held[w] = NoItem
    BY <1>1, <2>1 DEF Call, Procs
  <2> QED BY <1>0, <1>1, <2>1, <2>2, MonitorStep DEF Call
<1>2. CASE Relock(p)
  <2>1. Sound(mon', Procs) /\ \A q \in Procs : q # p => mon'.pc[q] = mon.pc[q]
    BY <1>0, <1>2, LockSound DEF Relock
  <2>2. \A w \in Workers : mon'.pc[w] # "outside" => mon.pc[w] # "outside"
    BY <1>2, <2>1 DEF Relock, Procs
  <2> QED BY <1>0, <1>2, <2>1, <2>2, MonitorStep DEF Relock
<1>3. CASE p \in Workers /\ GetWaits(p)
  <2>1. Sound(mon', Procs) /\ \A q \in Procs : mon'.pc[q] # "outside" => mon.pc[q] # "outside"
    BY <1>0, <1>3, WaitSound DEF GetWaits
  <2> QED BY <1>0, <1>3, <2>1, MonitorStep DEF GetWaits, Procs
<1>4. CASE p \in Workers /\ GetEnds(p)
  <2>1. Sound(mon', Procs) /\ \A q \in Procs : mon'.pc[q] # "outside" => mon.pc[q] # "outside"
    BY <1>0, <1>4, LeaveSound DEF GetEnds
  <2> QED BY <1>0, <1>4, <2>1, MonitorStep DEF GetEnds, Procs
<1>5. CASE p \in Stoppers /\ ShutDown(p)
  <2> DEFINE b == broadcast(mon)
  <2>1. /\ Sound(b, Procs) /\ b.pc[p] = "owner"
        /\ \A q \in Procs : b.pc[q] # "outside" => mon.pc[q] # "outside"
    BY <1>0, <1>5, BroadcastSound DEF ShutDown
  <2>2. mon' = leave(b, p)
    BY <1>5 DEF ShutDown
  <2> HIDE DEF b
  <2>3. Sound(mon', Procs) /\ \A q \in Procs : mon'.pc[q] # "outside" => mon.pc[q] # "outside"
    BY <2>1, <2>2, LeaveSound
  <2> QED BY <1>0, <1>5, <2>3, MonitorStep DEF ShutDown, Procs
<1>6. CASE p \in Drainers /\ ShutDownWithDrain(p)
  <2> DEFINE b == broadcast(mon)
  <2>1. /\ Sound(b, Procs) /\ b.pc[p] = "owner"
        /\ \A q \in Procs : b.pc[q] # "outside" => mon.pc[q] # "outside"
    BY <1>0, <1>6, BroadcastSound DEF ShutDownWithDrain
  <2>2. \/ mon' = leave(b, p) /\ returned' = returned \cup {p}
        \/ mon' = wait(b, p) /\ UNCHANGED returned
    BY <1>6 DEF ShutDownWithDrain, awaitDrained
  <2> HIDE DEF b
  <2>3. Sound(mon', Procs) /\ \A q \in Procs : mon'.pc[q] # "outside" => mon.pc[q] # "outside"
    BY <2>1, <2>2, LeaveSound, WaitSound
  <2> QED BY <1>0, <1>6, <2>2, <2>3, MonitorStep DEF ShutDownWithDrain, Procs
<1>7. CASE p \in Drainers /\ DrainChecks(p)
  <2>2. \/ mon' = leave(mon, p) /\ returned' = returned \cup {p}
        \/ mon' = wait(mon, p) /\ UNCHANGED returned
    BY <1>7 DEF DrainChecks, awaitDrained
  <2>3. Sound(mon', Procs) /\ \A q \in Procs : mon'.pc[q] # "outside" => mon.pc[q] # "outside"
    BY <1>0, <1>7, <2>2, LeaveSound, WaitSound DEF DrainChecks
  <2> QED BY <1>0, <1>7, <2>2, <2>3, MonitorStep DEF DrainChecks, Procs
<1> QED BY <1>1, <1>2, <1>3, <1>4, <1>5, <1>6, <1>7

\* Every step keeps the invariant.
LEMMA NextCore == Core /\ [Next]_vars => Core'
<1> SUFFICES ASSUME Core, [Next]_vars PROVE Core'
  OBVIOUS
<1>1. CASE UNCHANGED vars
  BY <1>1 DEF vars, Core, TypeOK, Sound, IdleWhileCalling, OneWorkerPerItem, Lists
<1>2. ASSUME NEW i \in Items, Add(i) PROVE Core'
  BY <1>2, AddCore
<1>3. ASSUME NEW p \in Stoppers \cup Drainers, Call(p) PROVE Core'
  BY <1>3, OtherCore DEF Procs
<1>4. ASSUME NEW p \in Procs, Runs(p) PROVE Core'
  BY <1>4, OtherCore, DoneCore, GetTakesCore DEF Runs, Get
<1> QED BY <1>1, <1>2, <1>3, <1>4 DEF Next

\* Core holds in every reachable state.
THEOREM CoreInvariant == Spec => []Core
  BY InitCore, NextCore, PTL DEF Spec

\* Every variable of the queue and its monitor keeps its type.
THEOREM TypeCorrectness == Spec => []TypeOK
<1>1. Core => TypeOK
  BY DEF Core
<1> QED BY <1>1, CoreInvariant, PTL

\* For any number of items, workers, drains and shutdowns: no object is synced
\* by two workers at once, the queue is exactly the dirty items nobody
\* processes, and the mutex has one owner and is free only when nobody waits.
THEOREM QueueSoundness == Spec => []QueueIsSound
<1>1. Core => QueueIsSound
  <2> SUFFICES ASSUME Core
               PROVE  TypeOK /\ OneWorkerPerItem /\ QueueHoldsIdleDirt /\ MutexIsExclusive
    BY DEF QueueIsSound
  <2>1. TypeOK /\ OneWorkerPerItem
    BY DEF Core
  <2>2. QueueHoldsIdleDirt
    BY QueueIsListing DEF Core
  <2>3. MutexIsExclusive
    BY DEF Core, Sound, OneOwner, MutexIsExclusive
  <2> QED BY <2>1, <2>2, <2>3
<1> QED BY <1>1, CoreInvariant, PTL

----
(* Wakeups.  Signals are sent without the mutex, so what counts is who they *)
(* can reach: the condition's queue holds everybody that waits, and until   *)
(* the shutdown, which wakes them all, these are workers only.              *)

\* Everybody who waits is in the condition's queue.
WaitersListed(m, P) ==
  \A p \in P : m.pc[p] = "waiting" => \E i \in 1..Len(m.conds) : m.conds[i] = p

\* A process that is handed the mutex while others stay where they are.
HandsOver(m, n, p, P) ==
  \A q \in P \ {p} : n.pc[q] = m.pc[q] \/ (m.pc[q] = "parked" /\ n.pc[q] = "owner")

WakeInv ==
  /\ Core
  /\ WaitersListed(mon, Procs)
  /\ \A p \in Procs : mon.pc[p] = "waiting" => p \in Workers \/ shuttingDown
  /\ announced # {} => shuttingDown
  /\ NoLostWakeup

LEMMA UnlockMoves ==
  ASSUME NEW P, NEW m \in MonitorState(P), \A i \in 1..Len(m.waiters) : m.pc[m.waiters[i]] = "parked"
  PROVE  /\ unlock(m).conds = m.conds
         /\ \A q \in P : \/ unlock(m).pc[q] = m.pc[q]
                         \/ m.pc[q] = "parked" /\ unlock(m).pc[q] = "owner"
<1> USE DEF MonitorState
<1>1. CASE m.waiters = <<>>
  BY <1>1 DEF unlock
<1>2. CASE m.waiters # <<>>
  <2>1. m.pc[Head(m.waiters)] = "parked" /\ Head(m.waiters) \in P
    BY <1>2, TailFacts
  <2>2. /\ unlock(m).conds = m.conds
        /\ unlock(m).pc = [m.pc EXCEPT ![Head(m.waiters)] = "owner"]
    BY <1>2 DEF unlock
  <2> QED BY <2>1, <2>2
<1> QED BY <1>1, <1>2

LEMMA LeaveMoves ==
  ASSUME NEW P, NEW m, Sound(m, P), NEW p \in P, m.pc[p] = "owner"
  PROVE  /\ leave(m, p).conds = m.conds /\ leave(m, p).pc[p] = "outside"
         /\ HandsOver(m, leave(m, p), p, P)
<1> DEFINE k == [m EXCEPT !.pc[p] = "outside"]
<1>1. /\ k \in MonitorState(P) /\ k.waiters = m.waiters /\ k.conds = m.conds
      /\ k.pc = [m.pc EXCEPT ![p] = "outside"]
  BY DEF Sound, MonitorState, Progress
<1>2. \A i \in 1..Len(k.waiters) : k.pc[k.waiters[i]] = "parked"
  <2>1. \A i \in 1..Len(m.waiters) : m.waiters[i] \in P /\ m.pc[m.waiters[i]] = "parked"
    BY DEF Sound, MonitorState, QueuedAt
  <2> HIDE DEF k
  <2> QED BY <1>1, <2>1 DEF Sound, MonitorState
<1>3. leave(m, p) = unlock(k)
  BY DEF leave
<1> HIDE DEF k
<1>4. /\ k.pc[p] = "outside" /\ \A q \in P \ {p} : k.pc[q] = m.pc[q]
  BY <1>1 DEF Sound, MonitorState
<1>5. /\ unlock(k).conds = k.conds
      /\ \A q \in P : \/ unlock(k).pc[q] = k.pc[q]
                      \/ k.pc[q] = "parked" /\ unlock(k).pc[q] = "owner"
  <2>1. k \in MonitorState(P)
    BY <1>1
  <2> QED BY <2>1, <1>2, UnlockMoves
<1>6. unlock(k).pc[p] = "outside" /\ HandsOver(m, unlock(k), p, P)
  BY <1>4, <1>5 DEF HandsOver
<1> QED BY <1>1, <1>3, <1>5, <1>6

LEMMA WaitMoves ==
  ASSUME NEW P, NEW m, Sound(m, P), NEW p \in P, m.pc[p] = "owner"
  PROVE  /\ wait(m, p).conds = Append(m.conds, p) /\ wait(m, p).pc[p] = "waiting"
         /\ HandsOver(m, wait(m, p), p, P)
<1> DEFINE c == Append(m.conds, p)
           k == [m EXCEPT !.conds = c, !.pc[p] = "waiting"]
<1>1. c \in Seq(P)
  BY AppendFacts DEF Sound, MonitorState
<1>2. wait(m, p) = unlock(k)
  BY DEF wait
<1> HIDE DEF c
<1>3. /\ k \in MonitorState(P) /\ k.waiters = m.waiters /\ k.conds = c
      /\ k.pc = [m.pc EXCEPT ![p] = "waiting"]
  BY <1>1 DEF Sound, MonitorState, Progress
<1> HIDE DEF k
<1>4. \A i \in 1..Len(k.waiters) : k.pc[k.waiters[i]] = "parked"
  <2>1. \A i \in 1..Len(m.waiters) : m.waiters[i] \in P /\ m.pc[m.waiters[i]] = "parked"
    BY DEF Sound, MonitorState, QueuedAt
  <2> QED BY <1>3, <2>1 DEF Sound, MonitorState
<1>5. /\ k.pc[p] = "waiting" /\ \A q \in P \ {p} : k.pc[q] = m.pc[q]
  BY <1>3 DEF Sound, MonitorState
<1>6. /\ unlock(k).conds = k.conds
      /\ \A q \in P : \/ unlock(k).pc[q] = k.pc[q]
                      \/ k.pc[q] = "parked" /\ unlock(k).pc[q] = "owner"
  <2>1. k \in MonitorState(P)
    BY <1>3
  <2> QED BY <1>4, <2>1, UnlockMoves
<1>7. unlock(k).pc[p] = "waiting" /\ HandsOver(m, unlock(k), p, P)
  BY <1>5, <1>6 DEF HandsOver
<1> QED BY <1>2, <1>3, <1>6, <1>7 DEF c

\* A process that owns the mutex and leaves or waits: whoever waits
\* afterwards did so before, or is the one that waits now; all are listed.
LEMMA OwnerGoes ==
  ASSUME NEW P, NEW m, Sound(m, P), WaitersListed(m, P), NEW p \in P, m.pc[p] = "owner",
         NEW n, n = leave(m, p) \/ n = wait(m, p)
  PROVE  /\ WaitersListed(n, P)
         /\ \A q \in P : n.pc[q] = "waiting" => m.pc[q] = "waiting" \/ (q = p /\ n = wait(m, p))
<1>1. CASE n = leave(m, p)
  BY <1>1, LeaveMoves DEF WaitersListed, HandsOver
<1>2. CASE n = wait(m, p)
  <2>1. /\ n.conds = Append(m.conds, p) /\ HandsOver(m, n, p, P)
        /\ m.conds \in Seq(P)
    BY <1>2, WaitMoves DEF Sound, MonitorState
  <2>2. /\ Len(n.conds) = Len(m.conds) + 1 /\ n.conds[Len(m.conds) + 1] = p
        /\ \A i \in 1..Len(m.conds) : n.conds[i] = m.conds[i]
        /\ Len(m.conds) \in Nat
    BY <2>1, AppendFacts
  <2> HIDE DEF HandsOver
  <2>3. \A q \in P : n.pc[q] = "waiting" => m.pc[q] = "waiting" \/ q = p
    BY <2>1 DEF HandsOver
  <2>4. ASSUME NEW q \in P, n.pc[q] = "waiting" PROVE \E i \in 1..Len(n.conds) : n.conds[i] = q
    <3>1. CASE q = p
      BY <2>2, <3>1
    <3>2. CASE m.pc[q] = "waiting"
      <4>1. PICK i \in 1..Len(m.conds) : m.conds[i] = q
        BY <3>2 DEF WaitersListed
      <4> QED BY <2>2, <4>1
    <3> QED BY <2>3, <2>4, <3>1, <3>2
  <2> QED BY <1>2, <2>3, <2>4 DEF WaitersListed
<1> QED BY <1>1, <1>2

\* signal() reaches somebody who waits, if anybody does.
LEMMA SignalMoves ==
  ASSUME NEW P, NEW m, Sound(m, P), WaitersListed(m, P)
  PROVE  /\ WaitersListed(signal(m), P)
         /\ \/ /\ signal(m) = m /\ \A q \in P : m.pc[q] # "waiting"
            \/ \E h \in P : /\ m.pc[h] = "waiting" /\ signal(m).pc[h] = "notified"
                            /\ \A q \in P \ {h} : signal(m).pc[q] = m.pc[q]
<1> USE DEF Sound, MonitorState
<1>1. CASE m.conds = <<>>
  BY <1>1 DEF signal, WaitersListed
<1>2. CASE m.conds # <<>>
  <2> DEFINE h == Head(m.conds)
             n == signal(m)
  <2>1. h = m.conds[1] /\ h \in P /\ m.pc[h] = "waiting"
    BY <1>2, TailFacts DEF QueuedAt
  <2>2. n.conds = Tail(m.conds) /\ n.pc = [m.pc EXCEPT ![h] = "notified"]
    BY <1>2 DEF signal
  <2>3. /\ Len(m.conds) \in Nat \ {0} /\ Len(n.conds) = Len(m.conds) - 1
        /\ \A i \in 1..Len(n.conds) : n.conds[i] = m.conds[i + 1]
    BY <1>2, <2>2, TailFacts
  <2> HIDE DEF h, n
  <2>4. n.pc[h] = "notified" /\ \A q \in P \ {h} : n.pc[q] = m.pc[q]
    BY <2>1, <2>2
  <2>5. ASSUME NEW q \in P, n.pc[q] = "waiting" PROVE \E i \in 1..Len(n.conds) : n.conds[i] = q
    <3>1. q # h /\ m.pc[q] = "waiting"
      BY <2>4, <2>5
    <3>2. PICK i \in 1..Len(m.conds) : m.conds[i] = q
      BY <3>1 DEF WaitersListed
    <3>3. i # 1 /\ i - 1 \in 1..Len(n.conds)
      BY <2>1, <2>3, <3>1, <3>2
    <3>4. n.conds[i - 1] = q
      BY <2>3, <3>2, <3>3
    <3> QED BY <3>3, <3>4
  <2> QED BY <2>1, <2>4, <2>5 DEF WaitersListed, n
<1> QED BY <1>1, <1>2

\* broadcast() leaves nobody waiting.
LEMMA BroadcastMoves ==
  ASSUME NEW P, NEW m, Sound(m, P), WaitersListed(m, P)
  PROVE  \A q \in P : broadcast(m).pc[q] # "waiting"
<1>1. m.conds \in Seq(P) /\ DOMAIN m.conds = 1..Len(m.conds) /\ DOMAIN m.pc = P
  BY DEF Sound, MonitorState
<1>2. broadcast(m).pc = [q \in P |-> IF \E i \in DOMAIN m.conds : m.conds[i] = q
                                     THEN "notified" ELSE m.pc[q]]
  <2>1. m = [locked |-> m.locked, waiters |-> m.waiters, conds |-> m.conds, pc |-> m.pc]
    BY DEF Sound, MonitorState
  <2> QED BY <1>1, <2>1 DEF broadcast
<1> QED BY <1>1, <1>2 DEF WaitersListed

----
(* No wakeup is lost.                                                      *)

\* As long as nobody starts to wait, nothing is queued and nobody turns away
\* from the queue, it stays watched.
LEMMA StaysWatched ==
  ASSUME NoLostWakeup, Core, UNCHANGED shuttingDown, Len(queue') <= Len(queue),
         queue' \in Seq(Items),
         \A w \in Workers : mon'.pc[w] = "waiting" => mon.pc[w] = "waiting",
         \A w \in Workers : mon.pc[w] \in {"notified", "parked", "owner"} =>
                              mon'.pc[w] \in {"notified", "parked", "owner"}
  PROVE  NoLostWakeup'
<1>1. Arriving \subseteq Arriving' /\ Arriving' \in SUBSET Workers
  BY DEF Arriving
<1>2. IsFiniteSet(Arriving') /\ IsFiniteSet(Arriving)
  BY <1>1, FS_Subset, WorkqueueAssumptions
<1>3. Cardinality(Arriving) <= Cardinality(Arriving')
  BY <1>1, <1>2, FS_Subset
<1>4. Cardinality(Arriving) \in Nat /\ Cardinality(Arriving') \in Nat
  BY <1>2, FS_CardinalityType
<1>5. Len(queue) \in Nat /\ Len(queue') \in Nat
  BY DEF Core, TypeOK
<1> QED BY <1>3, <1>4, <1>5 DEF NoLostWakeup

\* An item is queued and a signal sent: one more item, one more to look.
LEMMA QueuesAndSignals ==
  ASSUME WakeInv, NEW i \in Items, queue' = Append(queue, i), mon' = signal(mon),
         UNCHANGED <<shuttingDown, announced>>, Core'
  PROVE  WakeInv'
<1> USE DEF WakeInv
<1>1. Sound(mon, Procs) /\ WaitersListed(mon, Procs)
  BY DEF Core
<1>2. WaitersListed(mon', Procs)
  BY <1>1, SignalMoves
<1>3. CASE /\ mon' = mon /\ \A q \in Procs : mon.pc[q] # "waiting"
  <2>1. NoLostWakeup'
    BY <1>3 DEF NoLostWakeup, Procs
  <2> QED BY <1>2, <1>3, <2>1
<1>4. ASSUME NEW h \in Procs, mon.pc[h] = "waiting", mon'.pc[h] = "notified",
             \A q \in Procs \ {h} : mon'.pc[q] = mon.pc[q]
      PROVE  WakeInv'
  <2>1. \A p \in Procs : mon'.pc[p] = "waiting" => mon.pc[p] = "waiting"
    BY <1>4
  <2>2. NoLostWakeup'
    <3> SUFFICES ASSUME NEW w \in Workers, mon'.pc[w] = "waiting"
                 PROVE  ~shuttingDown /\ Len(queue') <= Cardinality(Arriving')
      BY DEF NoLostWakeup
    <3>1. ~shuttingDown /\ Len(queue) <= Cardinality(Arriving)
      BY <2>1 DEF NoLostWakeup, Procs
    <3>2. h \in Workers /\ h \notin Arriving /\ Arriving' = Arriving \cup {h}
      BY <1>4, <3>1 DEF Arriving, Procs
    <3>3. Arriving \in SUBSET Workers
      BY DEF Arriving
    <3>4. IsFiniteSet(Arriving)
      BY <3>3, FS_Subset, WorkqueueAssumptions
    <3>5. Cardinality(Arriving') = Cardinality(Arriving) + 1 /\ Cardinality(Arriving) \in Nat
      BY <3>2, <3>4, FS_AddElement, FS_CardinalityType
    <3>6. Len(queue') = Len(queue) + 1 /\ Len(queue) \in Nat
      BY DEF Core, TypeOK
    <3> QED BY <3>1, <3>5, <3>6
  <2> QED BY <1>2, <2>1, <2>2
<1> QED BY <1>1, <1>3, <1>4, SignalMoves

LEMMA AddWakes == ASSUME WakeInv, NEW i \in Items, Add(i), Core' PROVE WakeInv'
<1> USE DEF WakeInv
<1>1. CASE mon' = mon /\ queue' = queue
  <2>1. Arriving' = Arriving
    BY <1>1 DEF Arriving
  <2> QED BY <1>1, <2>1 DEF Add, NoLostWakeup
<1>2. CASE queue' = Append(queue, i) /\ mon' = signal(mon)
  BY <1>2, QueuesAndSignals DEF Add
<1> QED BY <1>1, <1>2 DEF Add, add

LEMMA DoneWakes == ASSUME WakeInv, NEW w \in Workers, Done(w), Core' PROVE WakeInv'
<1> USE DEF WakeInv
<1>1. held[w] \in Items /\ UNCHANGED <<shuttingDown, announced>>
  BY DEF Done, Core, TypeOK
<1>2. CASE queue' = Append(queue, held[w]) /\ mon' = signal(mon)
  BY <1>1, <1>2, QueuesAndSignals
<1>3. CASE queue' = queue /\ (mon' = mon \/ mon' = signal(mon))
  <2>1. Sound(mon, Procs) /\ WaitersListed(mon, Procs)
    BY DEF Core
  <2>2. WaitersListed(mon', Procs)
    BY <1>3, <2>1, SignalMoves
  <2>3. \A p \in Procs : mon'.pc[p] = mon.pc[p] \/ (mon.pc[p] = "waiting" /\ mon'.pc[p] = "notified")
    BY <1>3, <2>1, SignalMoves
  <2>4. queue' \in Seq(Items) /\ Len(queue') <= Len(queue)
    BY <1>3 DEF Core, TypeOK
  <2>5. NoLostWakeup'
    BY <1>1, <2>3, <2>4, StaysWatched DEF Procs
  <2> QED BY <1>1, <2>2, <2>3, <2>5
<1> QED BY <1>2, <1>3 DEF Done, done

\* The worker that takes an item is the one that no longer looks.
LEMMA GetTakesWakes == ASSUME WakeInv, NEW w \in Workers, GetTakes(w), Core' PROVE WakeInv'
<1> USE DEF WakeInv
<1>1. Sound(mon, Procs) /\ WaitersListed(mon, Procs) /\ w \in Procs /\ mon.pc[w] = "owner"
      /\ mon' = leave(mon, w) /\ UNCHANGED <<shuttingDown, announced>>
  BY DEF Core, GetTakes, Procs
<1>2. WaitersListed(mon', Procs) /\ \A p \in Procs : mon'.pc[p] = "waiting" => mon.pc[p] = "waiting"
  <2>1. mon'.pc[w] = "outside"
    BY <1>1, LeaveMoves
  <2> QED BY <1>1, <2>1, OwnerGoes
<1>3. mon'.pc[w] = "outside" /\ HandsOver(mon, mon', w, Procs)
  BY <1>1, LeaveMoves
<1>4. w \in Arriving /\ Arriving' = Arriving \ {w} /\ Arriving \in SUBSET Workers
  BY <1>1, <1>3 DEF Arriving, HandsOver, Procs
<1>5. IsFiniteSet(Arriving)
  BY <1>4, FS_Subset, WorkqueueAssumptions
<1>6. Cardinality(Arriving') = Cardinality(Arriving) - 1 /\ Cardinality(Arriving) \in Nat
  BY <1>4, <1>5, FS_RemoveElement, FS_CardinalityType
<1>7. Len(queue') = Len(queue) - 1 /\ Len(queue) \in Nat
  BY TailFacts DEF GetTakes, Core, TypeOK
<1>8. NoLostWakeup'
  BY <1>1, <1>2, <1>6, <1>7 DEF NoLostWakeup, Procs
<1> QED BY <1>1, <1>2, <1>8

\* A process that takes the mutex or parks for it keeps looking.
LEMMA LockWakes ==
  ASSUME WakeInv, NEW p \in Procs, mon.pc[p] \in {"outside", "notified"}, mon' = lock(mon, p),
         UNCHANGED <<queue, shuttingDown, announced>>, Core'
  PROVE  WakeInv'
<1> USE DEF WakeInv
<1>1. /\ mon'.conds = mon.conds /\ mon'.pc[p] \in {"parked", "owner"}
      /\ \A q \in Procs \ {p} : mon'.pc[q] = mon.pc[q]
  BY DEF lock, Core, Sound, MonitorState
<1>2. WaitersListed(mon', Procs) /\ \A q \in Procs : mon'.pc[q] = "waiting" => mon.pc[q] = "waiting"
  BY <1>1 DEF WaitersListed
<1>3. queue' \in Seq(Items) /\ Len(queue') <= Len(queue)
  BY DEF Core, TypeOK
<1>4. NoLostWakeup'
  BY <1>1, <1>2, <1>3, StaysWatched DEF Procs
<1> QED BY <1>2, <1>4

\* Whoever waits for an item waits beside an empty queue.
LEMMA GetWaitsWakes == ASSUME WakeInv, NEW w \in Workers, GetWaits(w), Core' PROVE WakeInv'
<1> USE DEF WakeInv
<1>1. Sound(mon, Procs) /\ WaitersListed(mon, Procs) /\ w \in Procs /\ mon.pc[w] = "owner"
      /\ mon' = wait(mon, w) /\ UNCHANGED <<shuttingDown, announced>>
  BY DEF Core, GetWaits, Procs
<1>2. /\ WaitersListed(mon', Procs)
      /\ \A p \in Procs : mon'.pc[p] = "waiting" => mon.pc[p] = "waiting" \/ p = w
  BY <1>1, OwnerGoes
<1>3. ~shuttingDown' /\ Len(queue') = 0
  BY DEF GetWaits
<1>4. Cardinality(Arriving') \in Nat
  <2>1. Arriving' \in SUBSET Workers
    BY DEF Arriving
  <2> QED BY <2>1, FS_Subset, FS_CardinalityType, WorkqueueAssumptions
<1> QED BY <1>1, <1>2, <1>3, <1>4 DEF NoLostWakeup

\* Once shutting down, no worker waits, whoever comes and goes.
LEMMA ShutStaysAwake ==
  ASSUME WaitersListed(mon', Procs), shuttingDown', Core',
         \A w \in Workers : mon'.pc[w] # "waiting"
  PROVE  WakeInv'
  BY DEF WakeInv, NoLostWakeup

LEMMA ShutdownWakes ==
  ASSUME WakeInv, NEW p \in Procs, Core',
         \/ p \in Workers /\ GetEnds(p)
         \/ p \in Stoppers /\ ShutDown(p)
         \/ p \in Drainers /\ (ShutDownWithDrain(p) \/ DrainChecks(p))
  PROVE  WakeInv'
<1> USE DEF WakeInv
<1>1. Sound(mon, Procs) /\ WaitersListed(mon, Procs)
  BY DEF Core
<1>2. ASSUME shuttingDown PROVE \A w \in Workers : mon.pc[w] # "waiting"
  BY <1>2 DEF NoLostWakeup
<1>3. CASE p \in Workers /\ GetEnds(p)
  <2>1. mon.pc[p] = "owner" /\ mon' = leave(mon, p) /\ shuttingDown /\ shuttingDown'
    BY <1>3 DEF GetEnds
  <2>2. mon'.pc[p] = "outside"
    BY <1>1, <2>1, LeaveMoves
  <2>3. WaitersListed(mon', Procs) /\ \A q \in Procs : mon'.pc[q] = "waiting" => mon.pc[q] = "waiting"
    BY <1>1, <2>1, <2>2, OwnerGoes
  <2> QED BY <1>2, <2>1, <2>3, ShutStaysAwake DEF Procs
<1>4. ASSUME p \in Stoppers \cup Drainers, NEW m, Sound(m, Procs), WaitersListed(m, Procs),
             m.pc[p] = "owner", mon' = leave(m, p) \/ mon' = wait(m, p), shuttingDown',
             \A w \in Workers : m.pc[w] # "waiting"
      PROVE  WakeInv'
  <2>1. p \notin Workers
    BY <1>4, WorkqueueAssumptions
  <2>2. /\ WaitersListed(mon', Procs)
        /\ \A q \in Procs : mon'.pc[q] = "waiting" => m.pc[q] = "waiting" \/ q = p
    BY <1>4, OwnerGoes
  <2>3. \A w \in Workers : mon'.pc[w] # "waiting"
    BY <1>4, <2>1, <2>2 DEF Procs
  <2> QED BY <1>4, <2>2, <2>3, ShutStaysAwake
<1> DEFINE b == broadcast(mon)
<1>5. /\ Sound(b, Procs) /\ \A q \in Procs : b.pc[q] # "waiting"
      /\ \A q \in Procs : mon.pc[q] = "owner" => b.pc[q] = "owner"
  BY <1>1, BroadcastSound, BroadcastMoves
<1>6. WaitersListed(b, Procs) /\ \A w \in Workers : b.pc[w] # "waiting"
  BY <1>5 DEF WaitersListed, Procs
<1>7. CASE p \in Stoppers /\ ShutDown(p)
  <2>1. mon.pc[p] = "owner" /\ mon' = leave(b, p) /\ shuttingDown'
    BY <1>7 DEF ShutDown
  <2> HIDE DEF b
  <2> QED BY <1>4, <1>5, <1>6, <1>7, <2>1
<1>8. CASE p \in Drainers /\ ShutDownWithDrain(p)
  <2>1. mon.pc[p] = "owner" /\ (mon' = leave(b, p) \/ mon' = wait(b, p)) /\ shuttingDown'
    BY <1>8 DEF ShutDownWithDrain, awaitDrained
  <2> HIDE DEF b
  <2> QED BY <1>4, <1>5, <1>6, <1>8, <2>1
<1>9. CASE p \in Drainers /\ DrainChecks(p)
  <2>1. /\ mon.pc[p] = "owner" /\ (mon' = leave(mon, p) \/ mon' = wait(mon, p))
        /\ shuttingDown /\ shuttingDown'
    BY <1>9 DEF DrainChecks, awaitDrained
  <2> QED BY <1>1, <1>2, <1>4, <1>9, <2>1
<1> QED BY <1>3, <1>7, <1>8, <1>9

LEMMA InitWakes == Init => WakeInv
<1> SUFFICES ASSUME Init PROVE WakeInv
  OBVIOUS
<1>1. \A p \in Procs : mon.pc[p] = "outside"
  BY DEF Init, NewMonitor
<1> QED BY <1>1, InitCore DEF Init, WakeInv, WaitersListed, NoLostWakeup, Procs

LEMMA NextWakes == WakeInv /\ [Next]_vars => WakeInv'
<1> SUFFICES ASSUME WakeInv, [Next]_vars PROVE WakeInv'
  OBVIOUS
<1>1. Core'
  BY NextCore DEF WakeInv
<1>2. CASE UNCHANGED vars
  BY <1>1, <1>2 DEF vars, WakeInv, WaitersListed, NoLostWakeup, Arriving
<1>3. ASSUME NEW i \in Items, Add(i) PROVE WakeInv'
  BY <1>1, <1>3, AddWakes
<1>4. ASSUME NEW p \in Procs, Call(p) \/ Relock(p) PROVE WakeInv'
  BY <1>1, <1>4, LockWakes DEF Call, Relock
<1>5. ASSUME NEW p \in Procs, Runs(p) PROVE WakeInv'
  BY <1>1, <1>4, <1>5, DoneWakes, GetTakesWakes, GetWaitsWakes, ShutdownWakes DEF Runs, Get
<1> QED BY <1>2, <1>3, <1>4, <1>5 DEF Next, Procs

\* add() and done() signal without holding the mutex, and still no worker
\* sleeps beside work nobody is about to look at, or through a shutdown.
THEOREM NoWakeupIsLost == Spec => []NoLostWakeup
<1>1. WakeInv => NoLostWakeup
  BY DEF WakeInv
<1> QED BY <1>1, InitWakes, NextWakes, PTL DEF Spec

----
(* Refinement.                                                             *)

\* The queue implements the abstract set of work: every accepted item is
\* taken once per time it was wanted and never beside itself.
THEOREM QueueImplementsWorkSet == Spec => ImplementsWorkSet
<1>1. Init => Work!Init
  BY DEF Init, Work!Init
<1>2. Core /\ [Next]_vars => [Work!Next]_(Work!workVars)
  <2> SUFFICES ASSUME Core, [Next]_vars
               PROVE  Work!Next \/ UNCHANGED <<dirty, processing, shuttingDown>>
    BY DEF Work!workVars
  <2>1. CASE UNCHANGED vars
    BY <2>1 DEF vars
  <2>2. ASSUME NEW i \in Items, Add(i)
        PROVE  Work!Next \/ UNCHANGED <<dirty, processing, shuttingDown>>
    <3>1. Work!Want(i) \/ UNCHANGED <<dirty, processing, shuttingDown>>
      BY <2>2 DEF Add, add, Work!Want
    <3> QED BY <3>1 DEF Work!Next
  <2>3. ASSUME NEW p \in Procs, Call(p) \/ Relock(p)
        PROVE  UNCHANGED <<dirty, processing, shuttingDown>>
    BY <2>3 DEF Call, Relock
  <2>4. ASSUME NEW w \in Workers, GetWaits(w) \/ GetEnds(w)
        PROVE  UNCHANGED <<dirty, processing, shuttingDown>>
    BY <2>4 DEF GetWaits, GetEnds
  <2>5. ASSUME NEW w \in Workers, GetTakes(w)
        PROVE  Work!Next
    <3>1. Head(queue) \in dirty \ processing /\ Head(queue) \in Items
      BY <2>5, PopLists DEF GetTakes, Core, TypeOK
    <3>2. Work!Take(Head(queue))
      BY <2>5, <3>1 DEF GetTakes, Work!Take
    <3> QED BY <3>1, <3>2 DEF Work!Next
  <2>6. ASSUME NEW w \in Workers, Done(w)
        PROVE  Work!Next
    <3>1. held[w] \in processing /\ held[w] \in Items
      BY <2>6 DEF Done, Core, TypeOK, OneWorkerPerItem
    <3>2. Work!Finish(held[w])
      BY <2>6, <3>1 DEF Done, done, Work!Finish
    <3> QED BY <3>1, <3>2 DEF Work!Next
  <2>7. ASSUME NEW s, ShutDown(s) \/ ShutDownWithDrain(s)
        PROVE  Work!Next
    BY <2>7 DEF ShutDown, ShutDownWithDrain, Work!Next, Work!Close
  <2>8. ASSUME NEW d, DrainChecks(d)
        PROVE  UNCHANGED <<dirty, processing, shuttingDown>>
    BY <2>8 DEF DrainChecks
  <2> QED BY <2>1, <2>2, <2>3, <2>4, <2>5, <2>6, <2>7, <2>8 DEF Next, Runs, Get, Procs
<1> QED BY <1>1, <1>2, CoreInvariant, PTL DEF Spec, ImplementsWorkSet, Work!Spec

----
(* The channels.                                                           *)

\* r is what is left of the queue q: its elements but those in gone, in order.
Leaves(q, r, gone) ==
  \E f \in [DOMAIN r -> DOMAIN q] :
    /\ \A k \in DOMAIN r : r[k] = q[f[k]] /\ r[k] \notin gone
    /\ \A k, l \in DOMAIN r : k < l => f[k] < f[l]
    /\ \A i \in DOMAIN q : q[i] \notin gone => \E k \in DOMAIN r : f[k] = i

\* The elements of a finite set of numbers are numbered in their order: each
\* one by how many do not come after it.
LEMMA Ranked ==
  ASSUME NEW A, A \subseteq Nat, IsFiniteSet(A)
  PROVE  LET rank(i) == Cardinality({j \in A : j <= i})
         IN  /\ Cardinality(A) \in Nat
             /\ \A i \in A : rank(i) \in 1 .. Cardinality(A)
             /\ \A i, j \in A : i < j <=> rank(i) < rank(j)
             /\ \A k \in 1 .. Cardinality(A) : \E i \in A : rank(i) = k
<1> DEFINE upTo(i) == {j \in A : j <= i}
           rank(i) == Cardinality(upTo(i))
           N == Cardinality(A)
<1>1. \A i \in A : IsFiniteSet(upTo(i)) /\ rank(i) \in Nat /\ rank(i) <= N /\ rank(i) # 0
  <2> TAKE i \in A
  <2>1. upTo(i) \in SUBSET A /\ i \in upTo(i)
    OBVIOUS
  <2> HIDE DEF upTo
  <2>2. IsFiniteSet(upTo(i)) /\ Cardinality(upTo(i)) <= Cardinality(A)
    BY <2>1, FS_Subset
  <2>3. Cardinality(upTo(i)) \in Nat /\ Cardinality(upTo(i)) # 0
    BY <2>1, <2>2, FS_CardinalityType, FS_EmptySet
  <2> QED BY <2>2, <2>3
<1>2. N \in Nat
  BY FS_CardinalityType
<1>3. ASSUME NEW i \in A, NEW j \in A, i < j PROVE rank(i) < rank(j)
  <2>1. upTo(i) \in SUBSET upTo(j) /\ j \in upTo(j) /\ j \notin upTo(i)
    <3>1. i \in Nat /\ j \in Nat
      OBVIOUS
    <3>2. \A x \in A : x \in Nat /\ (x <= i => x <= j)
      BY <3>1, <1>3
    <3>3. j <= j /\ ~(j <= i)
      BY <3>1, <1>3
    <3> QED BY <3>2, <3>3
  <2>2. IsFiniteSet(upTo(j)) /\ rank(i) \in Nat /\ rank(j) \in Nat
    BY <1>1
  <2> HIDE DEF upTo
  <2>3. /\ Cardinality(upTo(i)) <= Cardinality(upTo(j))
        /\ Cardinality(upTo(j)) = Cardinality(upTo(i)) => upTo(j) = upTo(i)
    BY <2>1, <2>2, FS_Subset
  <2> QED BY <2>1, <2>2, <2>3
<1>4. \A i, j \in A : i < j <=> rank(i) < rank(j)
  <2> HIDE DEF rank
  <2> TAKE i, j \in A
  <2>1. i \in Nat /\ j \in Nat /\ rank(i) \in Nat /\ rank(j) \in Nat
    BY <1>1
  <2>2. (i < j => rank(i) < rank(j)) /\ (j < i => rank(j) < rank(i)) /\ (i = j => rank(i) = rank(j))
    BY <1>3
  <2> QED BY <2>1, <2>2
<1>5. \A k \in 1 .. N : \E i \in A : rank(i) = k
  <2> DEFINE f == [i \in A |-> rank(i)]
  <2>1. \A i \in A : rank(i) \in 1 .. N
    BY <1>1, <1>2
  <2>2. \A i, j \in A : rank(i) = rank(j) => i = j
    <3> HIDE DEF rank
    <3> TAKE i, j \in A
    <3>1. i \in Nat /\ j \in Nat /\ rank(i) \in Nat /\ rank(j) \in Nat
      BY <1>1
    <3> QED BY <3>1, <1>4
  <2> HIDE DEF rank, N
  <2>3. f \in Injection(A, 1 .. N)
    BY <2>1, <2>2 DEF Injection, IsInjective
  <2>4. IsFiniteSet(1 .. N) /\ Cardinality(1 .. N) = N
    <3>1. 1 \in Int /\ N \in Int
      BY <1>2
    <3>2. IsFiniteSet(1 .. N) /\ Cardinality(1 .. N) = IF 1 > N THEN 0 ELSE N - 1 + 1
      BY <3>1, FS_Interval
    <3> QED BY <1>2, <3>2
  <2>5. Cardinality(A) = N
    BY DEF N
  <2>6. f \in Surjection(A, 1 .. N)
    <3> HIDE DEF f
    <3> QED BY <2>3, <2>4, <2>5, FS_Injection
  <2> QED BY <2>6 DEF Surjection
<1>6. \A i \in A : rank(i) \in 1 .. N
  <2> HIDE DEF rank, N
  <2> TAKE i \in A
  <2>1. rank(i) \in Nat /\ rank(i) <= N /\ rank(i) # 0
    BY <1>1
  <2> QED BY <2>1, <1>2
<1> QED BY <1>2, <1>4, <1>5, <1>6

\* What without() gives: select's cancel functions take an entry out of its
\* queue and leave the others in order.
LEMMA WithoutLeaves ==
  ASSUME NEW S, NEW q \in Seq(S), NEW gone
  PROVE  without(q, gone) \in Seq(S) /\ Leaves(q, without(q, gone), gone)
<1> DEFINE A == {i \in DOMAIN q : q[i] \notin gone}
           rank(i) == Cardinality({j \in A : j <= i})
           N == Cardinality(A)
           f == [k \in 1 .. N |-> CHOOSE i \in A : rank(i) = k]
           r == [k \in 1 .. N |-> q[f[k]]]
<1>1. A \subseteq Nat /\ IsFiniteSet(A)
  <2>1. Len(q) \in Nat /\ DOMAIN q = 1 .. Len(q)
    OBVIOUS
  <2>2. IsFiniteSet(1 .. Len(q))
    BY <2>1, FS_Interval
  <2>3. A \in SUBSET (1 .. Len(q)) /\ 1 .. Len(q) \subseteq Nat
    BY <2>1
  <2> HIDE DEF A
  <2> QED BY <2>2, <2>3, FS_Subset
<1>2. without(q, gone) = r
  BY DEF without
<1>3. A \subseteq DOMAIN q /\ \A i \in DOMAIN q : i \in A <=> q[i] \notin gone
  OBVIOUS
<1> HIDE DEF A
<1>4. /\ N \in Nat
      /\ \A i \in A : rank(i) \in 1 .. N
      /\ \A i, j \in A : i < j <=> rank(i) < rank(j)
      /\ \A k \in 1 .. N : \E i \in A : rank(i) = k
  BY <1>1, Ranked
<1> HIDE DEF rank, N
<1>5. \A k \in 1 .. N : f[k] \in A /\ rank(f[k]) = k
  BY <1>4
<1> HIDE DEF f
<1>6. \A k, l \in 1 .. N : k < l => f[k] < f[l]
  BY <1>4, <1>5
<1>7. \A i \in A : f[rank(i)] = i
  <2> TAKE i \in A
  <2>1. rank(i) \in 1 .. N /\ f[rank(i)] \in A /\ rank(f[rank(i)]) = rank(i)
    BY <1>4, <1>5
  <2>2. i \in Nat /\ f[rank(i)] \in Nat
    BY <1>1, <2>1
  <2>3. ~(i < f[rank(i)]) /\ ~(f[rank(i)] < i)
    <3>1. rank(i) \in Nat
      BY <2>1, <1>4
    <3> QED BY <1>4, <2>1, <3>1
  <2> QED BY <2>2, <2>3
<1>8. r \in Seq(S) /\ DOMAIN r = 1 .. N
  <2>1. \A k \in 1 .. N : q[f[k]] \in S
    BY <1>3, <1>5
  <2> QED BY <2>1, <1>4
<1>9. Leaves(q, r, gone)
  <2>1. f \in [DOMAIN r -> DOMAIN q]
    BY <1>3, <1>5, <1>8 DEF f
  <2>2. \A k \in DOMAIN r : r[k] = q[f[k]] /\ r[k] \notin gone
    BY <1>3, <1>5, <1>8
  <2>3. \A i \in DOMAIN q : q[i] \notin gone => \E k \in DOMAIN r : f[k] = i
    BY <1>3, <1>4, <1>7, <1>8
  <2> QED BY <2>1, <2>2, <2>3, <1>6, <1>8 DEF Leaves
<1> QED BY <1>2, <1>8, <1>9

\* What channel c has delivered and what it holds: its messages up to those
\* that are parked at its door.
Held(n, c) == n.taken[c] \o n.values[c]

Rising(s)   == \A i, j \in DOMAIN s : i < j => s[i] < s[j]
InLine(q)   == \A i, j \in DOMAIN q : i < j => q[i][2] < q[j][2]
Before(s, q) == \A i \in DOMAIN s, j \in DOMAIN q : s[i] < q[j][2]

IsHeld(n, m)   == \E c \in Channels : \E i \in DOMAIN Held(n, c) : Held(n, c)[i] = m
IsParked(n, m) == \E c \in Channels : \E i \in DOMAIN n.senders[c] : n.senders[c][i][2] = m

\* The messages up to k, those offered, are in the order of the channels, at one
\* door at most, and where their fate says they are.
InOrder(n) ==
  \A c \in Channels :
    Rising(Held(n, c)) /\ Before(Held(n, c), n.senders[c]) /\ InLine(n.senders[c])
OneDoor(n) ==
  \A c, d \in Channels : \A i \in DOMAIN n.senders[c], j \in DOMAIN n.senders[d] :
    n.senders[c][i][2] = n.senders[d][j][2] => c = d
FatesHold(n, k) ==
  \A m \in Messages :
    /\ n.fate[m] = "sent" <=> IsHeld(n, m)
    /\ n.fate[m] = "parked" <=> IsParked(n, m)
    /\ m > k => n.fate[m] = "none"
MessagesSound(n, k) == InOrder(n) /\ OneDoor(n) /\ FatesHold(n, k)

\* The calls of the callers in gone have completed.
Settled(n, r, gone) ==
  /\ r.waiting = [p \in Callers |-> IF p \in gone THEN "no" ELSE n.waiting[p]]
  /\ \A c \in Channels : /\ Leaves(n.receivers[c], r.receivers[c], gone)
                         /\ Leaves(n.senders[c], r.senders[c], gone \X Messages)

\* Message m, if it is one, has come into channel c.
Delivers(n, r, c, m) ==
  \A d \in Channels :
    Held(r, d) = IF d = c /\ m # 0 THEN Append(Held(n, d), m) ELSE Held(n, d)

\* It was sent, the other offers of the callers in gone were given up, and so
\* was what was offered since k.
FatesAfter(n, r, gone, m, k, l) ==
  \A x \in Messages :
    IF x = m THEN r.fate[x] = "sent"
    ELSE IF \E p \in gone, d \in Channels : <<p, x>> \in entries(n.senders[d])
    THEN r.fate[x] \in {"withdrawn", "failed"}
    ELSE IF x > k /\ x <= l THEN r.fate[x] \in {"withdrawn", "failed"}
    ELSE r.fate[x] = n.fate[x]

\* What is left of a queue was in it, and whatever was not to leave it is left.
LEMMA LeavesFacts ==
  ASSUME NEW S, NEW q \in Seq(S), NEW r \in Seq(S), NEW gone, Leaves(q, r, gone)
  PROVE  /\ q = <<>> => r = <<>>
         /\ \A k \in DOMAIN r : r[k] \notin gone /\ \E i \in DOMAIN q : q[i] = r[k]
         /\ \A i \in DOMAIN q : q[i] \notin gone => \E k \in DOMAIN r : r[k] = q[i]
<1>1. PICK f \in [DOMAIN r -> DOMAIN q] :
        /\ \A k \in DOMAIN r : r[k] = q[f[k]] /\ r[k] \notin gone
        /\ \A i \in DOMAIN q : q[i] \notin gone => \E k \in DOMAIN r : f[k] = i
  BY DEF Leaves
<1>2. ASSUME q = <<>> PROVE r = <<>>
  <2>1. DOMAIN q = {}
    BY <1>2
  <2>2. DOMAIN r = {}
    BY <2>1, <1>1
  <2> QED BY <2>2
<1> QED BY <1>1, <1>2

\* Leaving keeps the line in order.
LEMMA LeavesInLine ==
  ASSUME NEW q \in Seq(Callers \X Messages), NEW r \in Seq(Callers \X Messages),
         NEW gone, Leaves(q, r, gone), InLine(q)
  PROVE  InLine(r)
  BY DEF Leaves, InLine

\* A queue none of whose elements leaves stays as it is.
LEMMA LeavesItself ==
  ASSUME NEW S, NEW q \in Seq(S), NEW gone, \A i \in DOMAIN q : q[i] \notin gone
  PROVE  Leaves(q, q, gone)
<1> DEFINE f == [k \in DOMAIN q |-> k]
<1>1. f \in [DOMAIN q -> DOMAIN q]
  OBVIOUS
<1> QED BY <1>1 DEF Leaves

\* The head was served first: shift(), then the cancels.
LEMMA TailLeaves ==
  ASSUME NEW S, NEW q \in Seq(S), q # <<>>, NEW r \in Seq(S), NEW gone, Head(q) \in gone,
         Leaves(Tail(q), r, gone)
  PROVE  Leaves(q, r, gone)
<1>1. PICK f \in [DOMAIN r -> DOMAIN Tail(q)] :
        /\ \A k \in DOMAIN r : r[k] = Tail(q)[f[k]] /\ r[k] \notin gone
        /\ \A k, l \in DOMAIN r : k < l => f[k] < f[l]
        /\ \A i \in DOMAIN Tail(q) : Tail(q)[i] \notin gone => \E k \in DOMAIN r : f[k] = i
  BY DEF Leaves
<1>2. /\ Len(q) \in Nat \ {0} /\ DOMAIN q = 1 .. Len(q) /\ DOMAIN Tail(q) = 1 .. Len(q) - 1
      /\ q[1] = Head(q) /\ \A i \in 1 .. Len(q) - 1 : Tail(q)[i] = q[i + 1]
  BY TailFacts
<1> DEFINE g == [k \in DOMAIN r |-> f[k] + 1]
<1>3. g \in [DOMAIN r -> DOMAIN q] /\ \A k \in DOMAIN r : g[k] = f[k] + 1
  BY <1>1, <1>2
<1>4. \A k \in DOMAIN r : r[k] = q[g[k]] /\ r[k] \notin gone
  BY <1>1, <1>2, <1>3
<1>5. \A k, l \in DOMAIN r : k < l => g[k] < g[l]
  <2>1. \A k \in DOMAIN r : f[k] \in Nat
    BY <1>1, <1>2
  <2> QED BY <1>1, <1>3, <2>1
<1>6. ASSUME NEW i \in DOMAIN q, q[i] \notin gone PROVE \E k \in DOMAIN r : g[k] = i
  <2>1. i # 1 /\ i - 1 \in DOMAIN Tail(q) /\ i \in Nat
    BY <1>2, <1>6
  <2>2. Tail(q)[i - 1] = q[i]
    BY <1>2, <2>1
  <2>3. PICK k \in DOMAIN r : f[k] = i - 1
    BY <1>1, <1>6, <2>1, <2>2
  <2> QED BY <2>1, <2>3, <1>3
<1> HIDE DEF g
<1> QED BY <1>3, <1>4, <1>5, <1>6 DEF Leaves

\* The parts of a net have their types.
LEMMA NetParts ==
  ASSUME NEW n \in NetType, NEW c \in Channels
  PROVE  /\ n.taken[c] \in Seq(Messages) /\ n.values[c] \in Seq(Messages)
         /\ Held(n, c) \in Seq(Messages)
         /\ n.senders[c] \in Seq(Callers \X Messages) /\ n.receivers[c] \in Seq(Callers)
         /\ \A i \in DOMAIN n.senders[c] :
              /\ n.senders[c][i][1] \in Callers /\ n.senders[c][i][2] \in Messages
              /\ n.senders[c][i] = <<n.senders[c][i][1], n.senders[c][i][2]>>
<1>1. /\ n.taken[c] \in Seq(Messages) /\ n.values[c] \in Seq(Messages)
      /\ n.senders[c] \in Seq(Callers \X Messages) /\ n.receivers[c] \in Seq(Callers)
  BY DEF NetType
<1>2. \A i \in DOMAIN n.senders[c] : n.senders[c][i] \in Callers \X Messages
  BY <1>1
<1> QED BY <1>1, <1>2 DEF Held

\* A door holds a message once.
LEMMA OnePlace ==
  ASSUME NEW n \in NetType, InOrder(n), OneDoor(n),
         NEW c \in Channels, NEW d \in Channels,
         NEW i \in DOMAIN n.senders[c], NEW j \in DOMAIN n.senders[d],
         n.senders[c][i][2] = n.senders[d][j][2]
  PROVE  c = d /\ i = j
<1>1. c = d
  BY DEF OneDoor
<1>2. i \in Nat /\ j \in Nat
  <2>1. n.senders[c] \in Seq(Callers \X Messages)
    BY NetParts
  <2> QED BY <1>1, <2>1
<1>3. n.senders[c][i][2] \in Nat
  BY NetParts DEF Messages
<1>4. ~(i < j) /\ ~(j < i)
  BY <1>1, <1>3 DEF InOrder, InLine
<1> QED BY <1>1, <1>2, <1>4

\* The parked senders after some calls have completed are parked senders that
\* were there before, and not of those calls.
LEMMA StillParked ==
  ASSUME NEW n \in NetType, NEW r \in NetType, NEW gone, Settled(n, r, gone),
         NEW c \in Channels
  PROVE  /\ \A k \in DOMAIN r.senders[c] :
              /\ r.senders[c][k][1] \notin gone
              /\ \E i \in DOMAIN n.senders[c] : n.senders[c][i] = r.senders[c][k]
         /\ \A i \in DOMAIN n.senders[c] : n.senders[c][i][1] \notin gone =>
              \E k \in DOMAIN r.senders[c] : r.senders[c][k] = n.senders[c][i]
         /\ n.senders[c] = <<>> => r.senders[c] = <<>>
<1>1. Leaves(n.senders[c], r.senders[c], gone \X Messages)
  BY DEF Settled
<1>2. /\ n.senders[c] \in Seq(Callers \X Messages) /\ r.senders[c] \in Seq(Callers \X Messages)
      /\ \A k \in DOMAIN r.senders[c] :
           /\ r.senders[c][k][2] \in Messages
           /\ r.senders[c][k] = <<r.senders[c][k][1], r.senders[c][k][2]>>
      /\ \A i \in DOMAIN n.senders[c] : n.senders[c][i] = <<n.senders[c][i][1], n.senders[c][i][2]>>
  BY NetParts
<1>3. /\ \A k \in DOMAIN r.senders[c] : r.senders[c][k] \notin gone \X Messages /\
           \E i \in DOMAIN n.senders[c] : n.senders[c][i] = r.senders[c][k]
      /\ \A i \in DOMAIN n.senders[c] : n.senders[c][i] \notin gone \X Messages =>
           \E k \in DOMAIN r.senders[c] : r.senders[c][k] = n.senders[c][i]
      /\ n.senders[c] = <<>> => r.senders[c] = <<>>
  <2> DEFINE q == n.senders[c]  s == r.senders[c]  g == gone \X Messages  S == Callers \X Messages
  <2>1. q \in Seq(S) /\ s \in Seq(S) /\ Leaves(q, s, g)
    BY <1>1, <1>2
  <2> HIDE DEF q, s, g, S
  <2>2. /\ \A k \in DOMAIN s : s[k] \notin g /\ \E i \in DOMAIN q : q[i] = s[k]
        /\ \A i \in DOMAIN q : q[i] \notin g => \E k \in DOMAIN s : s[k] = q[i]
        /\ q = <<>> => s = <<>>
    BY <2>1, LeavesFacts
  <2> QED BY <2>2 DEF q, s, g
<1> QED BY <1>2, <1>3

\* Where the message that comes into a channel is from: it is new and nobody
\* waits at the door, or it is that of the first sender.
Comes(n, c, m, gone, k, l) ==
  \/ m = 0
  \/ m = k + 1 /\ l = k + 1 /\ n.senders[c] = <<>>
  \/ /\ n.senders[c] # <<>> /\ n.senders[c][1][2] = m /\ n.senders[c][1][1] \in gone

\* A step that completes some calls and lets a message in keeps the order.
LEMMA SettlingKeepsOrder ==
  ASSUME NEW n \in NetType, NEW r \in NetType, NEW gone, NEW c \in Channels,
         NEW k \in Nat, NEW l \in Nat, NEW m \in Messages \cup {0},
         MessagesSound(n, k), Settled(n, r, gone), Delivers(n, r, c, m),
         Comes(n, c, m, gone, k, l)
  PROVE  InOrder(r) /\ OneDoor(r)
<1>1. ASSUME NEW d \in Channels PROVE InLine(r.senders[d])
  BY LeavesInLine, NetParts DEF Settled, MessagesSound, InOrder
<1>2. ASSUME NEW d \in Channels, d # c \/ m = 0
      PROVE  Rising(Held(r, d)) /\ Before(Held(r, d), r.senders[d])
  <2>1. Held(r, d) = Held(n, d)
    BY <1>2 DEF Delivers
  <2>2. \A j \in DOMAIN r.senders[d] : \E i \in DOMAIN n.senders[d] : n.senders[d][i] = r.senders[d][j]
    BY StillParked
  <2> QED BY <2>1, <2>2 DEF MessagesSound, InOrder, Before
<1>3. ASSUME m # 0 PROVE Rising(Held(r, c)) /\ Before(Held(r, c), r.senders[c])
  <2> DEFINE h == Held(n, c)
  <2>1. Held(r, c) = Append(h, m) /\ h \in Seq(Messages)
    BY <1>3, NetParts DEF Delivers
  <2>2. \A i \in DOMAIN h : h[i] < m
    <3>1. CASE m = k + 1
      <4>1. \A i \in DOMAIN h : h[i] \in Messages /\ n.fate[h[i]] = "sent"
        BY <2>1 DEF MessagesSound, FatesHold, IsHeld
      <4>2. \A x \in Messages : x > k => n.fate[x] = "none"
        BY DEF MessagesSound, FatesHold
      <4>3. \A i \in DOMAIN h : ~(h[i] > k) /\ h[i] \in Nat
        BY <4>1, <4>2 DEF Messages
      <4> QED BY <4>3, <3>1
    <3>2. CASE n.senders[c] # <<>> /\ n.senders[c][1][2] = m
      <4>1. 1 \in DOMAIN n.senders[c]
        BY <3>2, NetParts
      <4> QED BY <3>2, <4>1 DEF MessagesSound, InOrder, Before
    <3> QED BY <3>1, <3>2, <1>3 DEF Comes
  <2>3. \A j \in DOMAIN r.senders[c] : m < r.senders[c][j][2]
    <3>1. CASE n.senders[c] = <<>>
      <4>1. r.senders[c] = <<>>
        BY <3>1, StillParked
      <4> QED BY <4>1
    <3>2. CASE n.senders[c] # <<>> /\ n.senders[c][1][2] = m /\ n.senders[c][1][1] \in gone
      <4> TAKE j \in DOMAIN r.senders[c]
      <4>1. PICK i \in DOMAIN n.senders[c] : n.senders[c][i] = r.senders[c][j]
        BY StillParked
      <4>2. r.senders[c][j][1] \notin gone
        BY StillParked
      <4>3. i # 1
        BY <3>2, <4>1, <4>2
      <4>4. 1 \in DOMAIN n.senders[c] /\ 1 < i
        BY <4>3, NetParts
      <4> QED BY <4>1, <4>4, <3>2 DEF MessagesSound, InOrder, InLine
    <3> QED BY <3>1, <3>2, <1>3 DEF Comes
  <2>4. \A j \in DOMAIN r.senders[c] : \E i \in DOMAIN n.senders[c] : n.senders[c][i] = r.senders[c][j]
    BY StillParked
  <2>5. /\ DOMAIN h = 1 .. Len(h) /\ DOMAIN Append(h, m) = 1 .. Len(h) + 1 /\ Len(h) \in Nat
        /\ \A i \in 1 .. Len(h) : Append(h, m)[i] = h[i]
        /\ Append(h, m)[Len(h) + 1] = m
    <3>1. m \in Messages
      BY <1>3
    <3> HIDE DEF h
    <3> QED BY <2>1, <3>1, AppendFacts
  <2>6. Rising(h) /\ Before(h, n.senders[c])
    BY DEF MessagesSound, InOrder
  <2> HIDE DEF h
  <2>7. Rising(Append(h, m))
    BY <2>2, <2>5, <2>6 DEF Rising
  <2>8. Before(Append(h, m), r.senders[c])
    BY <2>3, <2>4, <2>5, <2>6 DEF Before
  <2> QED BY <2>1, <2>7, <2>8
<1>4. InOrder(r)
  BY <1>1, <1>2, <1>3 DEF InOrder
<1>5. OneDoor(r)
  <2>1. \A d \in Channels, j \in Nat : j \in DOMAIN r.senders[d] =>
          \E i \in DOMAIN n.senders[d] : n.senders[d][i] = r.senders[d][j]
    BY StillParked
  <2>2. \A d \in Channels : \A j \in DOMAIN r.senders[d] : j \in Nat
    BY NetParts
  <2> QED BY <2>1, <2>2 DEF OneDoor, MessagesSound
<1> QED BY <1>4, <1>5

\* The same step keeps the fates true.
LEMMA SettlingKeepsFates ==
  ASSUME NEW n \in NetType, NEW r \in NetType, NEW gone, gone \subseteq Callers,
         NEW c \in Channels,
         NEW k \in Nat, NEW l \in {k, k + 1}, NEW m \in Messages \cup {0},
         MessagesSound(n, k), Settled(n, r, gone), Delivers(n, r, c, m),
         Comes(n, c, m, gone, k, l), FatesAfter(n, r, gone, m, k, l)
  PROVE  FatesHold(r, l)
<1> DEFINE Left(x) == \E p \in gone, d \in Channels : <<p, x>> \in entries(n.senders[d])
<1>1. \A x \in Messages : x \in Nat /\ x # 0
  BY DEF Messages
<1>2. ASSUME NEW x \in Messages PROVE IsHeld(r, x) <=> IsHeld(n, x) \/ x = m
  <2>1. \A d \in Channels : Held(n, d) \in Seq(Messages)
    BY NetParts
  <2>2. ASSUME NEW d \in Channels
        PROVE  (\E i \in DOMAIN Held(r, d) : Held(r, d)[i] = x) <=>
                 (\E i \in DOMAIN Held(n, d) : Held(n, d)[i] = x) \/ (d = c /\ x = m)
    <3>1. CASE d = c /\ m # 0
      <4> DEFINE h == Held(n, d)
      <4>1. Held(r, d) = Append(h, m) /\ h \in Seq(Messages) /\ m \in Messages
        BY <3>1, <2>1 DEF Delivers
      <4> HIDE DEF h
      <4>2. /\ DOMAIN h = 1 .. Len(h) /\ DOMAIN Append(h, m) = 1 .. Len(h) + 1 /\ Len(h) \in Nat
            /\ \A i \in 1 .. Len(h) : Append(h, m)[i] = h[i]
            /\ Append(h, m)[Len(h) + 1] = m
        BY <4>1, AppendFacts
      <4>3. (\E i \in DOMAIN Append(h, m) : Append(h, m)[i] = x) <=> (\E i \in DOMAIN h : h[i] = x) \/ x = m
        BY <4>2
      <4> QED BY <3>1, <4>1, <4>3 DEF h
    <3>2. CASE ~(d = c /\ m # 0)
      <4>1. Held(r, d) = Held(n, d)
        BY <3>2 DEF Delivers
      <4> QED BY <4>1, <3>2, <1>1
    <3> QED BY <3>1, <3>2
  <2> QED BY <2>2 DEF IsHeld
<1>3. ASSUME NEW x \in Messages, Left(x) PROVE IsParked(n, x) /\ ~IsParked(r, x)
  <2>1. PICK p \in gone, d \in Channels : <<p, x>> \in entries(n.senders[d])
    BY <1>3
  <2>2. PICK i \in DOMAIN n.senders[d] : n.senders[d][i] = <<p, x>>
    BY <2>1 DEF entries
  <2>3. ASSUME NEW e \in Channels, NEW j \in DOMAIN r.senders[e], r.senders[e][j][2] = x PROVE FALSE
    <3>1. PICK i2 \in DOMAIN n.senders[e] : n.senders[e][i2] = r.senders[e][j]
      BY StillParked
    <3>2. d = e /\ i = i2
      <4>1. n.senders[d][i][2] = n.senders[e][i2][2]
        BY <2>2, <2>3, <3>1
      <4> QED BY <4>1, OnePlace DEF MessagesSound
    <3>3. r.senders[e][j][1] \notin gone
      BY StillParked
    <3> QED BY <2>2, <3>1, <3>2, <3>3
  <2> QED BY <2>2, <2>3 DEF IsParked
<1>4. ASSUME NEW x \in Messages, ~Left(x) PROVE IsParked(r, x) <=> IsParked(n, x)
  <2>1. ASSUME NEW d \in Channels, NEW j \in DOMAIN r.senders[d], r.senders[d][j][2] = x
        PROVE  IsParked(n, x)
    BY <2>1, StillParked DEF IsParked
  <2>2. ASSUME NEW d \in Channels, NEW i \in DOMAIN n.senders[d], n.senders[d][i][2] = x
        PROVE  IsParked(r, x)
    <3>1. n.senders[d][i] = <<n.senders[d][i][1], x>>
      BY <2>2, NetParts
    <3>2. n.senders[d][i][1] \notin gone
      BY <1>4, <3>1 DEF entries
    <3> QED BY <3>1, <3>2, <2>2, StillParked DEF IsParked
  <2> QED BY <2>1, <2>2 DEF IsParked
<1>5. ASSUME m # 0 PROVE ~IsParked(r, m) /\ m <= l /\ m \in Messages
  <2>1. CASE m = k + 1 /\ l = k + 1
    <3>1. n.fate[m] = "none" /\ m \in Messages
      BY <2>1, <1>5 DEF MessagesSound, FatesHold
    <3>2. ~IsParked(n, m)
      BY <3>1 DEF MessagesSound, FatesHold
    <3> QED BY <2>1, <3>1, <3>2, <1>3, <1>4
  <2>2. CASE n.senders[c] # <<>> /\ n.senders[c][1][2] = m /\ n.senders[c][1][1] \in gone
    <3>1. 1 \in DOMAIN n.senders[c] /\ n.senders[c][1] = <<n.senders[c][1][1], m>> /\ m \in Messages
      BY <2>2, <1>5, NetParts
    <3>2. Left(m)
      BY <2>2, <3>1 DEF entries
    <3>3. n.fate[m] = "parked"
      BY <3>1, <3>2, <1>3 DEF MessagesSound, FatesHold
    <3>4. ~(m > k) /\ m \in Nat
      BY <3>1, <3>3, <1>1 DEF MessagesSound, FatesHold
    <3>5. m <= l
      BY <3>4
    <3> QED BY <3>1, <3>2, <3>5, <1>3
  <2> QED BY <2>1, <2>2, <1>5 DEF Comes
<1>6. ASSUME NEW x \in Messages
      PROVE  /\ n.fate[x] = "sent" <=> IsHeld(n, x)
             /\ n.fate[x] = "parked" <=> IsParked(n, x)
             /\ x > k => n.fate[x] = "none"
  BY DEF MessagesSound, FatesHold
<1> SUFFICES ASSUME NEW x \in Messages
             PROVE  /\ r.fate[x] = "sent" <=> IsHeld(r, x)
                    /\ r.fate[x] = "parked" <=> IsParked(r, x)
                    /\ x > l => r.fate[x] = "none"
  BY DEF FatesHold
<1>7. CASE x = m
  <2>1. r.fate[x] = "sent"
    BY <1>7 DEF FatesAfter
  <2>2. x \in Nat /\ l \in Nat /\ x <= l
    BY <1>1, <1>5, <1>7
  <2> QED BY <1>1, <1>2, <1>5, <1>7, <2>1, <2>2
<1>8. CASE x # m /\ Left(x)
  <2>1. r.fate[x] \in {"withdrawn", "failed"}
    BY <1>8 DEF FatesAfter
  <2>2. n.fate[x] = "parked" /\ ~IsHeld(n, x) /\ ~(x > k)
    BY <1>3, <1>6, <1>8
  <2>3. ~(x > l)
    BY <2>2, <1>1
  <2> QED BY <2>1, <2>2, <2>3, <1>2, <1>3, <1>8
<1>9. CASE x # m /\ ~Left(x) /\ x > k /\ x <= l
  <2>1. r.fate[x] \in {"withdrawn", "failed"}
    BY <1>9 DEF FatesAfter
  <2>2. n.fate[x] = "none" /\ ~IsHeld(n, x) /\ ~IsParked(n, x)
    BY <1>6, <1>9
  <2>3. ~(x > l)
    BY <1>9, <1>1
  <2> QED BY <2>1, <2>2, <2>3, <1>2, <1>4, <1>9
<1>10. CASE x # m /\ ~Left(x) /\ ~(x > k /\ x <= l)
  <2>1. r.fate[x] = n.fate[x]
    BY <1>10 DEF FatesAfter
  <2>2. x > l => x > k
    BY <1>1
  <2> QED BY <2>1, <2>2, <1>2, <1>4, <1>6, <1>10
<1> QED BY <1>7, <1>8, <1>9, <1>10

\* The next message may wait at one door.
LEMMA ParkingKeepsMessages ==
  ASSUME NEW n \in NetType, NEW r \in NetType, NEW c \in Channels, NEW p \in Callers,
         NEW k \in Nat, NEW l \in Nat, NEW m \in Messages \cup {0},
         MessagesSound(n, k), \A d \in Channels : Held(r, d) = Held(n, d),
         \A d \in Channels : r.senders[d] = IF d = c /\ m # 0 THEN Append(n.senders[d], <<p, m>>)
                                            ELSE n.senders[d],
         \A x \in Messages : r.fate[x] = IF x = m THEN "parked" ELSE n.fate[x],
         \/ m = 0 /\ l = k
         \/ m = k + 1 /\ l = k + 1
  PROVE  MessagesSound(r, l)
<1>1. CASE m = 0
  <2>1. \A d \in Channels : r.senders[d] = n.senders[d]
    BY <1>1
  <2>2. \A x \in Messages : r.fate[x] = n.fate[x]
    BY <1>1 DEF Messages
  <2>3. InOrder(r) /\ OneDoor(r)
    BY <2>1 DEF MessagesSound, InOrder, OneDoor
  <2>4. \A x \in Messages : (IsHeld(r, x) <=> IsHeld(n, x)) /\ (IsParked(r, x) <=> IsParked(n, x))
    BY <2>1 DEF IsHeld, IsParked
  <2>5. FatesHold(r, l)
    BY <1>1, <2>2, <2>4 DEF MessagesSound, FatesHold
  <2> QED BY <2>3, <2>5 DEF MessagesSound
<1>2. CASE m # 0
  <2>1. m = k + 1 /\ l = k + 1 /\ m \in Messages /\ m \in Nat
    BY <1>2 DEF Messages
  <2>2. \A x \in Messages : x \in Nat /\ (n.fate[x] # "none" => x < m)
    BY <2>1 DEF MessagesSound, FatesHold, Messages
  <2>3. n.fate[m] = "none"
    BY <2>1 DEF MessagesSound, FatesHold
  <2>4. /\ \A d \in Channels : \A i \in DOMAIN Held(n, d) :
             Held(n, d)[i] \in Messages /\ n.fate[Held(n, d)[i]] = "sent"
        /\ \A d \in Channels : \A i \in DOMAIN n.senders[d] :
             n.senders[d][i][2] \in Messages /\ n.fate[n.senders[d][i][2]] = "parked"
    <3>1. \A d \in Channels : Held(n, d) \in Seq(Messages)
      BY NetParts
    <3>2. \A d \in Channels : \A i \in DOMAIN Held(n, d) : Held(n, d)[i] \in Messages
      BY <3>1
    <3>3. \A d \in Channels : \A i \in DOMAIN n.senders[d] : n.senders[d][i][2] \in Messages
      BY NetParts
    <3> QED BY <3>2, <3>3 DEF MessagesSound, FatesHold, IsHeld, IsParked
  <2>5. /\ \A d \in Channels : \A i \in DOMAIN Held(n, d) : Held(n, d)[i] < m
        /\ \A d \in Channels : \A i \in DOMAIN n.senders[d] : n.senders[d][i][2] < m
    BY <2>2, <2>4
  <2> DEFINE q == n.senders[c]
             new == <<p, m>>
  <2>6. r.senders[c] = Append(q, new) /\ q \in Seq(Callers \X Messages) /\ new \in Callers \X Messages
    BY <1>2, <2>1, NetParts
  <2>7. new[2] = m
    OBVIOUS
  <2> HIDE DEF q, new
  <2>8. /\ DOMAIN q = 1 .. Len(q) /\ DOMAIN Append(q, new) = 1 .. Len(q) + 1 /\ Len(q) \in Nat
        /\ \A i \in 1 .. Len(q) : Append(q, new)[i] = q[i]
        /\ Append(q, new)[Len(q) + 1] = new
    BY <2>6, AppendFacts
  <2>9. \A d \in Channels \ {c} : r.senders[d] = n.senders[d]
    OBVIOUS
  <2>10. \A j \in DOMAIN r.senders[c] :
           \/ j \in DOMAIN q /\ r.senders[c][j] = q[j]
           \/ j = Len(q) + 1 /\ r.senders[c][j] = new
    BY <2>6, <2>8
  <2>11. /\ \A i \in DOMAIN q : i \in DOMAIN r.senders[c] /\ r.senders[c][i] = q[i]
         /\ Len(q) + 1 \in DOMAIN r.senders[c] /\ r.senders[c][Len(q) + 1] = new
    BY <2>6, <2>8
  <2>12. InOrder(r)
    <3>1. ASSUME NEW d \in Channels, d # c
          PROVE  Rising(Held(r, d)) /\ Before(Held(r, d), r.senders[d]) /\ InLine(r.senders[d])
      BY <2>9, <3>1 DEF MessagesSound, InOrder
    <3>2. Rising(Held(r, c))
      BY DEF MessagesSound, InOrder
    <3>3. Before(Held(r, c), r.senders[c])
      <4>1. Before(Held(n, c), q) /\ Held(r, c) = Held(n, c)
        BY DEF MessagesSound, InOrder, q
      <4> QED BY <4>1, <2>5, <2>7, <2>10 DEF Before
    <3>4. InLine(r.senders[c])
      <4>1. InLine(q) /\ \A i \in DOMAIN q : q[i][2] < m /\ i < Len(q) + 1
        BY <2>5, <2>8 DEF MessagesSound, InOrder, q
      <4>2. \A i, j \in DOMAIN r.senders[c] : i < j => i \in DOMAIN q
        BY <2>6, <2>8
      <4> QED BY <4>1, <4>2, <2>7, <2>10 DEF InLine
    <3> QED BY <3>1, <3>2, <3>3, <3>4 DEF InOrder
  <2>13. OneDoor(r)
    <3> SUFFICES ASSUME NEW a \in Channels, NEW b \in Channels, NEW i \in DOMAIN r.senders[a],
                        NEW j \in DOMAIN r.senders[b], r.senders[a][i][2] = r.senders[b][j][2], a # b
                 PROVE  FALSE
      BY DEF OneDoor
    <3>1. \A d \in Channels : \A x \in DOMAIN r.senders[d] :
            \/ x \in DOMAIN n.senders[d] /\ r.senders[d][x] = n.senders[d][x]
            \/ d = c /\ r.senders[d][x][2] = m
      BY <2>7, <2>9, <2>10 DEF q
    <3>2. \A d \in Channels : \A x \in DOMAIN n.senders[d] : n.senders[d][x][2] # m
      BY <2>3, <2>4
    <3> QED BY <3>1, <3>2 DEF MessagesSound, OneDoor
  <2>14. \A x \in Messages : IsHeld(r, x) <=> IsHeld(n, x)
    BY DEF IsHeld
  <2>15. ASSUME NEW x \in Messages PROVE IsParked(r, x) <=> IsParked(n, x) \/ x = m
    <3>1. IsParked(n, x) => IsParked(r, x)
      BY <2>9, <2>11 DEF IsParked, q
    <3>2. IsParked(r, m)
      BY <2>7, <2>11 DEF IsParked
    <3>3. IsParked(r, x) => IsParked(n, x) \/ x = m
      BY <2>7, <2>9, <2>10 DEF IsParked, q
    <3> QED BY <3>1, <3>2, <3>3
  <2>16. FatesHold(r, l)
    <3> SUFFICES ASSUME NEW x \in Messages
                 PROVE  /\ r.fate[x] = "sent" <=> IsHeld(r, x)
                        /\ r.fate[x] = "parked" <=> IsParked(r, x)
                        /\ x > l => r.fate[x] = "none"
      BY DEF FatesHold
    <3>1. /\ n.fate[x] = "sent" <=> IsHeld(n, x)
          /\ n.fate[x] = "parked" <=> IsParked(n, x)
          /\ x > k => n.fate[x] = "none"
      BY DEF MessagesSound, FatesHold
    <3>2. r.fate[x] = IF x = m THEN "parked" ELSE n.fate[x]
      OBVIOUS
    <3>3. x > l => x > k /\ x # m
      BY <2>1, <2>2
    <3>4. x = m => ~IsHeld(n, x)
      BY <2>3, <3>1
    <3> QED BY <3>1, <3>2, <3>3, <3>4, <2>14, <2>15
  <2> QED BY <2>12, <2>13, <2>16 DEF MessagesSound
<1> QED BY <1>1, <1>2

----
(* The callers.                                                            *)

\* Nobody is parked beside what he waits for, nobody but those who wait.
CallersSound(n) ==
  \A c \in Channels :
    /\ Len(n.values[c]) <= Capacity[c]
    /\ n.receivers[c] # <<>> => ~n.closed[c] /\ n.values[c] = <<>> /\ n.senders[c] = <<>>
    /\ n.senders[c] # <<>> => n.closed[c] \/ Len(n.values[c]) = Capacity[c]
    /\ n.closed[c] => \A i \in DOMAIN n.senders[c] : n.waiting[n.senders[c][i][1]] # "plain"
    /\ \A i \in DOMAIN n.receivers[c] : n.waiting[n.receivers[c][i]] # "no"
    /\ \A i \in DOMAIN n.senders[c] : n.waiting[n.senders[c][i][1]] # "no"

\* The same for the parked receivers.
LEMMA StillParkedReceivers ==
  ASSUME NEW n \in NetType, NEW r \in NetType, NEW gone, Settled(n, r, gone),
         NEW c \in Channels
  PROVE  /\ \A k \in DOMAIN r.receivers[c] :
              /\ r.receivers[c][k] \notin gone /\ r.receivers[c][k] \in Callers
              /\ \E i \in DOMAIN n.receivers[c] : n.receivers[c][i] = r.receivers[c][k]
         /\ n.receivers[c] = <<>> => r.receivers[c] = <<>>
<1> DEFINE q == n.receivers[c]  s == r.receivers[c]
<1>1. q \in Seq(Callers) /\ s \in Seq(Callers) /\ Leaves(q, s, gone)
  BY NetParts DEF Settled
<1> HIDE DEF q, s
<1>2. /\ \A k \in DOMAIN s : s[k] \notin gone /\ \E i \in DOMAIN q : q[i] = s[k]
      /\ q = <<>> => s = <<>>
  BY <1>1, LeavesFacts
<1>3. \A k \in DOMAIN s : s[k] \in Callers
  BY <1>1
<1> QED BY <1>2, <1>3 DEF q, s

\* The step may change one channel, if nobody is left parked beside the change.
LEMMA SettlingKeepsCallers ==
  ASSUME NEW n \in NetType, NEW r \in NetType, NEW c \in Channels, NEW gone,
         CallersSound(n), Settled(n, r, gone),
         \A d \in Channels : d # c => r.values[d] = n.values[d] /\ r.closed[d] = n.closed[d],
         Len(r.values[c]) <= Capacity[c],
         \/ r.values[c] = n.values[c] /\ r.closed[c] = n.closed[c]
         \/ /\ r.receivers[c] = <<>>
            /\ \/ r.senders[c] = <<>>
               \/ r.closed[c] = n.closed[c] /\ (n.closed[c] \/ Len(r.values[c]) = Capacity[c])
  PROVE  CallersSound(r)
<1> SUFFICES ASSUME NEW d \in Channels
             PROVE  /\ Len(r.values[d]) <= Capacity[d]
                    /\ r.receivers[d] # <<>> => ~r.closed[d] /\ r.values[d] = <<>> /\ r.senders[d] = <<>>
                    /\ r.senders[d] # <<>> => r.closed[d] \/ Len(r.values[d]) = Capacity[d]
                    /\ r.closed[d] => \A i \in DOMAIN r.senders[d] : r.waiting[r.senders[d][i][1]] # "plain"
                    /\ \A i \in DOMAIN r.receivers[d] : r.waiting[r.receivers[d][i]] # "no"
                    /\ \A i \in DOMAIN r.senders[d] : r.waiting[r.senders[d][i][1]] # "no"
  BY DEF CallersSound
<1>1. /\ Len(n.values[d]) <= Capacity[d]
      /\ n.receivers[d] # <<>> => ~n.closed[d] /\ n.values[d] = <<>> /\ n.senders[d] = <<>>
      /\ n.senders[d] # <<>> => n.closed[d] \/ Len(n.values[d]) = Capacity[d]
      /\ n.closed[d] => \A i \in DOMAIN n.senders[d] : n.waiting[n.senders[d][i][1]] # "plain"
      /\ \A i \in DOMAIN n.receivers[d] : n.waiting[n.receivers[d][i]] # "no"
      /\ \A i \in DOMAIN n.senders[d] : n.waiting[n.senders[d][i][1]] # "no"
  BY DEF CallersSound
<1>2. \A p \in Callers : p \notin gone => r.waiting[p] = n.waiting[p]
  BY DEF Settled
<1>3. /\ \A k \in DOMAIN r.receivers[d] :
           /\ r.waiting[r.receivers[d][k]] = n.waiting[r.receivers[d][k]]
           /\ \E i \in DOMAIN n.receivers[d] : n.receivers[d][i] = r.receivers[d][k]
      /\ n.receivers[d] = <<>> => r.receivers[d] = <<>>
  BY <1>2, StillParkedReceivers
<1>4. /\ \A k \in DOMAIN r.senders[d] :
           /\ r.waiting[r.senders[d][k][1]] = n.waiting[r.senders[d][k][1]]
           /\ \E i \in DOMAIN n.senders[d] : n.senders[d][i] = r.senders[d][k]
      /\ n.senders[d] = <<>> => r.senders[d] = <<>>
  BY <1>2, StillParked, NetParts
<1>5. /\ \A i \in DOMAIN r.receivers[d] : r.waiting[r.receivers[d][i]] # "no"
      /\ \A i \in DOMAIN r.senders[d] : r.waiting[r.senders[d][i][1]] # "no"
  BY <1>1, <1>3, <1>4
<1>6. CASE r.values[d] = n.values[d] /\ r.closed[d] = n.closed[d]
  BY <1>1, <1>3, <1>4, <1>5, <1>6
<1>7. CASE r.receivers[d] = <<>> /\ r.senders[d] = <<>> /\ d = c
  BY <1>5, <1>7
<1>8. CASE /\ r.receivers[d] = <<>> /\ d = c
           /\ r.closed[c] = n.closed[c] /\ (n.closed[c] \/ Len(r.values[c]) = Capacity[c])
  BY <1>1, <1>4, <1>5, <1>8
<1> QED BY <1>6, <1>7, <1>8

\* Caller p joins the queues of d, or does not, where he has nothing to wait for.
Joins(n, r, p, m, w, d) ==
  \/ r.receivers[d] = n.receivers[d] /\ r.senders[d] = n.senders[d]
  \/ /\ r.receivers[d] = Append(n.receivers[d], p) /\ r.senders[d] = n.senders[d]
     /\ ~canReceive(n, d)
  \/ /\ r.senders[d] = Append(n.senders[d], <<p, m>>) /\ r.receivers[d] = n.receivers[d]
     /\ m # 0 /\ ~canSend(n, d) /\ (w = "plain" => ~n.closed[d])

Waits(n, r, p, w) ==
  /\ n.waiting[p] = "no" /\ r.waiting = [n.waiting EXCEPT ![p] = w]
  /\ r.values = n.values /\ r.closed = n.closed

LEMMA ParkingKeepsCallers ==
  ASSUME NEW n \in NetType, NEW r \in NetType, NEW p \in Callers, NEW m \in Messages \cup {0},
         NEW w \in {"plain", "select"}, ChannelAssumption,
         CallersSound(n), Waits(n, r, p, w), \A d \in Channels : Joins(n, r, p, m, w, d)
  PROVE  CallersSound(r)
<1>0. /\ n.waiting[p] = "no" /\ r.waiting = [n.waiting EXCEPT ![p] = w]
      /\ r.values = n.values /\ r.closed = n.closed
  BY DEF Waits
<1> SUFFICES ASSUME NEW d \in Channels
             PROVE  /\ Len(r.values[d]) <= Capacity[d]
                    /\ r.receivers[d] # <<>> => ~r.closed[d] /\ r.values[d] = <<>> /\ r.senders[d] = <<>>
                    /\ r.senders[d] # <<>> => r.closed[d] \/ Len(r.values[d]) = Capacity[d]
                    /\ r.closed[d] => \A i \in DOMAIN r.senders[d] : r.waiting[r.senders[d][i][1]] # "plain"
                    /\ \A i \in DOMAIN r.receivers[d] : r.waiting[r.receivers[d][i]] # "no"
                    /\ \A i \in DOMAIN r.senders[d] : r.waiting[r.senders[d][i][1]] # "no"
  BY DEF CallersSound
<1>1. /\ Len(n.values[d]) <= Capacity[d]
      /\ n.receivers[d] # <<>> => ~n.closed[d] /\ n.values[d] = <<>> /\ n.senders[d] = <<>>
      /\ n.senders[d] # <<>> => n.closed[d] \/ Len(n.values[d]) = Capacity[d]
      /\ n.closed[d] => \A i \in DOMAIN n.senders[d] : n.waiting[n.senders[d][i][1]] # "plain"
      /\ \A i \in DOMAIN n.receivers[d] : n.waiting[n.receivers[d][i]] # "no"
      /\ \A i \in DOMAIN n.senders[d] : n.waiting[n.senders[d][i][1]] # "no"
  BY DEF CallersSound
<1>2. r.waiting[p] = w /\ \A q \in Callers : q # p => r.waiting[q] = n.waiting[q]
  <2>1. n.waiting \in [Callers -> {"no", "plain", "select"}]
    BY DEF NetType
  <2> QED BY <1>0, <2>1
<1>3. /\ \A i \in DOMAIN n.receivers[d] : n.receivers[d][i] \in Callers /\ n.receivers[d][i] # p
      /\ \A i \in DOMAIN n.senders[d] : n.senders[d][i][1] \in Callers /\ n.senders[d][i][1] # p
  <2>1. n.receivers[d] \in Seq(Callers)
    BY NetParts
  <2> QED BY <1>0, <1>1, <2>1, NetParts
<1>4. /\ \A i \in DOMAIN n.receivers[d] : r.waiting[n.receivers[d][i]] = n.waiting[n.receivers[d][i]]
      /\ \A i \in DOMAIN n.senders[d] : r.waiting[n.senders[d][i][1]] = n.waiting[n.senders[d][i][1]]
  BY <1>2, <1>3
<1>5. CASE r.receivers[d] = n.receivers[d] /\ r.senders[d] = n.senders[d]
  BY <1>0, <1>1, <1>4, <1>5
<1>6. CASE /\ r.receivers[d] = Append(n.receivers[d], p) /\ r.senders[d] = n.senders[d]
           /\ ~canReceive(n, d)
  <2>1. n.receivers[d] \in Seq(Callers)
    BY NetParts
  <2>2. \A i \in DOMAIN r.receivers[d] :
          r.receivers[d][i] = p \/ \E j \in DOMAIN n.receivers[d] : n.receivers[d][j] = r.receivers[d][i]
    BY <2>1, <1>6
  <2>3. \A i \in DOMAIN r.receivers[d] : r.waiting[r.receivers[d][i]] # "no"
    BY <2>2, <1>1, <1>2, <1>4
  <2>4. ~n.closed[d] /\ n.values[d] = <<>> /\ n.senders[d] = <<>>
    BY <1>6 DEF canReceive
  <2> QED BY <1>0, <2>3, <2>4, <1>1, <1>4, <1>6
<1>7. CASE /\ r.senders[d] = Append(n.senders[d], <<p, m>>) /\ r.receivers[d] = n.receivers[d]
           /\ m # 0 /\ ~canSend(n, d) /\ (w = "plain" => ~n.closed[d])
  <2>1. n.senders[d] \in Seq(Callers \X Messages) /\ <<p, m>> \in Callers \X Messages
    BY <1>7, NetParts
  <2>2. \A i \in DOMAIN r.senders[d] :
          \/ r.senders[d][i] = <<p, m>>
          \/ \E j \in DOMAIN n.senders[d] : n.senders[d][j] = r.senders[d][i]
    BY <2>1, <1>7
  <2>3. \A i \in DOMAIN r.senders[d] :
          \/ r.senders[d][i][1] = p
          \/ \E j \in DOMAIN n.senders[d] : n.senders[d][j] = r.senders[d][i]
    BY <2>2
  <2>4. \A i \in DOMAIN r.senders[d] : r.waiting[r.senders[d][i][1]] # "no"
    BY <2>3, <1>1, <1>2, <1>4
  <2>5. n.closed[d] => \A i \in DOMAIN r.senders[d] : r.waiting[r.senders[d][i][1]] # "plain"
    BY <2>3, <1>1, <1>2, <1>4, <1>7
  <2>6. Len(n.values[d]) \in Nat /\ Capacity[d] \in Nat
    <3>1. n.values[d] \in Seq(Messages)
      BY NetParts
    <3> QED BY <3>1 DEF ChannelAssumption
  <2>7. n.receivers[d] = <<>> /\ (n.closed[d] \/ Len(n.values[d]) = Capacity[d])
    BY <1>1, <1>7, <2>6 DEF canSend
  <2> QED BY <1>0, <2>4, <2>5, <2>7, <1>1, <1>4, <1>7
<1>8. Joins(n, r, p, m, w, d)
  OBVIOUS
<1> QED BY <1>5, <1>6, <1>7, <1>8 DEF Joins

----
(* The effects.                                                            *)

NetSound(n, k) == n \in NetType /\ MessagesSound(n, k) /\ CallersSound(n)

\* A channel whose end was told stays closed and empty.
EndsStay(n, r) ==
  \A d \in Channels : n.closed[d] /\ n.values[d] = <<>> => r.closed[d] /\ r.values[d] = <<>>

Withdrawn(n, gone, x) == \E p \in gone, c \in Channels : <<p, x>> \in entries(n.senders[c])

\* The cancel functions of a select.
LEMMA SettleFacts ==
  ASSUME NEW n \in NetType, NEW gone
  PROVE  /\ settle(n, gone) \in NetType
         /\ Settled(n, settle(n, gone), gone)
         /\ settle(n, gone).values = n.values /\ settle(n, gone).taken = n.taken
         /\ settle(n, gone).closed = n.closed
         /\ \A x \in Messages :
              settle(n, gone).fate[x] = IF Withdrawn(n, gone, x) THEN "withdrawn" ELSE n.fate[x]
<1> DEFINE w  == [p \in Callers |-> IF p \in gone THEN "no" ELSE n.waiting[p]]
           rs == [c \in Channels |-> without(n.receivers[c], gone)]
           ss == [c \in Channels |-> without(n.senders[c], gone \X Messages)]
           f  == [m \in Messages |-> IF Withdrawn(n, gone, m) THEN "withdrawn" ELSE n.fate[m]]
           r  == [n EXCEPT !.waiting = w, !.receivers = rs, !.senders = ss, !.fate = f]
<1>1. settle(n, gone) = r
  BY DEF settle, Withdrawn
<1>2. \A c \in Channels : rs[c] \in Seq(Callers) /\ Leaves(n.receivers[c], rs[c], gone)
  BY NetParts, WithoutLeaves
<1>3. \A c \in Channels : /\ ss[c] \in Seq(Callers \X Messages)
                          /\ Leaves(n.senders[c], ss[c], gone \X Messages)
  BY NetParts, WithoutLeaves
<1>4. w \in [Callers -> {"no", "plain", "select"}]
  BY DEF NetType
<1>5. f \in [Messages -> {"none", "parked", "sent", "failed", "withdrawn"}]
  BY DEF NetType
<1>6. rs \in [Channels -> Seq(Callers)] /\ ss \in [Channels -> Seq(Callers \X Messages)]
  BY <1>2, <1>3
<1>7. \A x \in Messages : f[x] = IF Withdrawn(n, gone, x) THEN "withdrawn" ELSE n.fate[x]
  OBVIOUS
<1>8. w = [p \in Callers |-> IF p \in gone THEN "no" ELSE n.waiting[p]]
  OBVIOUS
<1> HIDE DEF w, rs, ss, f
<1>9. r \in NetType
  BY <1>4, <1>5, <1>6 DEF NetType
<1>10. /\ r.waiting = w /\ r.receivers = rs /\ r.senders = ss /\ r.fate = f
       /\ r.values = n.values /\ r.taken = n.taken /\ r.closed = n.closed
  BY DEF NetType
<1> HIDE DEF r
<1>11. Settled(n, r, gone)
  BY <1>2, <1>3, <1>8, <1>10 DEF Settled
<1> QED BY <1>1, <1>7, <1>9, <1>10, <1>11

\* Nobody's call completes.
LEMMA NobodySettles ==
  ASSUME NEW n \in NetType, NEW r \in NetType,
         r.waiting = n.waiting, r.receivers = n.receivers, r.senders = n.senders
  PROVE  Settled(n, r, {})
<1>1. n.waiting = [p \in Callers |-> IF p \in {} THEN "no" ELSE n.waiting[p]]
  BY DEF NetType
<1>2. ASSUME NEW c \in Channels
      PROVE  /\ Leaves(n.receivers[c], n.receivers[c], {})
             /\ Leaves(n.senders[c], n.senders[c], {} \X Messages)
  <2>1. n.receivers[c] \in Seq(Callers) /\ n.senders[c] \in Seq(Callers \X Messages)
    BY NetParts
  <2>2. Leaves(n.receivers[c], n.receivers[c], {})
    BY <2>1, LeavesItself
  <2>3. \A i \in DOMAIN n.senders[c] : n.senders[c][i] \notin {} \X Messages
    OBVIOUS
  <2>4. Leaves(n.senders[c], n.senders[c], {} \X Messages)
    BY <2>1, <2>3, LeavesItself
  <2> QED BY <2>2, <2>4
<1> QED BY <1>1, <1>2 DEF Settled

\* A message that is offered and refused, or not needed.
LEMMA GivingUpKeepsSound ==
  ASSUME NEW n, NEW k \in Nat, NEW f \in {"failed", "withdrawn"}, NetSound(n, k), k + 1 \in Messages
  PROVE  LET r == [n EXCEPT !.fate[k + 1] = f] IN NetSound(r, k + 1) /\ EndsStay(n, r)
<1> DEFINE r == [n EXCEPT !.fate[k + 1] = f]
<1>1. n \in NetType /\ MessagesSound(n, k) /\ CallersSound(n)
  BY DEF NetSound
<1>2. /\ r \in NetType /\ r.waiting = n.waiting /\ r.receivers = n.receivers
      /\ r.senders = n.senders /\ r.values = n.values /\ r.taken = n.taken /\ r.closed = n.closed
      /\ \A x \in Messages : r.fate[x] = IF x = k + 1 THEN f ELSE n.fate[x]
  BY <1>1 DEF NetType
<1> HIDE DEF r
<1>3. Settled(n, r, {})
  BY <1>1, <1>2, NobodySettles
<1>4. ASSUME NEW c \in Channels PROVE NetSound(r, k + 1)
  <2>1. Delivers(n, r, c, 0)
    BY <1>2 DEF Delivers, Held
  <2>2. Comes(n, c, 0, {}, k, k + 1)
    BY DEF Comes
  <2>3. FatesAfter(n, r, {}, 0, k, k + 1)
    <3> SUFFICES ASSUME NEW x \in Messages
                 PROVE  /\ x # 0
                        /\ IF x > k /\ x <= k + 1 THEN r.fate[x] \in {"withdrawn", "failed"}
                           ELSE r.fate[x] = n.fate[x]
      BY DEF FatesAfter
    <3>1. x \in Nat /\ x # 0
      BY DEF Messages
    <3>2. x > k /\ x <= k + 1 <=> x = k + 1
      BY <3>1
    <3> QED BY <3>1, <3>2, <1>2
  <2>4. InOrder(r) /\ OneDoor(r)
    BY <1>1, <1>2, <1>3, <2>1, <2>2, SettlingKeepsOrder
  <2>5. FatesHold(r, k + 1)
    BY <1>1, <1>2, <1>3, <2>1, <2>2, <2>3, SettlingKeepsFates
  <2>6. CallersSound(r)
    BY <1>1, <1>2 DEF CallersSound
  <2> QED BY <1>2, <2>4, <2>5, <2>6 DEF NetSound, MessagesSound
<1>5. ASSUME Channels = {} PROVE NetSound(r, k + 1)
  <2>1. InOrder(r) /\ OneDoor(r) /\ CallersSound(r)
    BY <1>5 DEF InOrder, OneDoor, CallersSound
  <2>2. \A x \in Messages : ~IsHeld(r, x) /\ ~IsParked(r, x) /\ ~IsHeld(n, x) /\ ~IsParked(n, x)
    BY <1>5 DEF IsHeld, IsParked
  <2>3. FatesHold(r, k + 1)
    <3> SUFFICES ASSUME NEW x \in Messages
                 PROVE  /\ r.fate[x] # "sent" /\ r.fate[x] # "parked"
                        /\ x > k + 1 => r.fate[x] = "none"
      BY <2>2 DEF FatesHold
    <3>1. n.fate[x] # "sent" /\ n.fate[x] # "parked" /\ (x > k => n.fate[x] = "none")
      BY <1>1, <2>2 DEF MessagesSound, FatesHold
    <3>2. x > k + 1 => x > k /\ x # k + 1
      BY DEF Messages
    <3> QED BY <3>1, <3>2, <1>2
  <2> QED BY <1>2, <2>1, <2>3 DEF NetSound, MessagesSound
<1>6. EndsStay(n, r)
  BY <1>2 DEF EndsStay
<1> QED BY <1>4, <1>5, <1>6 DEF r

\* trySend() on a channel with a parked receiver.
LEMMA HandOverKeepsSound ==
  ASSUME NEW n, NEW k \in Nat, NEW c \in Channels, NetSound(n, k), k + 1 \in Messages,
         n.receivers[c] # <<>>
  PROVE  LET r == handOver(n, c, k + 1) IN NetSound(r, k + 1) /\ EndsStay(n, r)
<1> DEFINE m    == k + 1
           gone == {Head(n.receivers[c])}
           n0   == [n EXCEPT !.receivers[c] = Tail(@), !.taken[c] = Append(@, m), !.fate[m] = "sent"]
           r    == settle(n0, gone)
<1>1. n \in NetType /\ MessagesSound(n, k) /\ CallersSound(n)
  BY DEF NetSound
<1>2. handOver(n, c, k + 1) = r
  BY DEF handOver
<1>3. ~n.closed[c] /\ n.values[c] = <<>> /\ n.senders[c] = <<>>
  BY <1>1 DEF CallersSound
<1>4. /\ n.receivers[c] \in Seq(Callers) /\ n.taken[c] \in Seq(Messages)
      /\ Head(n.receivers[c]) \in Callers /\ Tail(n.receivers[c]) \in Seq(Callers)
      /\ Append(n.taken[c], m) \in Seq(Messages)
  <2>1. n.receivers[c] \in Seq(Callers) /\ n.taken[c] \in Seq(Messages)
    BY <1>1, NetParts
  <2> QED BY <2>1
<1>5. /\ n0 \in NetType /\ n0.waiting = n.waiting /\ n0.senders = n.senders
      /\ n0.values = n.values /\ n0.closed = n.closed
      /\ n0.receivers[c] = Tail(n.receivers[c]) /\ n0.taken[c] = Append(n.taken[c], m)
      /\ \A d \in Channels : d # c => n0.receivers[d] = n.receivers[d] /\ n0.taken[d] = n.taken[d]
      /\ \A x \in Messages : n0.fate[x] = IF x = m THEN "sent" ELSE n.fate[x]
  BY <1>1, <1>4 DEF NetType
<1> HIDE DEF n0
<1>6. /\ r \in NetType /\ Settled(n0, r, gone)
      /\ r.values = n0.values /\ r.taken = n0.taken /\ r.closed = n0.closed
      /\ \A x \in Messages : r.fate[x] = IF Withdrawn(n0, gone, x) THEN "withdrawn" ELSE n0.fate[x]
  BY <1>5, SettleFacts
<1> HIDE DEF r
<1>7. Settled(n, r, gone)
  <2>1. Leaves(n.receivers[c], r.receivers[c], gone)
    <3>1. Leaves(Tail(n.receivers[c]), r.receivers[c], gone) /\ r.receivers[c] \in Seq(Callers)
      BY <1>5, <1>6, NetParts DEF Settled
    <3>2. Head(n.receivers[c]) \in gone
      OBVIOUS
    <3> HIDE DEF gone
    <3> QED BY <3>1, <3>2, <1>4, TailLeaves
  <2> QED BY <2>1, <1>5, <1>6 DEF Settled
<1>8. Delivers(n, r, c, m)
  <2>1. Held(r, c) = Append(Held(n, c), m)
    <3>1. Held(r, c) = Append(n.taken[c], m) \o <<>> /\ Held(n, c) = n.taken[c] \o <<>>
      BY <1>3, <1>5, <1>6 DEF Held
    <3> QED BY <3>1, <1>4
  <2>2. m # 0
    OBVIOUS
  <2> QED BY <2>1, <2>2, <1>5, <1>6 DEF Delivers, Held
<1>9. Comes(n, c, m, gone, k, k + 1)
  BY <1>3 DEF Comes
<1>10. ~IsParked(n, m)
  BY <1>1 DEF MessagesSound, FatesHold
<1>11. \A x \in Messages : Withdrawn(n0, gone, x) <=> Withdrawn(n, gone, x)
  BY <1>5 DEF Withdrawn
<1>12. ~Withdrawn(n, gone, m)
  BY <1>10 DEF Withdrawn, IsParked, entries
<1>13. FatesAfter(n, r, gone, m, k, k + 1)
  <2> SUFFICES ASSUME NEW x \in Messages
               PROVE  IF x = m THEN r.fate[x] = "sent"
                      ELSE IF Withdrawn(n, gone, x) THEN r.fate[x] \in {"withdrawn", "failed"}
                      ELSE IF x > k /\ x <= k + 1 THEN r.fate[x] \in {"withdrawn", "failed"}
                      ELSE r.fate[x] = n.fate[x]
    BY DEF FatesAfter, Withdrawn
  <2>1. x > k /\ x <= k + 1 => x = m
    BY DEF Messages
  <2> QED BY <2>1, <1>5, <1>6, <1>11, <1>12
<1>14. m \in Messages \cup {0} /\ k + 1 \in {k, k + 1} /\ k + 1 \in Nat /\ gone \subseteq Callers
  BY <1>4
<1>15. r.values = n.values /\ r.closed = n.closed
  BY <1>5, <1>6
<1> HIDE DEF gone, m
<1>16. InOrder(r) /\ OneDoor(r)
  BY <1>1, <1>6, <1>7, <1>8, <1>9, <1>14, SettlingKeepsOrder
<1>17. FatesHold(r, k + 1)
  BY <1>1, <1>6, <1>7, <1>8, <1>9, <1>13, <1>14, SettlingKeepsFates
<1>18. CallersSound(r)
  <2>1. Len(r.values[c]) <= Capacity[c]
    BY <1>1, <1>15 DEF CallersSound
  <2> QED BY <1>1, <1>6, <1>7, <1>15, <2>1, SettlingKeepsCallers
<1>19. EndsStay(n, r)
  BY <1>15 DEF EndsStay
<1> QED BY <1>2, <1>6, <1>16, <1>17, <1>18, <1>19 DEF NetSound, MessagesSound

\* An element put at the end of the second part is at the end of the whole.
LEMMA AppendBehind ==
  ASSUME NEW S, NEW s \in Seq(S), NEW t \in Seq(S), NEW x \in S
  PROVE  s \o Append(t, x) = Append(s \o t, x)
<1>1. /\ s \o Append(t, x) \in Seq(S) /\ Append(s \o t, x) \in Seq(S)
      /\ Len(s \o Append(t, x)) = Len(s) + Len(t) + 1
      /\ Len(Append(s \o t, x)) = Len(s) + Len(t) + 1
  OBVIOUS
<1>2. \A i \in 1 .. Len(s) + Len(t) + 1 : (s \o Append(t, x))[i] = Append(s \o t, x)[i]
  OBVIOUS
<1> QED BY <1>1, <1>2

\* trySend() on a channel with room.
LEMMA PushKeepsSound ==
  ASSUME ChannelAssumption, NEW n, NEW k \in Nat, NEW c \in Channels, NetSound(n, k), k + 1 \in Messages,
         n.receivers[c] = <<>>, ~n.closed[c], Len(n.values[c]) < Capacity[c]
  PROVE  LET r == push(n, c, k + 1) IN NetSound(r, k + 1) /\ EndsStay(n, r)
<1> DEFINE m == k + 1
           r == push(n, c, m)
<1>1. n \in NetType /\ MessagesSound(n, k) /\ CallersSound(n)
  BY DEF NetSound
<1>2. n.values[c] \in Seq(Messages) /\ n.taken[c] \in Seq(Messages)
  BY <1>1, NetParts
<1>3. Len(n.values[c]) \in Nat /\ Capacity[c] \in Nat
  BY <1>2 DEF ChannelAssumption
<1>4. n.senders[c] = <<>>
  BY <1>1, <1>3 DEF CallersSound
<1>5. /\ r \in NetType /\ r.waiting = n.waiting /\ r.senders = n.senders /\ r.receivers = n.receivers
      /\ r.taken = n.taken /\ r.closed = n.closed /\ r.values[c] = Append(n.values[c], m)
      /\ \A d \in Channels : d # c => r.values[d] = n.values[d]
      /\ \A x \in Messages : r.fate[x] = IF x = m THEN "sent" ELSE n.fate[x]
  <2>1. Append(n.values[c], m) \in Seq(Messages)
    BY <1>2
  <2> QED BY <1>1, <2>1 DEF NetType, push
<1> HIDE DEF r
<1>6. Settled(n, r, {})
  BY <1>1, <1>5, NobodySettles
<1>7. Delivers(n, r, c, m)
  <2>1. Held(r, c) = Append(Held(n, c), m)
    <3> DEFINE s == n.taken[c]
               t == n.values[c]
    <3>1. Held(r, c) = s \o Append(t, m) /\ Held(n, c) = s \o t
      BY <1>5 DEF Held
    <3>2. m \in Messages /\ s \in Seq(Messages) /\ t \in Seq(Messages)
      BY <1>2
    <3> HIDE DEF m, s, t
    <3>3. s \o Append(t, m) = Append(s \o t, m)
      BY <3>2, AppendBehind
    <3> QED BY <3>1, <3>3
  <2>2. m # 0
    OBVIOUS
  <2> QED BY <2>1, <2>2, <1>5 DEF Delivers, Held
<1>8. Comes(n, c, m, {}, k, k + 1)
  BY <1>4 DEF Comes
<1>9. FatesAfter(n, r, {}, m, k, k + 1)
  <2> SUFFICES ASSUME NEW x \in Messages
               PROVE  IF x = m THEN r.fate[x] = "sent"
                      ELSE IF x > k /\ x <= k + 1 THEN r.fate[x] \in {"withdrawn", "failed"}
                      ELSE r.fate[x] = n.fate[x]
    BY DEF FatesAfter
  <2>1. x > k /\ x <= k + 1 => x = m
    BY DEF Messages
  <2> QED BY <2>1, <1>5
<1>10. m \in Messages \cup {0} /\ k + 1 \in {k, k + 1} /\ k + 1 \in Nat
  OBVIOUS
<1> HIDE DEF m
<1>11. InOrder(r) /\ OneDoor(r)
  BY <1>1, <1>5, <1>6, <1>7, <1>8, <1>10, SettlingKeepsOrder
<1>12. FatesHold(r, k + 1)
  BY <1>1, <1>5, <1>6, <1>7, <1>8, <1>9, <1>10, SettlingKeepsFates
<1>13. CallersSound(r)
  <2>1. Len(r.values[c]) <= Capacity[c]
    <3>1. m \in Messages
      BY DEF m
    <3>2. Len(r.values[c]) = Len(n.values[c]) + 1
      BY <3>1, <1>2, <1>5
    <3> QED BY <3>2, <1>3
  <2>2. r.receivers[c] = <<>> /\ r.senders[c] = <<>>
    BY <1>4, <1>5
  <2> QED BY <1>1, <1>5, <1>6, <2>1, <2>2, SettlingKeepsCallers
<1>14. EndsStay(n, r)
  BY <1>5 DEF EndsStay
<1> QED BY <1>5, <1>11, <1>12, <1>13, <1>14 DEF NetSound, MessagesSound, r, m

\* The first parked sender of c is let in: its message goes into the channel,
\* or through it.
Draws(n, r, c) ==
  LET p == n.senders[c][1][1]
      m == n.senders[c][1][2]
  IN  /\ Settled(n, r, {p})
      /\ Delivers(n, r, c, m)
      /\ r.closed = n.closed
      /\ \A d \in Channels : d # c => r.values[d] = n.values[d]
      /\ Len(r.values[c]) = Len(n.values[c])
      /\ \A x \in Messages :
           r.fate[x] = IF x = m THEN "sent"
                       ELSE IF Withdrawn(n, {p}, x) THEN "withdrawn" ELSE n.fate[x]

LEMMA DrawingKeepsSound ==
  ASSUME NEW n, NEW k \in Nat, NEW r \in NetType, NEW c \in Channels,
         NetSound(n, k), n.senders[c] # <<>>, Draws(n, r, c)
  PROVE  NetSound(r, k)
<1> DEFINE p    == n.senders[c][1][1]
           m    == n.senders[c][1][2]
           gone == {p}
<1>1. n \in NetType /\ MessagesSound(n, k) /\ CallersSound(n)
  BY DEF NetSound
<1>2. 1 \in DOMAIN n.senders[c] /\ p \in Callers /\ m \in Messages
  BY <1>1, NetParts
<1>3. /\ Settled(n, r, gone) /\ Delivers(n, r, c, m) /\ r.closed = n.closed
      /\ \A d \in Channels : d # c => r.values[d] = n.values[d]
      /\ Len(r.values[c]) = Len(n.values[c])
      /\ \A x \in Messages :
           r.fate[x] = IF x = m THEN "sent"
                       ELSE IF Withdrawn(n, gone, x) THEN "withdrawn" ELSE n.fate[x]
  BY DEF Draws
<1>4. Comes(n, c, m, gone, k, k)
  BY DEF Comes
<1>5. FatesAfter(n, r, gone, m, k, k)
  <2> SUFFICES ASSUME NEW x \in Messages
               PROVE  IF x = m THEN r.fate[x] = "sent"
                      ELSE IF Withdrawn(n, gone, x) THEN r.fate[x] \in {"withdrawn", "failed"}
                      ELSE IF x > k /\ x <= k THEN r.fate[x] \in {"withdrawn", "failed"}
                      ELSE r.fate[x] = n.fate[x]
    BY DEF FatesAfter, Withdrawn
  <2>1. ~(x > k /\ x <= k)
    BY DEF Messages
  <2> QED BY <2>1, <1>3
<1>6. gone \subseteq Callers /\ m \in Messages \cup {0}
  BY <1>2
<1>7. /\ n.receivers[c] = <<>> /\ Len(n.values[c]) <= Capacity[c]
      /\ n.closed[c] \/ Len(n.values[c]) = Capacity[c]
  BY <1>1 DEF CallersSound
<1> HIDE DEF gone, m, p
<1>8. InOrder(r) /\ OneDoor(r)
  BY <1>1, <1>3, <1>4, <1>6, SettlingKeepsOrder
<1>9. FatesHold(r, k)
  BY <1>1, <1>3, <1>4, <1>5, <1>6, SettlingKeepsFates
<1>10. r.receivers[c] = <<>>
  BY <1>1, <1>3, <1>7, StillParkedReceivers
<1>11. CallersSound(r)
  <2>1. Len(r.values[c]) <= Capacity[c] /\ r.closed[c] = n.closed[c]
    BY <1>3, <1>7
  <2>2. n.closed[c] \/ Len(r.values[c]) = Capacity[c]
    BY <1>3, <1>7
  <2>3. \A d \in Channels : d # c => r.values[d] = n.values[d] /\ r.closed[d] = n.closed[d]
    BY <1>3
  <2> QED BY <1>1, <1>3, <1>10, <2>1, <2>2, <2>3, SettlingKeepsCallers
<1> QED BY <1>8, <1>9, <1>11 DEF NetSound, MessagesSound

\* resolveSender(), on a channel whose values may have moved up.
LEMMA ResolveFacts ==
  ASSUME NEW n \in NetType, NEW n1 \in NetType, NEW c \in Channels,
         InOrder(n), OneDoor(n), n.senders[c] # <<>>,
         n1.senders = n.senders, n1.receivers = n.receivers,
         n1.waiting = n.waiting, n1.fate = n.fate
  PROVE  LET r == resolveSender(n1, c)
             p == n.senders[c][1][1]
             m == n.senders[c][1][2]
         IN  /\ r \in NetType /\ Settled(n, r, {p})
             /\ r.values = n1.values /\ r.taken = n1.taken /\ r.closed = n1.closed
             /\ \A x \in Messages :
                  r.fate[x] = IF x = m THEN "sent"
                              ELSE IF Withdrawn(n, {p}, x) THEN "withdrawn" ELSE n.fate[x]
<1> DEFINE q    == n.senders[c]
           p    == q[1][1]
           m    == q[1][2]
           gone == {p}
           n2   == [n1 EXCEPT !.senders[c] = Tail(@), !.fate[m] = "sent"]
           r    == settle(n2, gone)
<1>1. /\ q \in Seq(Callers \X Messages) /\ Head(q) = q[1] /\ 1 \in DOMAIN q
      /\ p \in Callers /\ m \in Messages /\ q[1] = <<p, m>>
      /\ Tail(q) \in Seq(Callers \X Messages) /\ DOMAIN Tail(q) = 1 .. Len(q) - 1
      /\ \A i \in 1 .. Len(q) - 1 : Tail(q)[i] = q[i + 1]
      /\ DOMAIN q = 1 .. Len(q) /\ Len(q) \in Nat
  <2>1. q \in Seq(Callers \X Messages) /\ q # <<>>
    BY NetParts
  <2>2. 1 \in DOMAIN q
    BY <2>1
  <2>3. p \in Callers /\ m \in Messages /\ q[1] = <<p, m>>
    BY <2>2, NetParts
  <2> HIDE DEF q
  <2>4. /\ Len(q) \in Nat \ {0} /\ Head(q) = q[1] /\ Tail(q) \in Seq(Callers \X Messages)
        /\ Len(Tail(q)) = Len(q) - 1 /\ \A i \in 1..Len(Tail(q)) : Tail(q)[i] = q[i + 1]
    BY <2>1, TailFacts
  <2>5. DOMAIN q = 1 .. Len(q) /\ DOMAIN Tail(q) = 1 .. Len(Tail(q))
    BY <2>1, <2>4
  <2> QED BY <2>1, <2>2, <2>3, <2>4, <2>5
<1>2. resolveSender(n1, c) = r
  BY <1>1 DEF resolveSender
<1>3. /\ n2 \in NetType /\ n2.waiting = n.waiting /\ n2.receivers = n.receivers
      /\ n2.values = n1.values /\ n2.taken = n1.taken /\ n2.closed = n1.closed
      /\ n2.senders[c] = Tail(q)
      /\ \A d \in Channels : d # c => n2.senders[d] = n.senders[d]
      /\ \A x \in Messages : n2.fate[x] = IF x = m THEN "sent" ELSE n.fate[x]
  <2> HIDE DEF m
  <2> QED BY <1>1 DEF NetType
<1> HIDE DEF n2
<1>4. /\ r \in NetType /\ Settled(n2, r, gone)
      /\ r.values = n2.values /\ r.taken = n2.taken /\ r.closed = n2.closed
      /\ \A x \in Messages : r.fate[x] = IF Withdrawn(n2, gone, x) THEN "withdrawn" ELSE n2.fate[x]
  BY <1>3, SettleFacts
<1> HIDE DEF r
<1>5. Settled(n, r, gone)
  <2>1. Leaves(q, r.senders[c], gone \X Messages)
    <3> DEFINE s == r.senders[c]
               g == gone \X Messages
    <3>1. Leaves(Tail(q), s, g)
      BY <1>3, <1>4 DEF Settled
    <3>2. s \in Seq(Callers \X Messages)
      BY <1>4, NetParts
    <3>3. Head(q) \in g
      BY <1>1
    <3>4. q # <<>> /\ q \in Seq(Callers \X Messages)
      BY <1>1
    <3> HIDE DEF s, g, q
    <3>5. Leaves(q, s, g)
      BY <3>1, <3>2, <3>3, <3>4, TailLeaves
    <3> QED BY <3>5 DEF s, g
  <2> QED BY <2>1, <1>3, <1>4 DEF Settled
<1>6. ASSUME NEW x \in Messages, x # m PROVE Withdrawn(n2, gone, x) <=> Withdrawn(n, gone, x)
  <2>1. ASSUME NEW d \in Channels
        PROVE  <<p, x>> \in entries(n2.senders[d]) <=> <<p, x>> \in entries(n.senders[d])
    <3>1. CASE d # c
      BY <3>1, <1>3
    <3>2. CASE d = c
      <4>1. ASSUME NEW i \in DOMAIN q, q[i] = <<p, x>> PROVE <<p, x>> \in entries(Tail(q))
        <5>1. i # 1
          BY <4>1, <1>1, <1>6
        <5>2. i - 1 \in 1 .. Len(q) - 1 /\ i - 1 + 1 = i
          BY <5>1, <1>1
        <5> HIDE DEF q, m, p
        <5>3. Tail(q)[i - 1] = <<p, x>> /\ i - 1 \in DOMAIN Tail(q)
          BY <1>1, <4>1, <5>2
        <5> QED BY <5>3 DEF entries
      <4>2. ASSUME NEW i \in DOMAIN Tail(q), Tail(q)[i] = <<p, x>> PROVE <<p, x>> \in entries(q)
        <5> HIDE DEF q, m, p
        <5>1. i + 1 \in DOMAIN q /\ q[i + 1] = <<p, x>>
          BY <4>2, <1>1
        <5> QED BY <5>1 DEF entries
      <4>3. <<p, x>> \in entries(q) => <<p, x>> \in entries(Tail(q))
        BY <4>1 DEF entries
      <4>4. <<p, x>> \in entries(Tail(q)) => <<p, x>> \in entries(q)
        BY <4>2 DEF entries
      <4>5. n2.senders[d] = Tail(q) /\ n.senders[d] = q
        BY <3>2, <1>3
      <4> QED BY <4>3, <4>4, <4>5
    <3> QED BY <3>1, <3>2
  <2> QED BY <2>1 DEF Withdrawn
<1>7. ~Withdrawn(n2, gone, m)
  <2> SUFFICES ASSUME NEW d \in Channels, <<p, m>> \in entries(n2.senders[d]) PROVE FALSE
    BY DEF Withdrawn
  <2>1. PICK i \in DOMAIN n2.senders[d] : n2.senders[d][i] = <<p, m>>
    BY DEF entries
  <2>2. CASE d # c
    <3>1. i \in DOMAIN n.senders[d] /\ n.senders[d][i][2] = m
      BY <2>1, <2>2, <1>3
    <3> QED BY <3>1, <2>2, <1>1, OnePlace
  <2>3. CASE d = c
    <3>1. i \in 1 .. Len(q) - 1 /\ q[i + 1] = <<p, m>>
      BY <2>1, <2>3, <1>1, <1>3
    <3>2. i + 1 \in DOMAIN n.senders[c] /\ n.senders[c][i + 1][2] = m /\ i + 1 # 1
      BY <3>1, <1>1
    <3> QED BY <3>2, <1>1, OnePlace
  <2> QED BY <2>2, <2>3
<1>8. \A x \in Messages :
        r.fate[x] = IF x = m THEN "sent"
                    ELSE IF Withdrawn(n, gone, x) THEN "withdrawn" ELSE n.fate[x]
  BY <1>3, <1>4, <1>6, <1>7
<1> QED BY <1>2, <1>3, <1>4, <1>5, <1>8

\* The first of what is held moves to the end of what was taken.
LEMMA HeadMoves ==
  ASSUME NEW S, NEW s \in Seq(S), NEW t \in Seq(S), t # <<>>
  PROVE  Append(s, Head(t)) \o Tail(t) = s \o t
<1>1. /\ Len(t) \in Nat \ {0} /\ Head(t) = t[1] /\ Head(t) \in S
      /\ Tail(t) \in Seq(S) /\ Len(Tail(t)) = Len(t) - 1
      /\ \A i \in 1..Len(Tail(t)) : Tail(t)[i] = t[i + 1]
  BY TailFacts
<1> DEFINE a == Append(s, Head(t))
           b == Tail(t)
<1>2. /\ a \in Seq(S) /\ Len(a) = Len(s) + 1 /\ Len(s) \in Nat
      /\ \A i \in 1..Len(s) : a[i] = s[i]
      /\ a[Len(s) + 1] = t[1]
  BY <1>1, AppendFacts
<1>3. /\ b \in Seq(S) /\ Len(b) = Len(t) - 1
      /\ \A i \in 1..Len(b) : b[i] = t[i + 1]
  BY <1>1
<1> HIDE DEF a, b
<1>4. /\ a \o b \in Seq(S) /\ s \o t \in Seq(S)
      /\ Len(a \o b) = Len(s) + Len(t) /\ Len(s \o t) = Len(s) + Len(t)
  <2>1. a \o b \in Seq(S) /\ s \o t \in Seq(S)
    BY <1>2, <1>3
  <2>2. Len(a \o b) = Len(a) + Len(b)
    <3>1. a \in Seq(S) /\ b \in Seq(S)
      BY <1>2, <1>3
    <3> QED BY <3>1
  <2>3. Len(s \o t) = Len(s) + Len(t)
    OBVIOUS
  <2>4. Len(a) + Len(b) = Len(s) + Len(t)
    BY <1>1, <1>2, <1>3
  <2> QED BY <2>1, <2>2, <2>3, <2>4
<1>5. ASSUME NEW i \in 1 .. Len(s) + Len(t) PROVE (a \o b)[i] = (s \o t)[i]
  <2>0. i \in Nat /\ Len(s) \in Nat /\ Len(t) \in Nat
    BY <1>1, <1>2
  <2>1. CASE i <= Len(s)
    BY <2>1, <1>1, <1>2, <1>3
  <2>2. CASE i = Len(s) + 1
    BY <2>2, <1>1, <1>2, <1>3
  <2>3. CASE i > Len(s) + 1
    <3>1. (a \o b)[i] = b[i - (Len(s) + 1)] /\ (s \o t)[i] = t[i - Len(s)]
      BY <2>3, <1>1, <1>2, <1>3
    <3>2. i - (Len(s) + 1) \in 1 .. Len(b) /\ i - (Len(s) + 1) + 1 = i - Len(s)
      BY <2>3, <1>1, <1>2, <1>3
    <3> QED BY <3>1, <3>2, <1>3
  <2>4. i <= Len(s) \/ i = Len(s) + 1 \/ i > Len(s) + 1
    BY <2>0
  <2> QED BY <2>1, <2>2, <2>3, <2>4
<1> QED BY <1>4, <1>5 DEF a, b

\* A value is taken from the buffer.
takeFirst(n, c) == [n EXCEPT !.values[c] = Tail(@), !.taken[c] = Append(@, Head(n.values[c]))]

\* It leaves what the channel has delivered and holds as it was.
LEMMA TakeFirstFacts ==
  ASSUME NEW n \in NetType, NEW c \in Channels, n.values[c] # <<>>
  PROVE  LET r == takeFirst(n, c)
         IN  /\ r \in NetType
             /\ r.waiting = n.waiting /\ r.senders = n.senders /\ r.receivers = n.receivers
             /\ r.closed = n.closed /\ r.fate = n.fate
             /\ r.values[c] = Tail(n.values[c]) /\ Len(r.values[c]) = Len(n.values[c]) - 1
             /\ \A d \in Channels : d # c => r.values[d] = n.values[d] /\ r.taken[d] = n.taken[d]
             /\ Held(r, c) = Held(n, c)
<1> DEFINE s == n.taken[c]
           t == n.values[c]
           r == takeFirst(n, c)
<1>1. s \in Seq(Messages) /\ t \in Seq(Messages) /\ t # <<>>
  BY NetParts
<1>2. /\ Tail(t) \in Seq(Messages) /\ Append(s, Head(t)) \in Seq(Messages)
      /\ Append(s, Head(t)) \o Tail(t) = s \o t /\ Len(Tail(t)) = Len(t) - 1
  <2> HIDE DEF s, t
  <2>1. /\ Tail(t) \in Seq(Messages) /\ Head(t) \in Messages /\ Len(Tail(t)) = Len(t) - 1
    BY <1>1, TailFacts
  <2>2. Append(s, Head(t)) \o Tail(t) = s \o t
    BY <1>1, HeadMoves
  <2> QED BY <1>1, <2>1, <2>2
<1>3. /\ r \in NetType
      /\ r.waiting = n.waiting /\ r.senders = n.senders /\ r.receivers = n.receivers
      /\ r.closed = n.closed /\ r.fate = n.fate
      /\ r.values[c] = Tail(t) /\ r.taken[c] = Append(s, Head(t))
      /\ \A d \in Channels : d # c => r.values[d] = n.values[d] /\ r.taken[d] = n.taken[d]
  BY <1>2 DEF NetType, takeFirst
<1> HIDE DEF r
<1>4. Held(r, c) = Append(s, Head(t)) \o Tail(t) /\ Held(n, c) = s \o t
  BY <1>3 DEF Held
<1> QED BY <1>2, <1>3, <1>4 DEF r

\* tryReceive() on a channel that holds a value, without a sender to let in.
LEMMA TakeFirstKeepsSound ==
  ASSUME ChannelAssumption, NEW n, NEW k \in Nat, NEW c \in Channels, NetSound(n, k),
         n.values[c] # <<>>, n.closed[c] \/ n.senders[c] = <<>>
  PROVE  LET r == takeFirst(n, c) IN NetSound(r, k) /\ EndsStay(n, r)
<1> DEFINE r == takeFirst(n, c)
<1>1. n \in NetType /\ MessagesSound(n, k) /\ CallersSound(n)
  BY DEF NetSound
<1>2. /\ r \in NetType
      /\ r.waiting = n.waiting /\ r.senders = n.senders /\ r.receivers = n.receivers
      /\ r.closed = n.closed /\ r.fate = n.fate
      /\ r.values[c] = Tail(n.values[c]) /\ Len(r.values[c]) = Len(n.values[c]) - 1
      /\ \A d \in Channels : d # c => r.values[d] = n.values[d] /\ r.taken[d] = n.taken[d]
      /\ Held(r, c) = Held(n, c)
  BY <1>1, TakeFirstFacts
<1> HIDE DEF r
<1>3. \A d \in Channels : Held(r, d) = Held(n, d)
  BY <1>2 DEF Held
<1>4. MessagesSound(r, k)
  BY <1>1, <1>2, <1>3
     DEF MessagesSound, InOrder, OneDoor, FatesHold, IsHeld, IsParked
<1>5. n.receivers[c] = <<>> /\ (n.senders[c] = <<>> \/ n.closed[c])
  BY <1>1 DEF CallersSound
<1>6. CallersSound(r)
  <2> SUFFICES ASSUME NEW d \in Channels
               PROVE  /\ Len(r.values[d]) <= Capacity[d]
                      /\ r.receivers[d] # <<>> => r.values[d] = <<>>
                      /\ r.senders[d] # <<>> => r.closed[d] \/ Len(r.values[d]) = Capacity[d]
    BY <1>1, <1>2 DEF CallersSound
  <2>1. CASE d # c
    BY <2>1, <1>1, <1>2 DEF CallersSound
  <2>2. CASE d = c
    <3>1. n.values[c] \in Seq(Messages) /\ Len(n.values[c]) <= Capacity[c]
      BY <1>1, NetParts DEF CallersSound
    <3>2. n.values[c] \in Seq(Messages) => Len(n.values[c]) \in Nat
      OBVIOUS
    <3>3. Capacity[c] \in Nat
      BY DEF ChannelAssumption
    <3>4. Len(n.values[c]) <= Capacity[c] /\ Len(n.values[c]) \in Nat
      BY <3>1, <3>2
    <3>5. Len(r.values[c]) <= Capacity[c]
      BY <3>3, <3>4, <1>2
    <3> QED BY <2>2, <3>5, <1>2, <1>5
  <2> QED BY <2>1, <2>2
<1>7. EndsStay(n, r)
  BY <1>2 DEF EndsStay
<1> QED BY <1>2, <1>4, <1>6, <1>7 DEF NetSound, r

\* A value leaves the buffer of c, and its first parked sender takes the room;
\* or, where nothing is buffered, the first sender hands its message over.
LEMMA DrainFacts ==
  ASSUME NEW n \in NetType, NEW c \in Channels,
         InOrder(n), OneDoor(n), n.senders[c] # <<>>, n.values[c] # <<>>
  PROVE  LET r == push(resolveSender(takeFirst(n, c), c), c, n.senders[c][1][2])
         IN  r \in NetType /\ Draws(n, r, c)
<1> DEFINE s    == n.taken[c]
           t    == n.values[c]
           p    == n.senders[c][1][1]
           m    == n.senders[c][1][2]
           n1   == takeFirst(n, c)
           n2   == resolveSender(n1, c)
           r    == push(n2, c, m)
<1>1. /\ n1 \in NetType
      /\ n1.waiting = n.waiting /\ n1.senders = n.senders /\ n1.receivers = n.receivers
      /\ n1.closed = n.closed /\ n1.fate = n.fate
      /\ n1.values[c] = Tail(t) /\ Len(n1.values[c]) = Len(t) - 1
      /\ \A d \in Channels : d # c => n1.values[d] = n.values[d] /\ n1.taken[d] = n.taken[d]
      /\ Held(n1, c) = Held(n, c)
  BY TakeFirstFacts
<1> HIDE DEF n1
<1>2. /\ n2 \in NetType /\ Settled(n, n2, {p})
      /\ n2.values = n1.values /\ n2.taken = n1.taken /\ n2.closed = n1.closed
      /\ \A x \in Messages :
           n2.fate[x] = IF x = m THEN "sent"
                        ELSE IF Withdrawn(n, {p}, x) THEN "withdrawn" ELSE n.fate[x]
  BY <1>1, ResolveFacts
<1> HIDE DEF n2
<1>3. m \in Messages /\ m # 0 /\ n2.values[c] \in Seq(Messages) /\ n2.taken[c] \in Seq(Messages)
  <2>1. 1 \in DOMAIN n.senders[c]
    BY NetParts
  <2> QED BY <2>1, <1>2, NetParts DEF Messages
<1> HIDE DEF m
<1>4. /\ Append(n2.values[c], m) \in Seq(Messages)
      /\ Len(Append(n2.values[c], m)) = Len(n2.values[c]) + 1
      /\ n2.taken[c] \o Append(n2.values[c], m) = Append(n2.taken[c] \o n2.values[c], m)
  <2> DEFINE a == n2.taken[c]
             b == n2.values[c]
  <2>1. m \in Messages /\ a \in Seq(Messages) /\ b \in Seq(Messages)
    BY <1>3
  <2> HIDE DEF a, b
  <2>2. Append(b, m) \in Seq(Messages) /\ Len(Append(b, m)) = Len(b) + 1
    BY <2>1, AppendFacts
  <2>3. a \o Append(b, m) = Append(a \o b, m)
    BY <2>1, AppendBehind
  <2> QED BY <2>2, <2>3 DEF a, b
<1>5. /\ r \in NetType /\ r.waiting = n2.waiting /\ r.senders = n2.senders /\ r.receivers = n2.receivers
      /\ r.taken = n2.taken /\ r.closed = n2.closed /\ r.values[c] = Append(n2.values[c], m)
      /\ \A d \in Channels : d # c => r.values[d] = n2.values[d]
      /\ \A x \in Messages : r.fate[x] = IF x = m THEN "sent" ELSE n2.fate[x]
  BY <1>2, <1>3, <1>4 DEF NetType, push
<1> HIDE DEF r
<1>6. Settled(n, r, {p})
  BY <1>2, <1>5 DEF Settled
<1>7. Delivers(n, r, c, m)
  <2>1. Held(r, c) = Append(Held(n, c), m)
    BY <1>1, <1>2, <1>4, <1>5 DEF Held
  <2>2. \A d \in Channels : d # c => Held(r, d) = Held(n, d)
    <3>1. \A d \in Channels : d # c => r.taken[d] = n.taken[d]
      BY <1>1, <1>2, <1>5
    <3>2. \A d \in Channels : d # c => r.values[d] = n.values[d]
      BY <1>1, <1>2, <1>5
    <3> QED BY <3>1, <3>2 DEF Held
  <2> QED BY <2>1, <2>2, <1>3 DEF Delivers
<1>8. Len(r.values[c]) = Len(n.values[c])
  <2>1. t \in Seq(Messages)
    BY NetParts
  <2>2. Len(t) \in Nat
    BY <2>1
  <2>3. Len(r.values[c]) = Len(t) - 1 + 1
    BY <1>1, <1>2, <1>4, <1>5
  <2> QED BY <2>2, <2>3
<1>9. Draws(n, r, c)
  <2>1. r.closed = n.closed
    BY <1>1, <1>2, <1>5
  <2>2. \A d \in Channels : d # c => r.values[d] = n.values[d]
    BY <1>1, <1>2, <1>5
  <2>3. \A x \in Messages :
          r.fate[x] = IF x = m THEN "sent"
                      ELSE IF Withdrawn(n, {p}, x) THEN "withdrawn" ELSE n.fate[x]
    BY <1>2, <1>5
  <2> QED BY <2>1, <2>2, <2>3, <1>6, <1>7, <1>8 DEF Draws, m
<1> QED BY <1>5, <1>9 DEF r, n2, n1, m

\* The same where nothing is buffered.
LEMMA HandFacts ==
  ASSUME NEW n \in NetType, NEW c \in Channels,
         InOrder(n), OneDoor(n), n.senders[c] # <<>>, n.values[c] = <<>>
  PROVE  LET r == [resolveSender(n, c) EXCEPT !.taken[c] = Append(@, n.senders[c][1][2])]
         IN  r \in NetType /\ Draws(n, r, c)
<1> DEFINE p    == n.senders[c][1][1]
           m    == n.senders[c][1][2]
           n2   == resolveSender(n, c)
           r    == [n2 EXCEPT !.taken[c] = Append(@, m)]
<1>2. /\ n2 \in NetType /\ Settled(n, n2, {p})
      /\ n2.values = n.values /\ n2.taken = n.taken /\ n2.closed = n.closed
      /\ \A x \in Messages :
           n2.fate[x] = IF x = m THEN "sent"
                        ELSE IF Withdrawn(n, {p}, x) THEN "withdrawn" ELSE n.fate[x]
  BY ResolveFacts
<1> HIDE DEF n2
<1>3. m \in Messages /\ m # 0 /\ n2.taken[c] \in Seq(Messages)
  <2>1. 1 \in DOMAIN n.senders[c]
    BY NetParts
  <2> QED BY <2>1, <1>2, NetParts DEF Messages
<1> HIDE DEF m
<1>4. Append(n2.taken[c], m) \in Seq(Messages)
  BY <1>3
<1>5. /\ r \in NetType /\ r.waiting = n2.waiting /\ r.senders = n2.senders /\ r.receivers = n2.receivers
      /\ r.values = n2.values /\ r.closed = n2.closed /\ r.taken[c] = Append(n2.taken[c], m)
      /\ \A d \in Channels : d # c => r.taken[d] = n2.taken[d]
      /\ r.fate = n2.fate
  BY <1>2, <1>3, <1>4 DEF NetType
<1> HIDE DEF r
<1>6. Settled(n, r, {p})
  BY <1>2, <1>5 DEF Settled
<1>7. Delivers(n, r, c, m)
  <2>1. Held(r, c) = Append(n2.taken[c], m) \o <<>> /\ Held(n, c) = n2.taken[c] \o <<>>
    BY <1>2, <1>5 DEF Held
  <2>2. Held(r, c) = Append(Held(n, c), m)
    BY <2>1, <1>3
  <2>3. \A d \in Channels : d # c => Held(r, d) = Held(n, d)
    BY <1>2, <1>5 DEF Held
  <2> QED BY <2>2, <2>3, <1>3 DEF Delivers
<1>9. Draws(n, r, c)
  BY <1>2, <1>5, <1>6, <1>7 DEF Draws, m
<1> QED BY <1>5, <1>9 DEF r, n2, m

\* tryReceive() that finds something.
LEMMA TryReceiveKeepsSound ==
  ASSUME ChannelAssumption, NEW n, NEW k \in Nat, NEW c \in Channels, NetSound(n, k)
  PROVE  LET r == tryReceive(n, c) IN NetSound(r, k) /\ EndsStay(n, r)
<1> DEFINE r == tryReceive(n, c)
           m == n.senders[c][1][2]
           n1 == takeFirst(n, c)
<1>1. n \in NetType /\ MessagesSound(n, k) /\ CallersSound(n) /\ InOrder(n) /\ OneDoor(n)
  BY DEF NetSound, MessagesSound
<1>2. CASE n.values[c] = <<>> /\ n.senders[c] = <<>>
  <2>1. r = n
    BY <1>2 DEF tryReceive
  <2> QED BY <2>1 DEF EndsStay
<1>3. CASE n.values[c] = <<>> /\ n.senders[c] # <<>>
  <2>1. n.senders[c] \in Seq(Callers \X Messages)
    BY <1>1, NetParts
  <2>2. Head(n.senders[c])[2] = m
    BY <2>1, <1>3
  <2>3. r = [resolveSender(n, c) EXCEPT !.taken[c] = Append(@, m)]
    BY <2>2, <1>3 DEF tryReceive
  <2>4. r \in NetType /\ Draws(n, r, c)
    BY <1>1, <1>3, <2>3, HandFacts
  <2> HIDE DEF r
  <2>5. NetSound(r, k)
    BY <1>3, <2>4, DrawingKeepsSound
  <2>6. EndsStay(n, r)
    <3>1. r.closed = n.closed /\ \A d \in Channels : d # c => r.values[d] = n.values[d]
      BY <2>4 DEF Draws
    <3>2. r.values[c] = <<>>
      <4>1. Len(r.values[c]) = 0 /\ r.values[c] \in Seq(Messages)
        BY <2>4, <1>3, NetParts DEF Draws
      <4> QED BY <4>1
    <3> QED BY <3>1, <3>2 DEF EndsStay
  <2> QED BY <2>5, <2>6 DEF r
<1>4. CASE n.values[c] # <<>> /\ (n.closed[c] \/ n.senders[c] = <<>>)
  <2>1. n1.closed = n.closed /\ n1.senders = n.senders
    BY <1>1, <1>4, TakeFirstFacts
  <2>2. r = n1
    BY <2>1, <1>4 DEF tryReceive, drainSender, takeFirst
  <2> QED BY <2>2, <1>4, TakeFirstKeepsSound
<1>5. CASE n.values[c] # <<>> /\ ~n.closed[c] /\ n.senders[c] # <<>>
  <2>1. /\ n1.closed = n.closed /\ n1.senders = n.senders /\ n1.receivers = n.receivers
        /\ Len(n1.values[c]) = Len(n.values[c]) - 1
    BY <1>1, <1>5, TakeFirstFacts
  <2>2. n.senders[c] \in Seq(Callers \X Messages) /\ n.values[c] \in Seq(Messages)
    BY <1>1, NetParts
  <2>3. Head(n.senders[c])[2] = m
    BY <2>2, <1>5
  <2>4. n.receivers[c] = <<>> /\ Len(n.values[c]) = Capacity[c]
    BY <1>1, <1>5 DEF CallersSound
  <2>5. Len(n1.values[c]) < Capacity[c]
    <3>1. Len(n.values[c]) \in Nat
      BY <2>2
    <3> QED BY <3>1, <2>1, <2>4
  <2>6. r = push(resolveSender(n1, c), c, m)
    <3>1. r = drainSender(n1, c)
      BY <1>5 DEF tryReceive, takeFirst
    <3> HIDE DEF n1
    <3> QED BY <3>1, <2>1, <2>3, <2>4, <2>5, <1>5 DEF drainSender
  <2>7. r \in NetType /\ Draws(n, r, c)
    BY <1>1, <1>5, <2>6, DrainFacts
  <2> HIDE DEF r
  <2>8. NetSound(r, k)
    BY <1>5, <2>7, DrawingKeepsSound
  <2>9. EndsStay(n, r)
    BY <1>5, <2>7 DEF EndsStay, Draws
  <2> QED BY <2>8, <2>9 DEF r
<1> QED BY <1>2, <1>3, <1>4, <1>5

\* trySend() on a channel with a receiver or with room.
LEMMA TrySendKeepsSound ==
  ASSUME ChannelAssumption, NEW n, NEW k \in Nat, NEW c \in Channels, NetSound(n, k), k + 1 \in Messages,
         canSend(n, c)
  PROVE  LET r == trySend(n, c, k + 1) IN NetSound(r, k + 1) /\ EndsStay(n, r)
<1>1. CASE n.receivers[c] # <<>>
  <2>1. trySend(n, c, k + 1) = handOver(n, c, k + 1)
    BY <1>1 DEF trySend
  <2> QED BY <1>1, <2>1, HandOverKeepsSound
<1>2. CASE n.receivers[c] = <<>>
  <2>1. trySend(n, c, k + 1) = push(n, c, k + 1)
    BY <1>2 DEF trySend
  <2>2. ~n.closed[c] /\ Len(n.values[c]) < Capacity[c]
    BY <1>2 DEF canSend
  <2> QED BY <1>2, <2>1, <2>2, PushKeepsSound
<1> QED BY <1>1, <1>2

LEMMA SoundStays ==
  ASSUME NEW n, NEW r, NEW s, EndsStay(n, r), EndsStay(r, s)
  PROVE  EndsStay(n, s)
  BY DEF EndsStay

\* A select whose send case lost, or was not ready.
LEMMA WithdrawKeepsSound ==
  ASSUME NEW n, NEW k \in Nat, NEW l \in Nat, NEW m, NetSound(n, k),
         \/ m = 0 /\ l = k
         \/ m = k + 1 /\ l = k + 1 /\ k + 1 \in Messages
  PROVE  LET r == withdraw(n, m) IN NetSound(r, l) /\ EndsStay(n, r)
<1>1. CASE m = 0 /\ l = k
  BY <1>1 DEF withdraw, EndsStay
<1>2. CASE m = k + 1 /\ l = k + 1 /\ k + 1 \in Messages
  <2>1. withdraw(n, m) = [n EXCEPT !.fate[k + 1] = "withdrawn"]
    BY <1>2 DEF withdraw
  <2>2. NetSound([n EXCEPT !.fate[k + 1] = "withdrawn"], k + 1)
    BY <1>2, GivingUpKeepsSound
  <2>3. EndsStay(n, [n EXCEPT !.fate[k + 1] = "withdrawn"])
    BY <1>2, GivingUpKeepsSound
  <2> QED BY <1>2, <2>1, <2>2, <2>3
<1> QED BY <1>1, <1>2

LEMMA NobodyThere ==
  ASSUME NEW S, NEW q \in Seq(S), DOMAIN q = {}
  PROVE  q = <<>>
  OBVIOUS

\* close(): what it makes of the net.
closing(n, c) ==
  LET r == settle(n, {s[1] : s \in entries(n.senders[c])} \cup entries(n.receivers[c]))
  IN  [r EXCEPT !.closed[c] = TRUE,
                !.fate = [m \in Messages |->
                            IF m \in {s[2] : s \in entries(n.senders[c])}
                            THEN "failed" ELSE r.fate[m]]]

LEMMA CloseKeepsSound ==
  ASSUME NEW n, NEW k \in Nat, NEW c \in Channels, NetSound(n, k)
  PROVE  LET r == closing(n, c) IN NetSound(r, k) /\ EndsStay(n, r) /\ r.closed[c] /\ r.values = n.values
<1> DEFINE gone   == {s[1] : s \in entries(n.senders[c])} \cup entries(n.receivers[c])
           failed == {s[2] : s \in entries(n.senders[c])}
           n1     == settle(n, gone)
           f      == [m \in Messages |-> IF m \in failed THEN "failed" ELSE n1.fate[m]]
           r      == closing(n, c)
<1>1. n \in NetType /\ MessagesSound(n, k) /\ CallersSound(n)
  BY DEF NetSound
<1>2. /\ \A i \in DOMAIN n.senders[c] : n.senders[c][i][1] \in gone /\ n.senders[c][i][2] \in failed
      /\ \A i \in DOMAIN n.receivers[c] : n.receivers[c][i] \in gone
  BY DEF entries
<1>3. \A x \in failed : Withdrawn(n, gone, x)
  <2> TAKE x \in failed
  <2>1. PICK i \in DOMAIN n.senders[c] : n.senders[c][i][2] = x
    BY DEF entries
  <2>2. n.senders[c][i] = <<n.senders[c][i][1], x>> /\ n.senders[c][i][1] \in gone
    BY <1>1, <1>2, <2>1, NetParts
  <2>3. <<n.senders[c][i][1], x>> \in entries(n.senders[c])
    BY <2>2 DEF entries
  <2> HIDE DEF gone
  <2> QED BY <2>2, <2>3 DEF Withdrawn
<1>4. gone \subseteq Callers
  <2>1. entries(n.receivers[c]) \subseteq Callers
    <3>1. n.receivers[c] \in Seq(Callers)
      BY <1>1, NetParts
    <3> QED BY <3>1 DEF entries
  <2>2. \A s \in entries(n.senders[c]) : s[1] \in Callers
    BY <1>1, NetParts DEF entries
  <2> QED BY <2>1, <2>2
<1>5. r = [n1 EXCEPT !.closed[c] = TRUE, !.fate = f]
  BY DEF closing
<1> HIDE DEF gone, failed
<1>6. /\ n1 \in NetType /\ Settled(n, n1, gone)
      /\ n1.values = n.values /\ n1.taken = n.taken /\ n1.closed = n.closed
      /\ \A x \in Messages : n1.fate[x] = IF Withdrawn(n, gone, x) THEN "withdrawn" ELSE n.fate[x]
  BY <1>1, SettleFacts
<1> HIDE DEF n1
<1>7. /\ f \in [Messages -> {"none", "parked", "sent", "failed", "withdrawn"}]
      /\ \A x \in Messages : f[x] = IF x \in failed THEN "failed" ELSE n1.fate[x]
  BY <1>6 DEF NetType
<1> HIDE DEF f, r
<1>8. /\ r \in NetType /\ r.waiting = n1.waiting /\ r.senders = n1.senders /\ r.receivers = n1.receivers
      /\ r.values = n1.values /\ r.taken = n1.taken /\ r.fate = f /\ r.closed[c] = TRUE
      /\ \A d \in Channels : d # c => r.closed[d] = n1.closed[d]
  BY <1>5, <1>6, <1>7 DEF NetType
<1>9. Settled(n, r, gone)
  BY <1>6, <1>8 DEF Settled
<1>10. Delivers(n, r, c, 0)
  BY <1>6, <1>8 DEF Delivers, Held
<1>11. Comes(n, c, 0, gone, k, k)
  BY DEF Comes
<1>12. FatesAfter(n, r, gone, 0, k, k)
  <2> SUFFICES ASSUME NEW x \in Messages
               PROVE  /\ x # 0 /\ ~(x > k /\ x <= k)
                      /\ IF Withdrawn(n, gone, x) THEN r.fate[x] \in {"withdrawn", "failed"}
                         ELSE r.fate[x] = n.fate[x]
    BY DEF FatesAfter, Withdrawn
  <2>1. x # 0 /\ ~(x > k /\ x <= k)
    BY DEF Messages
  <2> QED BY <2>1, <1>3, <1>6, <1>7, <1>8
<1>13. InOrder(r) /\ OneDoor(r)
  BY <1>1, <1>8, <1>9, <1>10, <1>11, SettlingKeepsOrder
<1>14. FatesHold(r, k)
  BY <1>1, <1>4, <1>8, <1>9, <1>10, <1>11, <1>12, SettlingKeepsFates
<1>15. r.receivers[c] = <<>>
  <2>1. DOMAIN r.receivers[c] = {}
    BY <1>1, <1>2, <1>8, <1>9, StillParkedReceivers
  <2>2. r.receivers[c] \in Seq(Callers)
    BY <1>8, NetParts
  <2> QED BY <2>1, <2>2, NobodyThere
<1>16. r.senders[c] = <<>>
  <2>1. DOMAIN r.senders[c] = {}
    BY <1>1, <1>2, <1>8, <1>9, StillParked
  <2>2. r.senders[c] \in Seq(Callers \X Messages)
    BY <1>8, NetParts
  <2> QED BY <2>1, <2>2, NobodyThere
<1>17. CallersSound(r)
  <2>1. Len(r.values[c]) <= Capacity[c]
    BY <1>1, <1>6, <1>8 DEF CallersSound
  <2>2. \A d \in Channels : d # c => r.values[d] = n.values[d] /\ r.closed[d] = n.closed[d]
    BY <1>6, <1>8
  <2> QED BY <1>1, <1>8, <1>9, <1>15, <1>16, <2>1, <2>2, SettlingKeepsCallers
<1>18. EndsStay(n, r)
  BY <1>6, <1>8 DEF EndsStay
<1> QED BY <1>6, <1>8, <1>13, <1>14, <1>17, <1>18 DEF NetSound, MessagesSound, r

----
(* The calls.                                                              *)

\* The messages are where their fate says, in order; nobody is parked beside
\* his work; and the ends that were told are the ends of the channels.
ChannelInv ==
  /\ offered \in 0 .. MaxMessages
  /\ told \in [Channels -> SUBSET Callers]
  /\ NetSound(net, offered)
  /\ EndComesLast

LEMMA ChannelStarts == ChannelInit => ChannelInv
<1> SUFFICES ASSUME ChannelInit PROVE ChannelInv
  OBVIOUS
<1>1. net \in NetType
  BY DEF ChannelInit, NetType
<1>2. \A c \in Channels :
        /\ net.values[c] = <<>> /\ net.taken[c] = <<>> /\ net.senders[c] = <<>>
        /\ net.receivers[c] = <<>> /\ told[c] = {}
  BY DEF ChannelInit
<1>3. \A m \in Messages : net.fate[m] = "none"
  BY DEF ChannelInit
<1>4. \A c \in Channels : DOMAIN Held(net, c) = {} /\ DOMAIN net.senders[c] = {}
  <2>1. \A c \in Channels : Held(net, c) = <<>> \o <<>>
    BY <1>2 DEF Held
  <2>2. DOMAIN (<<>> \o <<>>) = {} /\ DOMAIN <<>> = {}
    OBVIOUS
  <2> QED BY <2>1, <2>2, <1>2
<1>5. MessagesSound(net, 0)
  BY <1>3, <1>4 DEF MessagesSound, InOrder, OneDoor, FatesHold, IsHeld, IsParked, Rising, Before, InLine
<1>6. CallersSound(net)
  <2>1. \A c \in Channels : Len(net.values[c]) = 0 /\ Capacity[c] \in Nat
    BY <1>2, ChannelAssumption DEF ChannelAssumption
  <2> QED BY <1>2, <2>1 DEF CallersSound
<1>7. told \in [Channels -> SUBSET Callers] /\ offered = 0 /\ offered \in 0 .. MaxMessages
  BY ChannelAssumption DEF ChannelInit, ChannelAssumption
<1> QED BY <1>1, <1>2, <1>5, <1>6, <1>7 DEF ChannelInv, NetSound, EndComesLast

\* What a call that closes nothing owes.
LEMMA CallKeepsInv ==
  ASSUME ChannelInv, offered' \in 0 .. MaxMessages, NetSound(net', offered'), EndsStay(net, net'),
         \/ told' = told
         \/ \E p \in Callers, c \in Channels : tell(p, c)
  PROVE  ChannelInv'
<1>1. told' \in [Channels -> SUBSET Callers]
  BY DEF ChannelInv, tell
<1>2. EndComesLast'
  <2> SUFFICES ASSUME NEW d \in Channels, told'[d] # {}
               PROVE  net'.closed[d] /\ net'.values[d] = <<>>
    BY DEF EndComesLast
  <2>1. net.closed[d] /\ net.values[d] = <<>>
    <3>1. CASE told[d] # {}
      BY <3>1 DEF ChannelInv, EndComesLast
    <3>2. CASE told[d] = {}
      <4>1. PICK p \in Callers, c \in Channels : tell(p, c)
        BY <3>2
      <4>2. endsReceive(net, c) /\ d = c
        BY <3>2, <4>1 DEF tell, ChannelInv
      <4> QED BY <4>2 DEF endsReceive
    <3> QED BY <3>1, <3>2
  <2> QED BY <2>1 DEF EndsStay
<1> QED BY <1>1, <1>2 DEF ChannelInv

LEMMA OfferFacts ==
  ASSUME ChannelInv, NEW m, offer(m)
  PROVE  /\ m = offered + 1 /\ offered' = offered + 1 /\ offered' \in 0 .. MaxMessages
         /\ offered \in Nat /\ offered + 1 \in Messages /\ m \in Messages
  BY ChannelAssumption DEF ChannelInv, offer, Messages, ChannelAssumption

\* A call that parks: p joins the senders of c with message m, if it is one, and
\* the receivers of some channels.
Parks(n, r, p, c, m, w) ==
  /\ n.waiting[p] = "no" /\ r.waiting = [n.waiting EXCEPT ![p] = w]
  /\ r.values = n.values /\ r.taken = n.taken /\ r.closed = n.closed
  /\ \A d \in Channels : r.senders[d] = IF d = c /\ m # 0 THEN Append(n.senders[d], <<p, m>>)
                                        ELSE n.senders[d]
  /\ \A d \in Channels : Joins(n, r, p, m, w, d)
  /\ \A x \in Messages : r.fate[x] = IF x = m THEN "parked" ELSE n.fate[x]

LEMMA ParksKeepsSound ==
  ASSUME ChannelAssumption, NEW n, NEW k \in Nat, NEW l \in Nat, NEW r \in NetType,
         NEW p \in Callers, NEW c \in Channels, NEW m \in Messages \cup {0},
         NEW w \in {"plain", "select"}, NetSound(n, k), Parks(n, r, p, c, m, w),
         \/ m = 0 /\ l = k
         \/ m = k + 1 /\ l = k + 1
  PROVE  NetSound(r, l) /\ EndsStay(n, r)
<1>1. n \in NetType /\ MessagesSound(n, k) /\ CallersSound(n)
  BY DEF NetSound
<1>2. /\ n.waiting[p] = "no" /\ r.waiting = [n.waiting EXCEPT ![p] = w]
      /\ r.values = n.values /\ r.taken = n.taken /\ r.closed = n.closed
      /\ \A d \in Channels : r.senders[d] = IF d = c /\ m # 0 THEN Append(n.senders[d], <<p, m>>)
                                            ELSE n.senders[d]
      /\ \A d \in Channels : Joins(n, r, p, m, w, d)
      /\ \A x \in Messages : r.fate[x] = IF x = m THEN "parked" ELSE n.fate[x]
  BY DEF Parks
<1>3. \A d \in Channels : Held(r, d) = Held(n, d)
  BY <1>2 DEF Held
<1>4. MessagesSound(r, l)
  BY <1>1, <1>2, <1>3, ParkingKeepsMessages
<1>5. CallersSound(r)
  <2>1. Waits(n, r, p, w)
    BY <1>2 DEF Waits
  <2> QED BY <1>1, <1>2, <2>1, ParkingKeepsCallers
<1>6. EndsStay(n, r)
  BY <1>2 DEF EndsStay
<1> QED BY <1>4, <1>5, <1>6 DEF NetSound

LEMMA SendKeepsInv ==
  ASSUME ChannelInv, NEW p \in Callers, NEW c \in Channels, NEW m \in Messages, Send(p, c, m)
  PROVE  ChannelInv'
<1>1. NetSound(net, offered) /\ net \in NetType
  BY DEF ChannelInv, NetSound
<1>2. /\ m = offered + 1 /\ offered' = offered + 1 /\ offered' \in 0 .. MaxMessages
      /\ offered \in Nat /\ offered + 1 \in Messages
  BY OfferFacts DEF Send
<1>3. told' = told /\ net.waiting[p] = "no"
  BY DEF Send, Free
<1>4. NetSound(net', offered + 1) /\ EndsStay(net, net')
  <2>1. CASE net.closed[c]
    <3>1. net' = [net EXCEPT !.fate[offered + 1] = "failed"]
      BY <1>2, <2>1 DEF Send
    <3>2. LET r == [net EXCEPT !.fate[offered + 1] = "failed"] IN NetSound(r, offered + 1) /\ EndsStay(net, r)
      BY <1>1, <1>2, GivingUpKeepsSound
    <3> QED BY <3>1, <3>2
  <2>2. CASE ~net.closed[c] /\ canSend(net, c)
    <3>1. net' = trySend(net, c, offered + 1)
      BY <1>2, <2>2 DEF Send
    <3> QED BY <3>1, <2>2, <1>1, <1>2, TrySendKeepsSound, ChannelAssumption
  <2>3. CASE ~net.closed[c] /\ ~canSend(net, c)
    <3> DEFINE r == [net EXCEPT !.senders[c] = Append(@, <<p, m>>),
                                !.waiting[p] = "plain", !.fate[m] = "parked"]
    <3>1. net' = r
      BY <2>3 DEF Send
    <3>2. Append(net.senders[c], <<p, m>>) \in Seq(Callers \X Messages)
      <4>1. net.senders[c] \in Seq(Callers \X Messages) /\ <<p, m>> \in Callers \X Messages
        BY <1>1, NetParts
      <4> QED BY <4>1
    <3>3. /\ r \in NetType /\ r.waiting = [net.waiting EXCEPT ![p] = "plain"]
          /\ r.values = net.values /\ r.taken = net.taken /\ r.closed = net.closed
          /\ r.receivers = net.receivers
          /\ \A d \in Channels :
               r.senders[d] = IF d = c THEN Append(net.senders[d], <<p, m>>) ELSE net.senders[d]
          /\ \A x \in Messages : r.fate[x] = IF x = m THEN "parked" ELSE net.fate[x]
      BY <1>1, <3>2 DEF NetType
    <3> HIDE DEF r
    <3>4. m # 0
      BY DEF Messages
    <3>5. \A d \in Channels : Joins(net, r, p, m, "plain", d)
      BY <2>3, <3>3, <3>4 DEF Joins
    <3>6. Parks(net, r, p, c, m, "plain")
      BY <1>3, <3>3, <3>4, <3>5 DEF Parks
    <3>7. NetSound(r, offered + 1) /\ EndsStay(net, r)
      BY <1>1, <1>2, <3>3, <3>6, ParksKeepsSound, ChannelAssumption
    <3> QED BY <3>1, <3>7, <1>2
  <2> QED BY <2>1, <2>2, <2>3
<1> QED BY <1>2, <1>3, <1>4, CallKeepsInv

LEMMA TrySendKeepsInv ==
  ASSUME ChannelInv, NEW p \in Callers, NEW c \in Channels, NEW m \in Messages, TrySend(p, c, m)
  PROVE  ChannelInv'
<1>1. NetSound(net, offered)
  BY DEF ChannelInv
<1>2. /\ m = offered + 1 /\ offered' = offered + 1 /\ offered' \in 0 .. MaxMessages
      /\ offered \in Nat /\ offered + 1 \in Messages
  BY OfferFacts DEF TrySend
<1>3. told' = told
  BY DEF TrySend
<1>4. NetSound(net', offered + 1) /\ EndsStay(net, net')
  <2>1. CASE canSend(net, c)
    <3>1. net' = trySend(net, c, offered + 1)
      BY <1>2, <2>1 DEF TrySend
    <3> QED BY <3>1, <2>1, <1>1, <1>2, TrySendKeepsSound, ChannelAssumption
  <2>2. CASE ~canSend(net, c)
    <3>1. net' = [net EXCEPT !.fate[offered + 1] = "failed"]
      BY <1>2, <2>2 DEF TrySend
    <3>2. LET r == [net EXCEPT !.fate[offered + 1] = "failed"] IN NetSound(r, offered + 1) /\ EndsStay(net, r)
      BY <1>1, <1>2, GivingUpKeepsSound
    <3> QED BY <3>1, <3>2
  <2> QED BY <2>1, <2>2
<1> QED BY <1>2, <1>3, <1>4, CallKeepsInv

LEMMA ReceiveKeepsInv ==
  ASSUME ChannelInv, NEW p \in Callers, NEW c \in Channels, Receive(p, c) \/ TryReceive(p, c)
  PROVE  ChannelInv'
<1>1. NetSound(net, offered) /\ net \in NetType /\ offered \in Nat /\ offered \in 0 .. MaxMessages
  BY ChannelAssumption DEF ChannelInv, NetSound, ChannelAssumption
<1>2. tell(p, c) /\ offered' = offered /\ net.waiting[p] = "no"
  BY DEF Receive, TryReceive, Free
<1>3. NetSound(net', offered) /\ EndsStay(net, net')
  <2>1. CASE net' = tryReceive(net, c)
    BY <2>1, <1>1, TryReceiveKeepsSound, ChannelAssumption
  <2>2. CASE Receive(p, c) /\ ~canReceive(net, c)
    <3> DEFINE r == [net EXCEPT !.receivers[c] = Append(@, p), !.waiting[p] = "plain"]
    <3>1. net' = r
      BY <2>2 DEF Receive
    <3>2. Append(net.receivers[c], p) \in Seq(Callers)
      <4>1. net.receivers[c] \in Seq(Callers)
        BY <1>1, NetParts
      <4> QED BY <4>1
    <3>3. /\ r \in NetType /\ r.waiting = [net.waiting EXCEPT ![p] = "plain"]
          /\ r.values = net.values /\ r.taken = net.taken /\ r.closed = net.closed
          /\ r.senders = net.senders /\ r.fate = net.fate
          /\ r.receivers[c] = Append(net.receivers[c], p)
          /\ \A d \in Channels : d # c => r.receivers[d] = net.receivers[d]
      BY <1>1, <3>2 DEF NetType
    <3> HIDE DEF r
    <3>4. \A x \in Messages : x # 0
      BY DEF Messages
    <3>5. \A d \in Channels : Joins(net, r, p, 0, "plain", d)
      BY <2>2, <3>3 DEF Joins
    <3>6. Parks(net, r, p, c, 0, "plain")
      BY <1>2, <3>3, <3>4, <3>5 DEF Parks
    <3>7. NetSound(r, offered) /\ EndsStay(net, r)
      BY <1>1, <3>3, <3>6, ParksKeepsSound, ChannelAssumption
    <3> QED BY <3>1, <3>7
  <2> QED BY <2>1, <2>2 DEF Receive, TryReceive
<1> QED BY <1>1, <1>2, <1>3, CallKeepsInv

\* The cases of a select: at most one sends.
LEMMA CaseFacts ==
  ASSUME NEW cases \in Cases
  PROVE  /\ DOMAIN cases \subseteq Channels /\ DOMAIN cases # {}
         /\ \A c \in DOMAIN cases : cases[c] \in {"receive", "send"}
         /\ \A c, d \in SendCase(cases) : c = d
<1>1. PICK S \in (SUBSET Channels) \ {{}} :
        cases \in {f \in [S -> {"receive", "send"}] :
                     \A c, d \in S : f[c] = "send" /\ f[d] = "send" => c = d}
  BY DEF Cases
<1>2. cases \in [S -> {"receive", "send"}] /\ S \subseteq Channels /\ S # {}
  BY <1>1
<1>3. DOMAIN cases = S /\ \A c \in S : cases[c] \in {"receive", "send"}
  BY <1>2
<1>4. \A c, d \in S : cases[c] = "send" /\ cases[d] = "send" => c = d
  BY <1>1
<1> QED BY <1>2, <1>3, <1>4 DEF SendCase

\* What a select offers: nothing, or the next message.
LEMMA OfferOfFacts ==
  ASSUME ChannelInv, NEW cases \in Cases, NEW m, offerOf(cases, m)
  PROVE  /\ offered \in Nat /\ offered' \in Nat /\ offered' \in 0 .. MaxMessages
         /\ \/ m = 0 /\ offered' = offered /\ SendCase(cases) = {}
            \/ /\ m = offered + 1 /\ offered' = offered + 1 /\ SendCase(cases) # {}
               /\ offered + 1 \in Messages
<1>1. offered \in 0 .. MaxMessages /\ offered \in Nat
  BY ChannelAssumption DEF ChannelInv, ChannelAssumption
<1>2. CASE SendCase(cases) = {}
  BY <1>1, <1>2 DEF offerOf
<1>3. CASE SendCase(cases) # {}
  BY <1>1, <1>3, OfferFacts DEF offerOf
<1> QED BY <1>2, <1>3

LEMMA SelectReadyKeepsInv ==
  ASSUME ChannelInv, NEW p \in Callers, NEW cases \in Cases, NEW m, SelectReady(p, cases, m)
  PROVE  ChannelInv'
<1>1. NetSound(net, offered)
  BY DEF ChannelInv
<1>2. /\ offered \in Nat /\ offered' \in Nat /\ offered' \in 0 .. MaxMessages
      /\ \/ m = 0 /\ offered' = offered /\ SendCase(cases) = {}
         \/ /\ m = offered + 1 /\ offered' = offered + 1 /\ SendCase(cases) # {}
            /\ offered + 1 \in Messages
  BY OfferOfFacts DEF SelectReady
<1>3. PICK c \in ReadyCases(cases) :
        IF cases[c] = "receive"
        THEN net' = withdraw(tryReceive(net, c), m) /\ tell(p, c)
        ELSE net' = trySend(net, c, m) /\ UNCHANGED told
  BY DEF SelectReady
<1>4. c \in Channels /\ c \in DOMAIN cases /\ cases[c] \in {"receive", "send"}
  BY CaseFacts DEF ReadyCases
<1>5. CASE cases[c] = "receive"
  <2> DEFINE r == tryReceive(net, c)
  <2>1. net' = withdraw(r, m) /\ tell(p, c)
    BY <1>3, <1>5
  <2>2. NetSound(r, offered) /\ EndsStay(net, r)
    BY <1>1, <1>2, <1>4, TryReceiveKeepsSound, ChannelAssumption
  <2> HIDE DEF r
  <2>3. NetSound(withdraw(r, m), offered') /\ EndsStay(r, withdraw(r, m))
    BY <1>2, <2>2, WithdrawKeepsSound
  <2>4. EndsStay(net, net')
    BY <2>1, <2>2, <2>3, SoundStays
  <2> QED BY <1>2, <1>4, <2>1, <2>3, <2>4, CallKeepsInv
<1>6. CASE cases[c] # "receive"
  <2>1. canSend(net, c) /\ c \in SendCase(cases)
    BY <1>3, <1>4, <1>6 DEF ReadyCases, SendCase
  <2>2. net' = trySend(net, c, offered + 1) /\ told' = told /\ offered' = offered + 1
    BY <1>2, <1>3, <1>6, <2>1
  <2>3. NetSound(net', offered + 1) /\ EndsStay(net, net')
    BY <1>1, <1>2, <1>4, <2>1, <2>2, TrySendKeepsSound, ChannelAssumption
  <2> QED BY <1>2, <2>2, <2>3, CallKeepsInv
<1> QED BY <1>5, <1>6

LEMMA SelectDefaultKeepsInv ==
  ASSUME ChannelInv, NEW p \in Callers, NEW cases \in Cases, NEW m, SelectDefault(p, cases, m)
  PROVE  ChannelInv'
<1>1. NetSound(net, offered)
  BY DEF ChannelInv
<1>2. /\ offered \in Nat /\ offered' \in Nat /\ offered' \in 0 .. MaxMessages
      /\ \/ m = 0 /\ offered' = offered
         \/ m = offered + 1 /\ offered' = offered + 1 /\ offered + 1 \in Messages
  BY OfferOfFacts DEF SelectDefault
<1>3. net' = withdraw(net, m) /\ told' = told
  BY DEF SelectDefault
<1>4. NetSound(net', offered') /\ EndsStay(net, net')
  BY <1>1, <1>2, <1>3, WithdrawKeepsSound
<1> QED BY <1>2, <1>3, <1>4, CallKeepsInv

LEMMA SelectParksKeepsInv ==
  ASSUME ChannelInv, NEW p \in Callers, NEW cases \in Cases, NEW m \in 0 .. MaxMessages,
         SelectParks(p, cases, m)
  PROVE  ChannelInv'
<1> DEFINE in == DOMAIN cases \ SendCase(cases)
           w  == [net.waiting EXCEPT ![p] = "select"]
           rs == [c \in Channels |-> IF c \in in THEN Append(net.receivers[c], p) ELSE net.receivers[c]]
           ss == [c \in Channels |-> IF c \in SendCase(cases)
                                     THEN Append(net.senders[c], <<p, m>>) ELSE net.senders[c]]
           f  == [x \in Messages |-> IF x = m THEN "parked" ELSE net.fate[x]]
           r  == [net EXCEPT !.waiting = w, !.receivers = rs, !.senders = ss, !.fate = f]
<1>1. NetSound(net, offered) /\ net \in NetType
  BY DEF ChannelInv, NetSound
<1>2. /\ offered \in Nat /\ offered' \in Nat /\ offered' \in 0 .. MaxMessages
      /\ \/ m = 0 /\ offered' = offered /\ SendCase(cases) = {}
         \/ /\ m = offered + 1 /\ offered' = offered + 1 /\ SendCase(cases) # {}
            /\ offered + 1 \in Messages
  BY OfferOfFacts DEF SelectParks
<1>3. /\ net.waiting[p] = "no" /\ told' = told /\ ReadyCases(cases) = {}
  BY DEF SelectParks, Free
<1>4. net' = [net EXCEPT !.waiting[p] = "select", !.receivers = rs, !.senders = ss, !.fate = f]
  BY DEF SelectParks
<1>5. net' = r
  BY <1>1, <1>4 DEF NetType
<1>6. w \in [Callers -> {"no", "plain", "select"}] /\ f \in [Messages -> {"none", "parked", "sent", "failed", "withdrawn"}]
  BY <1>1 DEF NetType
<1>7. rs \in [Channels -> Seq(Callers)]
  <2>1. \A c \in Channels : Append(net.receivers[c], p) \in Seq(Callers) /\ net.receivers[c] \in Seq(Callers)
    <3> TAKE c \in Channels
    <3>1. net.receivers[c] \in Seq(Callers)
      BY <1>1, NetParts
    <3> QED BY <3>1
  <2> QED BY <2>1
<1>8. ss \in [Channels -> Seq(Callers \X Messages)]
  <2>1. ASSUME NEW c \in SendCase(cases), c \in Channels
        PROVE  Append(net.senders[c], <<p, m>>) \in Seq(Callers \X Messages)
    <3>1. net.senders[c] \in Seq(Callers \X Messages)
      BY <1>1, <2>1, NetParts
    <3>2. <<p, m>> \in Callers \X Messages
      BY <1>2
    <3> QED BY <3>1, <3>2
  <2>2. \A c \in Channels : net.senders[c] \in Seq(Callers \X Messages)
    BY <1>1, NetParts
  <2> QED BY <2>1, <2>2
<1>9. /\ \A c \in Channels :
           /\ rs[c] = IF c \in in THEN Append(net.receivers[c], p) ELSE net.receivers[c]
           /\ ss[c] = IF c \in SendCase(cases) THEN Append(net.senders[c], <<p, m>>) ELSE net.senders[c]
      /\ \A x \in Messages : f[x] = IF x = m THEN "parked" ELSE net.fate[x]
  OBVIOUS
<1> HIDE DEF rs, ss, f
<1>10. /\ r \in NetType /\ r.waiting = w /\ r.receivers = rs /\ r.senders = ss /\ r.fate = f
       /\ r.values = net.values /\ r.taken = net.taken /\ r.closed = net.closed
  BY <1>1, <1>6, <1>7, <1>8 DEF NetType
<1> HIDE DEF r
<1>11. /\ DOMAIN cases \subseteq Channels /\ DOMAIN cases # {}
       /\ \A c \in DOMAIN cases : cases[c] \in {"receive", "send"}
       /\ \A c, d \in SendCase(cases) : c = d
       /\ SendCase(cases) \subseteq DOMAIN cases
  BY CaseFacts DEF SendCase
<1>12. PICK c \in Channels : SendCase(cases) # {} => SendCase(cases) = {c}
  BY <1>11
<1>13. \A d \in DOMAIN cases :
         /\ d \in SendCase(cases) => ~canSend(net, d)
         /\ d \notin SendCase(cases) => ~canReceive(net, d)
  BY <1>3, <1>11 DEF ReadyCases, SendCase
<1>14. /\ m \in Messages \cup {0}
       /\ SendCase(cases) # {} <=> m # 0
  BY <1>2
<1>15. \A d \in Channels : Joins(net, r, p, m, "select", d)
  <2> TAKE d \in Channels
  <2>1. CASE d \in SendCase(cases)
    BY <2>1, <1>9, <1>10, <1>11, <1>13, <1>14 DEF Joins
  <2>2. CASE d \in in
    BY <2>2, <1>9, <1>10, <1>13 DEF Joins
  <2>3. CASE d \notin DOMAIN cases
    BY <2>3, <1>9, <1>10, <1>11 DEF Joins
  <2> QED BY <2>1, <2>2, <2>3
<1>16. \A d \in Channels : r.senders[d] = IF d = c /\ m # 0 THEN Append(net.senders[d], <<p, m>>)
                                          ELSE net.senders[d]
  BY <1>9, <1>10, <1>12, <1>14
<1>17. Parks(net, r, p, c, m, "select")
  BY <1>3, <1>9, <1>10, <1>15, <1>16 DEF Parks
<1>18. NetSound(r, offered') /\ EndsStay(net, r)
  BY <1>1, <1>2, <1>10, <1>14, <1>17, ParksKeepsSound, ChannelAssumption
<1> QED BY <1>2, <1>3, <1>5, <1>18, CallKeepsInv

LEMMA CloseKeepsInv ==
  ASSUME ChannelInv, NEW c \in Channels, Close(c)
  PROVE  ChannelInv'
<1>1. NetSound(net, offered) /\ net \in NetType /\ CallersSound(net)
      /\ offered \in Nat /\ offered \in 0 .. MaxMessages
  BY ChannelAssumption DEF ChannelInv, NetSound, ChannelAssumption
<1>2. /\ ~net.closed[c] /\ offered' = offered /\ net' = closing(net, c)
      /\ told' = [told EXCEPT ![c] = @ \cup entries(net.receivers[c])]
  BY DEF Close, closing
<1>3. NetSound(net', offered) /\ EndsStay(net, net') /\ net'.closed[c] /\ net'.values = net.values
  BY <1>1, <1>2, CloseKeepsSound
<1>4. told' \in [Channels -> SUBSET Callers]
  <2>1. net.receivers[c] \in Seq(Callers)
    BY <1>1, NetParts
  <2>2. entries(net.receivers[c]) \subseteq Callers
    BY <2>1 DEF entries
  <2> QED BY <1>2, <2>2 DEF ChannelInv
<1>5. EndComesLast'
  <2> SUFFICES ASSUME NEW d \in Channels, told'[d] # {}
               PROVE  net'.closed[d] /\ net'.values[d] = <<>>
    BY DEF EndComesLast
  <2>1. CASE told[d] # {}
    BY <2>1, <1>3 DEF ChannelInv, EndComesLast, EndsStay
  <2>2. CASE told[d] = {}
    <3>1. d = c /\ entries(net.receivers[c]) # {}
      BY <1>2, <2>2 DEF ChannelInv
    <3>2. net.receivers[c] # <<>>
      BY <3>1 DEF entries
    <3> QED BY <1>1, <1>3, <3>1, <3>2 DEF CallersSound
  <2> QED BY <2>1, <2>2
<1> QED BY <1>1, <1>2, <1>3, <1>4, <1>5 DEF ChannelInv

LEMMA ChannelStep == ChannelInv /\ [ChannelNext]_channelVars => ChannelInv'
<1> SUFFICES ASSUME ChannelInv, [ChannelNext]_channelVars PROVE ChannelInv'
  OBVIOUS
<1>1. ASSUME NEW p \in Callers, NEW c \in Channels, NEW m \in Messages, Send(p, c, m)
      PROVE  ChannelInv'
  BY <1>1, SendKeepsInv
<1>2. ASSUME NEW p \in Callers, NEW c \in Channels, NEW m \in Messages, TrySend(p, c, m)
      PROVE  ChannelInv'
  BY <1>2, TrySendKeepsInv
<1>3. ASSUME NEW p \in Callers, NEW c \in Channels, Receive(p, c) \/ TryReceive(p, c)
      PROVE  ChannelInv'
  BY <1>3, ReceiveKeepsInv
<1>4. ASSUME NEW p \in Callers, NEW cases \in Cases, NEW m \in 0 .. MaxMessages,
             SelectReady(p, cases, m)
      PROVE  ChannelInv'
  BY <1>4, SelectReadyKeepsInv
<1>5. ASSUME NEW p \in Callers, NEW cases \in Cases, NEW m \in 0 .. MaxMessages,
             SelectDefault(p, cases, m)
      PROVE  ChannelInv'
  BY <1>5, SelectDefaultKeepsInv
<1>6. ASSUME NEW p \in Callers, NEW cases \in Cases, NEW m \in 0 .. MaxMessages,
             SelectParks(p, cases, m)
      PROVE  ChannelInv'
  BY <1>6, SelectParksKeepsInv
<1>7. ASSUME NEW c \in Channels, Close(c) PROVE ChannelInv'
  BY <1>7, CloseKeepsInv
<1>8. CASE UNCHANGED channelVars
  BY <1>8 DEF channelVars, ChannelInv, EndComesLast
<1> QED BY <1>1, <1>2, <1>3, <1>4, <1>5, <1>6, <1>7, <1>8 DEF ChannelNext

----
(* What the channels promise.                                              *)

\* The line of a channel: what it holds, then the messages at its door.
LEMMA LineInOrder ==
  ASSUME NEW n \in NetType, InOrder(n), NEW c \in Channels
  PROVE  LET line == Held(n, c) \o [i \in DOMAIN n.senders[c] |-> n.senders[c][i][2]]
         IN  \A i, j \in DOMAIN line : i < j => line[i] < line[j]
<1> DEFINE h == Held(n, c)
           q == n.senders[c]
           w == [i \in DOMAIN q |-> q[i][2]]
<1>1. h \in Seq(Messages) /\ q \in Seq(Callers \X Messages) /\ \A i \in DOMAIN q : q[i][2] \in Messages
  BY NetParts
<1>2. Rising(h) /\ Before(h, q) /\ InLine(q)
  BY DEF InOrder
<1> HIDE DEF h, q
<1>3. DOMAIN q = 1 .. Len(q) /\ Len(q) \in Nat /\ DOMAIN h = 1 .. Len(h) /\ Len(h) \in Nat
  BY <1>1
<1>4. w \in Seq(Messages) /\ Len(w) = Len(q) /\ \A i \in 1 .. Len(q) : w[i] = q[i][2]
  BY <1>1, <1>3
<1> HIDE DEF w
<1>5. /\ DOMAIN (h \o w) = 1 .. Len(h) + Len(q)
      /\ \A i \in 1 .. Len(h) : (h \o w)[i] = h[i]
      /\ \A i \in 1 .. Len(h) + Len(q) : i > Len(h) => (h \o w)[i] = w[i - Len(h)]
  <2>1. h \o w \in Seq(Messages) /\ Len(h \o w) = Len(h) + Len(w)
    BY <1>1, <1>4
  <2>2. DOMAIN (h \o w) = 1 .. Len(h) + Len(q)
    BY <2>1, <1>4
  <2>3. /\ \A i \in 1 .. Len(h) : (h \o w)[i] = h[i]
        /\ \A i \in 1 .. Len(h) + Len(w) : i > Len(h) => (h \o w)[i] = w[i - Len(h)]
    BY <1>1, <1>4
  <2> QED BY <2>2, <2>3, <1>4
<1>6. ASSUME NEW i \in 1 .. Len(h) + Len(q), NEW j \in 1 .. Len(h) + Len(q), i < j
      PROVE  (h \o w)[i] < (h \o w)[j]
  <2>1. CASE j <= Len(h)
    <3>1. i \in DOMAIN h /\ j \in DOMAIN h
      BY <2>1, <1>3, <1>6
    <3>2. (h \o w)[i] = h[i] /\ (h \o w)[j] = h[j]
      BY <3>1, <1>3, <1>5
    <3> QED BY <3>1, <3>2, <1>2, <1>6 DEF Rising
  <2>2. CASE i <= Len(h) /\ j > Len(h)
    <3>1. i \in DOMAIN h /\ j - Len(h) \in DOMAIN q
      BY <2>2, <1>3
    <3>2. (h \o w)[i] = h[i] /\ (h \o w)[j] = q[j - Len(h)][2]
      <4>1. (h \o w)[j] = w[j - Len(h)]
        BY <2>2, <1>5
      <4> QED BY <4>1, <3>1, <1>3, <1>4, <1>5
    <3> QED BY <3>1, <3>2, <1>2 DEF Before
  <2>3. CASE i > Len(h)
    <3>1. i - Len(h) \in DOMAIN q /\ j - Len(h) \in DOMAIN q /\ i - Len(h) < j - Len(h) /\ j > Len(h)
      BY <2>3, <1>3, <1>6
    <3>2. (h \o w)[i] = q[i - Len(h)][2] /\ (h \o w)[j] = q[j - Len(h)][2]
      <4>1. (h \o w)[i] = w[i - Len(h)] /\ (h \o w)[j] = w[j - Len(h)]
        BY <2>3, <3>1, <1>5
      <4> QED BY <4>1, <3>1, <1>3, <1>4
    <3> QED BY <3>1, <3>2, <1>2 DEF InLine
  <2>4. i \in Nat /\ j \in Nat
    BY <1>3
  <2>5. j <= Len(h) \/ (i <= Len(h) /\ j > Len(h)) \/ i > Len(h)
    BY <2>4, <1>3
  <2> QED BY <2>1, <2>2, <2>3, <2>5
<1> QED BY <1>5, <1>6 DEF h, q, w

LEMMA ChannelInvPromises == ChannelInv => ChannelIsSound
<1> SUFFICES ASSUME ChannelInv PROVE ChannelIsSound
  OBVIOUS
<1>1. /\ net \in NetType /\ InOrder(net) /\ FatesHold(net, offered) /\ CallersSound(net)
      /\ EndComesLast /\ offered \in 0 .. MaxMessages /\ told \in [Channels -> SUBSET Callers]
  BY DEF ChannelInv, NetSound, MessagesSound
<1>2. ChannelTypeOK
  BY <1>1 DEF ChannelTypeOK, CallersSound
<1>3. FirstInFirstOut
  <2> SUFFICES ASSUME NEW c \in Channels
               PROVE  \A i, j \in DOMAIN Line(c) : i < j => Line(c)[i] < Line(c)[j]
    BY DEF FirstInFirstOut
  <2>1. Line(c) = Held(net, c) \o [i \in DOMAIN net.senders[c] |-> net.senders[c][i][2]]
    <3> DEFINE s == net.taken[c]
               t == net.values[c]
               w == [i \in DOMAIN net.senders[c] |-> net.senders[c][i][2]]
    <3>1. Line(c) = s \o t \o w /\ Held(net, c) = s \o t
      BY DEF Line, Held
    <3> QED BY <3>1
  <2> HIDE DEF Line
  <2> QED BY <1>1, <2>1, LineInOrder
<1>4. NothingLostNothingLeaked
  <2> SUFFICES ASSUME NEW m \in Messages
               PROVE  /\ net.fate[m] = "sent" <=> m \in Delivered
                      /\ net.fate[m] = "parked" <=> m \in Parked
    BY DEF NothingLostNothingLeaked
  <2>1. /\ net.fate[m] = "sent" <=> IsHeld(net, m)
        /\ net.fate[m] = "parked" <=> IsParked(net, m)
    BY <1>1 DEF FatesHold
  <2>2. m \in Delivered <=> IsHeld(net, m)
    <3>1. m \in Delivered <=> \E c \in Channels : m \in entries(Held(net, c))
      BY DEF Delivered, Held
    <3>2. ASSUME NEW c \in Channels
          PROVE  m \in entries(Held(net, c)) <=> \E i \in DOMAIN Held(net, c) : Held(net, c)[i] = m
      BY DEF entries
    <3> QED BY <3>1, <3>2 DEF IsHeld
  <2>3. m \in Parked <=> IsParked(net, m)
    BY DEF Parked, IsParked, entries
  <2> QED BY <2>1, <2>2, <2>3
<1>5. NobodySleepsBesideWork
  BY <1>1 DEF NobodySleepsBesideWork, CallersSound, entries
<1>6. OnlyWaitersAreRegistered
  BY <1>1 DEF OnlyWaitersAreRegistered, CallersSound, entries
<1> QED BY <1>1, <1>2, <1>3, <1>4, <1>5, <1>6 DEF ChannelIsSound

\* For every set of channels and callers, every capacity and every number of
\* messages: what is sent on a channel comes out once, in the order of the
\* sends, or its sender is told it did not; nobody is parked beside what he
\* waits for, and nobody who has gone is registered; and the end of a closed
\* channel comes after everything it held (send, receive, select, close).
THEOREM ChannelSoundness == ChannelSpec => []ChannelIsSound
<1>1. ChannelInit => ChannelInv
  BY ChannelStarts
<1>2. ChannelInv /\ [ChannelNext]_channelVars => ChannelInv'
  BY ChannelStep
<1>3. ChannelInv => ChannelIsSound
  BY ChannelInvPromises
<1> QED BY <1>1, <1>2, <1>3, PTL DEF ChannelSpec

----
(* Clock: tasks.                                                           *)

TaskType == [handle : Nat, due : Nat, interval : Nat, calls : Int, fires : Int]
StepType == {NoStep} \cup [from : Nat, to : Nat, resume : BOOLEAN]
CallsOf(ts) == {t.calls : t \in ts}

\* Nothing is called by two tasks but promises that are resolved, and only the
\* Ticker's task is an interval.
Booked(ts) ==
    /\ \A t \in ts : t.calls = TheTicker <=> t.interval # 0
    /\ \A s, t \in ts : s.calls = t.calls /\ s.calls # Resolve => s = t

TimesTyped ==
    /\ wall \in Nat /\ simulatedNow \in Nat /\ startedAt \in Nat /\ startedAt <= wall
    /\ paused \in BOOLEAN /\ flush \in BOOLEAN /\ microtasks \in Nat /\ handles \in Nat
    /\ step \in StepType /\ tasks \subseteq TaskType

\* A clock that steps is paused, is not past the step's end, and has run nothing yet
\* or is not past a task that waits.
StepInOrder ==
    step # NoStep =>
        /\ paused /\ simulatedNow <= step.to
        /\ (\A t \in tasks : t.due >= simulatedNow) \/ simulatedNow = step.from

TimesInv ==
    TimesTyped /\ HostTimersAreRight /\ MicrotasksAreServed /\ StepInOrder /\ Booked(tasks)

LEMMA NowIsNumber ==
    ASSUME TimesTyped
    PROVE  nowMs \in Nat
  BY DEF TimesTyped, nowMs

LEMMA ScheduleFacts ==
    ASSUME NEW t \in TaskType, NEW now \in Nat, NEW runs \in BOOLEAN, wall \in Nat
    PROVE  /\ scheduleTask(t, now, runs) \in TaskType
           /\ scheduleTask(t, now, runs).due = t.due /\ scheduleTask(t, now, runs).calls = t.calls
           /\ scheduleTask(t, now, runs).interval = t.interval
           /\ scheduleTask(t, now, runs).fires =
                  IF runs THEN wall + Later(0, t.due - now) ELSE NotSet
<1> DEFINE f == IF runs THEN wall + Later(0, t.due - now) ELSE NotSet
<1>1. f \in Int
  BY DEF TaskType, Later, NotSet
<1> HIDE DEF f
<1>2. scheduleTask(t, now, runs) = [t EXCEPT !.fires = f]
  BY DEF scheduleTask, f
<1>3. /\ [t EXCEPT !.fires = f] \in TaskType /\ [t EXCEPT !.fires = f].due = t.due
      /\ [t EXCEPT !.fires = f].calls = t.calls /\ [t EXCEPT !.fires = f].interval = t.interval
      /\ [t EXCEPT !.fires = f].fires = f
  BY <1>1 DEF TaskType
<1> QED BY <1>2, <1>3 DEF f

\* A task that runs is with the host for its time.
OnTime(t, p, sim, start, now) ==
    IF p THEN t.fires = NotSet
    ELSE /\ t.fires # NotSet /\ t.due <= sim + (t.fires - start)
         /\ sim + (t.fires - start) <= Later(t.due, now)

LEMMA HostTimersMeans ==
    /\ HostTimersAreRight <=> \A t \in tasks : OnTime(t, paused, simulatedNow, startedAt, nowMs)
    /\ HostTimersAreRight' <=> \A t \in tasks' : OnTime(t, paused', simulatedNow', startedAt', nowMs')
  BY DEF HostTimersAreRight, OnTime

LEMMA ScheduledIsOnTime ==
    ASSUME TimesTyped, NEW t \in TaskType
    PROVE  /\ OnTime(scheduleTask(t, nowMs, ~paused), paused, simulatedNow, startedAt, nowMs)
           /\ \A sim \in Nat :
                 OnTime(scheduleTask(t, sim, TRUE), FALSE, sim, wall, sim)
           /\ \A sim, start, now \in Nat : OnTime(unscheduleTask(t), TRUE, sim, start, now)
<1>1. /\ wall \in Nat /\ simulatedNow \in Nat /\ startedAt \in Nat /\ startedAt <= wall
      /\ paused \in BOOLEAN /\ nowMs \in Nat /\ t.due \in Nat
  BY NowIsNumber DEF TimesTyped, TaskType
<1>2. OnTime(scheduleTask(t, nowMs, ~paused), paused, simulatedNow, startedAt, nowMs)
  <2> DEFINE s == scheduleTask(t, nowMs, ~paused)
  <2>1. s.due = t.due /\ s.fires = IF ~paused THEN wall + Later(0, t.due - nowMs) ELSE NotSet
    BY <1>1, ScheduleFacts
  <2> HIDE DEF s
  <2>2. OnTime(s, paused, simulatedNow, startedAt, nowMs)
    <3>1. CASE paused
      BY <2>1, <3>1 DEF OnTime
    <3>2. CASE ~paused
      <4>1. nowMs = simulatedNow + (wall - startedAt) /\ s.fires = wall + Later(0, t.due - nowMs)
        BY <2>1, <3>2 DEF nowMs
      <4> QED BY <1>1, <2>1, <3>2, <4>1 DEF OnTime, Later, NotSet
    <3> QED BY <3>1, <3>2
  <2> QED BY <2>2 DEF s
<1>3. ASSUME NEW sim \in Nat PROVE OnTime(scheduleTask(t, sim, TRUE), FALSE, sim, wall, sim)
  <2> DEFINE s == scheduleTask(t, sim, TRUE)
  <2>1. s.due = t.due /\ s.fires = wall + Later(0, t.due - sim)
    BY <1>1, ScheduleFacts
  <2> HIDE DEF s
  <2>2. OnTime(s, FALSE, sim, wall, sim)
    BY <1>1, <2>1 DEF OnTime, Later, NotSet
  <2> QED BY <2>2 DEF s
<1>4. unscheduleTask(t).fires = NotSet
  BY DEF unscheduleTask, TaskType
<1> QED BY <1>2, <1>3, <1>4 DEF OnTime

\* The clock hands its tasks over to the host, or takes them back.
LEMMA HandoverFacts ==
    ASSUME TimesTyped, Booked(tasks), NEW now \in Nat
    PROVE  /\ Scheduled(tasks, now) \subseteq TaskType /\ Unscheduled(tasks) \subseteq TaskType
           /\ CallsOf(Scheduled(tasks, now)) = CallsOf(tasks)
           /\ CallsOf(Unscheduled(tasks)) = CallsOf(tasks)
           /\ Booked(Scheduled(tasks, now)) /\ Booked(Unscheduled(tasks))
           /\ \A s \in Scheduled(tasks, now) \cup Unscheduled(tasks) : \E t \in tasks : s.due = t.due
           /\ \A s \in Scheduled(tasks, now) : OnTime(s, FALSE, now, wall, now)
           /\ \A s \in Unscheduled(tasks) : \A sim, start, n \in Nat : OnTime(s, TRUE, sim, start, n)
<1>1. tasks \subseteq TaskType /\ wall \in Nat
  BY DEF TimesTyped
<1>2. \A t \in tasks : LET s == scheduleTask(t, now, TRUE) IN
          s \in TaskType /\ s.due = t.due /\ s.calls = t.calls /\ s.interval = t.interval
  BY <1>1, ScheduleFacts
<1>3. \A t \in tasks : LET s == unscheduleTask(t) IN
          s \in TaskType /\ s.due = t.due /\ s.calls = t.calls /\ s.interval = t.interval
  BY <1>1 DEF unscheduleTask, TaskType, NotSet
<1>4. \A t \in tasks : OnTime(scheduleTask(t, now, TRUE), FALSE, now, wall, now)
  BY <1>1, ScheduledIsOnTime
<1>5. \A t \in tasks : \A sim, start, n \in Nat : OnTime(unscheduleTask(t), TRUE, sim, start, n)
  BY <1>1, ScheduledIsOnTime
<1>6. Booked(Scheduled(tasks, now))
  <2>1. ASSUME NEW t \in Scheduled(tasks, now) PROVE t.calls = TheTicker <=> t.interval # 0
    <3>1. PICK a \in tasks : t = scheduleTask(a, now, TRUE)
      BY DEF Scheduled
    <3> QED BY <3>1, <1>2 DEF Booked
  <2>2. ASSUME NEW s \in Scheduled(tasks, now), NEW t \in Scheduled(tasks, now),
               s.calls = t.calls, s.calls # Resolve
        PROVE  s = t
    <3>1. PICK a \in tasks : s = scheduleTask(a, now, TRUE)
      BY DEF Scheduled
    <3>2. PICK b \in tasks : t = scheduleTask(b, now, TRUE)
      BY DEF Scheduled
    <3>3. a.calls = b.calls /\ a.calls # Resolve
      BY <2>2, <3>1, <3>2, <1>2
    <3> QED BY <3>1, <3>2, <3>3 DEF Booked
  <2> QED BY <2>1, <2>2 DEF Booked
<1>7. Booked(Unscheduled(tasks))
  <2>1. ASSUME NEW t \in Unscheduled(tasks) PROVE t.calls = TheTicker <=> t.interval # 0
    <3>1. PICK a \in tasks : t = unscheduleTask(a)
      BY DEF Unscheduled
    <3> QED BY <3>1, <1>3 DEF Booked
  <2>2. ASSUME NEW s \in Unscheduled(tasks), NEW t \in Unscheduled(tasks),
               s.calls = t.calls, s.calls # Resolve
        PROVE  s = t
    <3>1. PICK a \in tasks : s = unscheduleTask(a)
      BY DEF Unscheduled
    <3>2. PICK b \in tasks : t = unscheduleTask(b)
      BY DEF Unscheduled
    <3>3. a.calls = b.calls /\ a.calls # Resolve
      BY <2>2, <3>1, <3>2, <1>3
    <3> QED BY <3>1, <3>2, <3>3 DEF Booked
  <2> QED BY <2>1, <2>2 DEF Booked
<1>8. CallsOf(Scheduled(tasks, now)) = CallsOf(tasks) /\ CallsOf(Unscheduled(tasks)) = CallsOf(tasks)
  <2>1. ASSUME NEW n PROVE n \in CallsOf(Scheduled(tasks, now)) <=> n \in CallsOf(tasks)
    <3>1. ASSUME NEW t \in tasks PROVE scheduleTask(t, now, TRUE).calls = t.calls
      BY <1>2
    <3>2. n \in CallsOf(Scheduled(tasks, now)) <=> \E t \in tasks : n = scheduleTask(t, now, TRUE).calls
      BY DEF CallsOf, Scheduled
    <3> QED BY <3>1, <3>2 DEF CallsOf
  <2>2. ASSUME NEW n PROVE n \in CallsOf(Unscheduled(tasks)) <=> n \in CallsOf(tasks)
    <3>1. ASSUME NEW t \in tasks PROVE unscheduleTask(t).calls = t.calls
      BY <1>3
    <3>2. n \in CallsOf(Unscheduled(tasks)) <=> \E t \in tasks : n = unscheduleTask(t).calls
      BY DEF CallsOf, Unscheduled
    <3> QED BY <3>1, <3>2 DEF CallsOf
  <2> QED BY <2>1, <2>2
<1>9. \A s \in Scheduled(tasks, now) \cup Unscheduled(tasks) : \E t \in tasks : s.due = t.due
  BY <1>2, <1>3 DEF Scheduled, Unscheduled
<1>10. Scheduled(tasks, now) \subseteq TaskType /\ Unscheduled(tasks) \subseteq TaskType
  BY <1>2, <1>3 DEF Scheduled, Unscheduled
<1>11. /\ \A s \in Scheduled(tasks, now) : OnTime(s, FALSE, now, wall, now)
       /\ \A s \in Unscheduled(tasks) : \A sim, start, n \in Nat : OnTime(s, TRUE, sim, start, n)
  BY <1>4, <1>5 DEF Scheduled, Unscheduled
<1> QED BY <1>6, <1>7, <1>8, <1>9, <1>10, <1>11

\* clearTimeout and clearInterval.
LEMMA WithoutFacts ==
    ASSUME Booked(tasks), NEW calls
    PROVE  /\ Without(calls) \subseteq tasks /\ Booked(Without(calls))
           /\ CallsOf(Without(calls)) = CallsOf(tasks) \ calls
  BY DEF Booked, CallsOf, Without

\* setTimeout and setInterval, of what no other task calls.
LEMMA SetTaskFacts ==
    ASSUME TimesInv, NEW ts \in SUBSET tasks, NEW calls \in Int, NEW delay \in Nat, NEW interval \in Nat,
           SetTask(ts, calls, delay, interval),
           calls = Resolve \/ calls \notin CallsOf(ts), calls = TheTicker <=> interval # 0,
           UNCHANGED <<timeVars, microtasks, flush, step>>
    PROVE  TimesInv' /\ CallsOf(tasks') = CallsOf(ts) \cup {calls}
<1> DEFINE bare == [handle |-> handles + 1, due |-> nowMs + delay, interval |-> interval,
                    calls |-> calls, fires |-> NotSet]
           t    == NewTask(calls, delay, interval)
<1>1. /\ wall \in Nat /\ simulatedNow \in Nat /\ paused \in BOOLEAN /\ nowMs \in Nat
      /\ handles \in Nat /\ tasks \subseteq TaskType /\ TimesTyped /\ startedAt <= wall /\ startedAt \in Nat
  BY NowIsNumber DEF TimesInv, TimesTyped
<1>2. bare \in TaskType /\ bare.due = nowMs + delay /\ bare.calls = calls /\ bare.interval = interval
  BY <1>1 DEF TaskType, NotSet
<1>3. t = scheduleTask(bare, nowMs, ~paused)
  BY DEF NewTask
<1> HIDE DEF bare, t
<1>4. /\ t \in TaskType /\ t.due = nowMs + delay /\ t.calls = calls /\ t.interval = interval
      /\ OnTime(t, paused, simulatedNow, startedAt, nowMs)
  BY <1>1, <1>2, <1>3, ScheduleFacts, ScheduledIsOnTime
<1>5. tasks' = ts \cup {t} /\ handles' = handles + 1
  BY DEF SetTask, t
<1>6. /\ wall' = wall /\ simulatedNow' = simulatedNow /\ startedAt' = startedAt /\ paused' = paused
      /\ microtasks' = microtasks /\ flush' = flush /\ step' = step /\ nowMs' = nowMs
  BY DEF timeVars, nowMs
<1>7. TimesTyped'
  BY <1>1, <1>4, <1>5, <1>6 DEF TimesTyped
<1>8. HostTimersAreRight'
  BY <1>4, <1>5, <1>6, HostTimersMeans DEF TimesInv
<1>9. MicrotasksAreServed'
  BY <1>6 DEF TimesInv, MicrotasksAreServed
<1>10. StepInOrder'
  <2> SUFFICES ASSUME step # NoStep
               PROVE  /\ paused /\ simulatedNow <= step.to
                      /\ (\A s \in tasks' : s.due >= simulatedNow) \/ simulatedNow = step.from
    BY <1>6 DEF StepInOrder
  <2>1. /\ paused /\ simulatedNow <= step.to
        /\ (\A s \in tasks : s.due >= simulatedNow) \/ simulatedNow = step.from
    BY DEF TimesInv, StepInOrder
  <2>2. t.due >= simulatedNow
    BY <1>1, <1>4, <2>1 DEF nowMs
  <2> QED BY <1>5, <2>1, <2>2
<1>11. Booked(tasks')
  <2>1. Booked(ts)
    BY DEF TimesInv, Booked
  <2>2. \A s \in ts : s.calls \in CallsOf(ts)
    BY DEF CallsOf
  <2> QED BY <1>4, <1>5, <2>1, <2>2 DEF Booked
<1>12. CallsOf(tasks') = CallsOf(ts) \cup {calls}
  BY <1>4, <1>5 DEF CallsOf
<1> QED BY <1>7, <1>8, <1>9, <1>10, <1>11, <1>12 DEF TimesInv

\* Nothing happens to the clock but that tasks go.
LEMMA FewerTasks ==
    ASSUME TimesInv, tasks' \subseteq tasks, UNCHANGED <<timeVars, handles, microtasks, flush, step>>
    PROVE  TimesInv'
<1>1. nowMs' = nowMs
  BY DEF timeVars, nowMs
<1>2. HostTimersAreRight'
  BY <1>1, HostTimersMeans DEF TimesInv, timeVars
<1> QED BY <1>2 DEF TimesInv, TimesTyped, timeVars, MicrotasksAreServed, StepInOrder, Booked

----
(* Contexts.                                                               *)

Reasons == {"none", "Canceled", "given", "DeadlineExceeded"}
ContextType == [parent : Nat, err : Reasons, cause : Reasons, children : SUBSET Nat,
                deadline : BOOLEAN]

\* Whoever is not cancelled is registered with its parent, and nobody else is.
Linked ==
    /\ contexts \in Seq(ContextType)
    /\ \A c \in Contexts :
         /\ contexts[c].parent \in 0 .. c - 1
         /\ Err(c) = "none" =>
              /\ Err(contexts[c].parent) = "none"
              /\ contexts[c].parent # 0 => c \in contexts[contexts[c].parent].children
         /\ \A d \in contexts[c].children :
              d \in Contexts /\ contexts[d].parent = c /\ Err(d) = "none"

LEMMA LinkedFacts ==
    ASSUME Linked
    PROVE  /\ Contexts = 1 .. Len(contexts) /\ Len(contexts) \in Nat
           /\ \A c \in Contexts : /\ contexts[c] \in ContextType /\ c \in Nat \ {0}
                                  /\ Err(c) = contexts[c].err /\ Cause(c) = contexts[c].cause
           /\ Err(0) = "none"
<1>1. contexts \in Seq(ContextType)
  BY DEF Linked
<1>2. Contexts = 1 .. Len(contexts) /\ Len(contexts) \in Nat
  BY <1>1 DEF Contexts
<1>3. \A c \in 1 .. Len(contexts) : contexts[c] \in ContextType
  BY <1>1
<1> QED BY <1>2, <1>3 DEF Err, Cause

\* Who is reached is whoever was asked and, with a context, its children, and of all
\* others no parent.
LEMMA ReachedFacts ==
    ASSUME Linked, NEW c \in Contexts, Err(c) = "none"
    PROVE  /\ c \in Reached(c) /\ Reached(c) \subseteq Contexts
           /\ \A d \in Reached(c) : Err(d) = "none"
           /\ \A p \in Reached(c) : contexts[p].children \subseteq Reached(c)
           /\ \A d \in Reached(c) : d # c => contexts[d].parent \in Reached(c)
<1> DEFINE Closed(S) == c \in S /\ \A p \in S : contexts[p].children \subseteq S
           All == {d \in Contexts : \A S \in SUBSET Contexts : Closed(S) => d \in S}
<1>1. Reached(c) = {d \in All : Err(d) = "none"}
  BY DEF Reached
<1>2. c \in All /\ \A p \in All : contexts[p].children \subseteq All
  <2>1. ASSUME NEW p \in All, NEW d \in contexts[p].children PROVE d \in All
    BY DEF Linked
  <2> QED BY <2>1
<1>3. \A p \in Reached(c) : contexts[p].children \subseteq Reached(c)
  BY <1>1, <1>2 DEF Linked
<1>4. ASSUME NEW d \in Reached(c), d # c, contexts[d].parent \notin Reached(c)
      PROVE  FALSE
  <2>1. d \in All /\ Err(d) = "none" /\ d \in Contexts
    BY <1>1
  <2>2. ASSUME NEW p \in All, d \in contexts[p].children PROVE FALSE
    <3>1. contexts[d].parent = p /\ p \in Contexts
      BY <2>2 DEF Linked
    <3>2. Err(p) = "none"
      BY <2>1, <3>1 DEF Linked
    <3> QED BY <1>1, <1>4, <3>1, <3>2
  <2> DEFINE S == All \ {d}
  <2>3. c \in S /\ S \in SUBSET Contexts
    BY <1>2, <1>4
  <2>4. \A p \in S : contexts[p].children \subseteq S
    BY <1>2, <2>2
  <2>5. Closed(S)
    BY <2>3, <2>4
  <2>6. d \in S
    BY <2>1, <2>3, <2>5
  <2> QED BY <2>6
<1>5. c \in Reached(c) /\ Reached(c) \subseteq Contexts /\ \A d \in Reached(c) : Err(d) = "none"
  BY <1>1, <1>2
<1> QED BY <1>3, <1>4, <1>5

\* Contexts that are cancelled are out of the tree, and the tree is one without them.
LEMMA CancelFacts ==
    ASSUME Linked, NEW c \in Contexts, Err(c) = "none", NEW err \in Reasons \ {"none"}, NEW cause \in Reasons,
           contexts' = Cancelled(c, err, cause)
    PROVE  /\ Linked' /\ Contexts' = Contexts /\ CancelStays
           /\ \A d \in Contexts : /\ Err(d)' = "none" <=> Err(d) = "none" /\ d \notin Reached(c)
                                  /\ contexts'[d].deadline = contexts[d].deadline
<1> DEFINE R == Reached(c)
           N == Len(contexts)
           out(d) == [contexts[d] EXCEPT !.err = err, !.cause = cause, !.children = {}]
           in(d)  == [contexts[d] EXCEPT !.children = @ \ {c}]
           new(d) == IF d \in R THEN out(d) ELSE in(d)
<1>1. /\ Contexts = 1 .. N /\ N \in Nat /\ Err(0) = "none"
      /\ \A d \in Contexts : contexts[d] \in ContextType /\ d \in Nat \ {0}
      /\ \A d \in Contexts : Err(d) = contexts[d].err /\ Cause(d) = contexts[d].cause
  BY LinkedFacts
<1>2. /\ c \in R /\ R \subseteq Contexts /\ \A d \in R : Err(d) = "none"
      /\ \A p \in R : contexts[p].children \subseteq R
      /\ \A d \in R : d # c => contexts[d].parent \in R
  BY ReachedFacts
<1>3. \A d \in Contexts :
        /\ out(d) \in ContextType /\ out(d).err = err /\ out(d).cause = cause /\ out(d).children = {}
        /\ out(d).parent = contexts[d].parent /\ out(d).deadline = contexts[d].deadline
        /\ in(d) \in ContextType /\ in(d).err = contexts[d].err /\ in(d).cause = contexts[d].cause
        /\ in(d).children = contexts[d].children \ {c}
        /\ in(d).parent = contexts[d].parent /\ in(d).deadline = contexts[d].deadline
  BY <1>1 DEF ContextType
<1>4. contexts' = [d \in 1 .. N |-> new(d)]
  BY <1>1 DEF Cancelled
<1> HIDE DEF R, out, in
<1>5. contexts' \in Seq(ContextType) /\ Len(contexts') = N /\ \A d \in 1 .. N : contexts'[d] = new(d)
  <2>1. \A d \in 1 .. N : new(d) \in ContextType
    BY <1>1, <1>3
  <2> HIDE DEF new, N
  <2> QED BY <1>1, <1>4, <2>1
<1>6. Contexts' = Contexts
  BY <1>1, <1>5 DEF Contexts
<1>7. \A d \in Contexts :
        /\ d \in R => /\ contexts'[d].err = err /\ contexts'[d].cause = cause
                      /\ contexts'[d].children = {}
        /\ d \notin R => /\ contexts'[d].err = contexts[d].err /\ contexts'[d].cause = contexts[d].cause
                         /\ contexts'[d].children = contexts[d].children \ {c}
        /\ contexts'[d].parent = contexts[d].parent /\ contexts'[d].deadline = contexts[d].deadline
  BY <1>1, <1>3, <1>5
<1> HIDE DEF N, new
<1>8. \A d \in Contexts : Err(d)' = contexts'[d].err
  BY <1>1 DEF Err
<1>9. \A d \in Contexts : Err(d)' = "none" <=> Err(d) = "none" /\ d \notin R
  BY <1>1, <1>2, <1>7, <1>8
<1>10. Linked'
  <2> SUFFICES ASSUME NEW e \in Contexts
               PROVE  /\ contexts'[e].parent \in 0 .. e - 1
                      /\ Err(e)' = "none" =>
                           /\ (Err(contexts[e].parent))' = "none"
                           /\ contexts'[e].parent # 0 => e \in contexts'[contexts'[e].parent].children
                      /\ \A d \in contexts'[e].children :
                           d \in Contexts /\ contexts'[d].parent = e /\ Err(d)' = "none"
    BY <1>5, <1>6 DEF Linked
  <2> DEFINE p == contexts[e].parent
  <2>1. /\ p \in 0 .. e - 1 /\ contexts'[e].parent = p
        /\ Err(e) = "none" => Err(p) = "none" /\ (p # 0 => e \in contexts[p].children)
    BY <1>7 DEF Linked
  <2>2. p = 0 \/ p \in Contexts
    BY <1>1, <2>1
  <2>3. ASSUME Err(e)' = "none", p # 0
        PROVE  Err(p)' = "none" /\ e \in contexts'[p].children
    <3>1. Err(e) = "none" /\ e \notin R /\ e # c
      BY <1>2, <1>9, <2>3
    <3>2. p \in Contexts /\ Err(p) = "none" /\ e \in contexts[p].children
      BY <2>1, <2>2, <2>3, <3>1
    <3>3. p \notin R
      BY <1>2, <3>1, <3>2
    <3> QED BY <1>7, <1>9, <3>1, <3>2, <3>3
  <2>4. ASSUME p = 0 PROVE (Err(contexts[e].parent))' = "none"
    BY <2>1, <2>4 DEF Err
  <2>5. ASSUME p # 0, Err(e)' = "none" PROVE (Err(contexts[e].parent))' = "none"
    BY <2>1, <2>3, <2>5
  <2>6. ASSUME NEW d \in contexts'[e].children
        PROVE  d \in Contexts /\ contexts'[d].parent = e /\ Err(d)' = "none"
    <3>1. e \notin R /\ d \in contexts[e].children /\ d # c
      BY <1>7, <2>6
    <3>2. d \in Contexts /\ contexts[d].parent = e /\ Err(d) = "none"
      BY <3>1 DEF Linked
    <3>3. d \notin R
      BY <1>2, <3>1, <3>2
    <3> QED BY <1>7, <1>9, <3>2, <3>3
  <2> QED BY <2>1, <2>3, <2>4, <2>5, <2>6
<1>11. CancelStays
  <2> SUFFICES ASSUME NEW d \in Contexts
               PROVE  /\ Err(d) # "none" => contexts'[d].err = Err(d) /\ contexts'[d].cause = Cause(d)
                      /\ (contexts[d].parent # 0 /\ Err(d) = "none" /\ Err(contexts[d].parent) = "none"
                           /\ contexts'[contexts[d].parent].err # "none") =>
                             contexts'[d].cause = contexts'[contexts[d].parent].cause
    BY DEF CancelStays
  <2>1. Err(d) # "none" => contexts'[d].err = Err(d) /\ contexts'[d].cause = Cause(d)
    BY <1>1, <1>2, <1>7
  <2>2. ASSUME contexts[d].parent # 0, Err(d) = "none", contexts'[contexts[d].parent].err # "none",
               Err(contexts[d].parent) = "none"
        PROVE  contexts'[d].cause = contexts'[contexts[d].parent].cause
    <3> DEFINE p == contexts[d].parent
    <3>1. p \in Contexts /\ d \in contexts[p].children
      BY <1>1, <2>2 DEF Linked
    <3>2. p \in R
      BY <1>1, <1>7, <2>2, <3>1
    <3>3. d \in R
      BY <1>2, <3>1, <3>2
    <3> QED BY <1>7, <3>1, <3>2, <3>3
  <2> QED BY <2>1, <2>2
<1> QED BY <1>6, <1>7, <1>9, <1>10, <1>11 DEF R

\* What is added to the contexts has no children yet and belongs to one that is there.
LEMMA AddFacts ==
    ASSUME Linked, NEW n, n = Len(contexts) + 1, NEW x \in ContextType, x.children = {}, x.parent \in Contexts \cup {0},
           \/ x.err = Err(x.parent) /\ contexts' = Added(x)
           \/ x.err # "none" /\ contexts' = Append(contexts, x)
    PROVE  /\ Linked' /\ Contexts' = Contexts \cup {n} /\ CancelStays
           /\ n \notin Contexts /\ n \in Nat \ {0}
           /\ \A d \in Contexts : /\ Err(d)' = Err(d) /\ contexts'[d].deadline = contexts[d].deadline
           /\ Err(n)' = x.err /\ contexts'[n].deadline = x.deadline
<1> DEFINE N == Len(contexts)
           registers == x.err = Err(x.parent) /\ contexts' = Added(x)
           parent(d) == registers /\ d = x.parent /\ Err(d) = "none"
           more(d)   == [contexts[d] EXCEPT !.children = @ \cup {n}]
           new(d)    == IF parent(d) THEN more(d) ELSE contexts[d]
<1>1. /\ Contexts = 1 .. N /\ N \in Nat /\ Err(0) = "none" /\ n = N + 1 /\ n \in Nat \ {0}
      /\ \A d \in Contexts : contexts[d] \in ContextType /\ d \in Nat \ {0}
      /\ \A d \in Contexts : Err(d) = contexts[d].err /\ Cause(d) = contexts[d].cause
  BY LinkedFacts
<1>2. \A d \in Contexts :
        /\ more(d) \in ContextType /\ more(d).children = contexts[d].children \cup {n}
        /\ more(d).err = contexts[d].err /\ more(d).cause = contexts[d].cause
        /\ more(d).parent = contexts[d].parent /\ more(d).deadline = contexts[d].deadline
  BY <1>1 DEF ContextType
<1>3. contexts' = Append([d \in 1 .. N |-> new(d)], x)
  <2>1. CASE registers
    BY <1>1, <2>1 DEF Added
  <2>2. CASE ~registers
    <3>1. contexts' = Append(contexts, x) /\ \A d \in 1 .. N : new(d) = contexts[d]
      BY <2>2
    <3>2. contexts = [d \in 1 .. N |-> contexts[d]]
      BY <1>1 DEF Linked
    <3> HIDE DEF new, registers, N
    <3> QED BY <3>1, <3>2
  <2> QED BY <2>1, <2>2
<1> HIDE DEF more, registers
<1>4. /\ contexts' \in Seq(ContextType) /\ Len(contexts') = n /\ contexts'[n] = x
      /\ \A d \in 1 .. N : contexts'[d] = new(d)
  <2>1. \A d \in 1 .. N : new(d) \in ContextType
    BY <1>1, <1>2
  <2> HIDE DEF new, N
  <2> QED BY <1>1, <1>3, <2>1
<1>5. Contexts' = Contexts \cup {n} /\ n \notin Contexts /\ n \in Nat \ {0}
  BY <1>1, <1>4 DEF Contexts
<1>6. \A d \in Contexts :
        /\ contexts'[d].err = contexts[d].err /\ contexts'[d].cause = contexts[d].cause
        /\ contexts'[d].parent = contexts[d].parent /\ contexts'[d].deadline = contexts[d].deadline
        /\ contexts'[d].children = IF parent(d) THEN contexts[d].children \cup {n}
                                   ELSE contexts[d].children
  BY <1>1, <1>2, <1>4
<1> HIDE DEF new
<1>7. \A d \in Contexts : Err(d)' = Err(d)
  BY <1>1, <1>6 DEF Err
<1>8. Err(n)' = x.err
  BY <1>1, <1>4 DEF Err
<1>9. Err(0)' = "none"
  BY DEF Err
<1> HIDE DEF N, parent
<1>10. \A e \in Contexts : contexts[e].parent \in 0 .. e - 1 /\ contexts[e].parent \in Contexts \cup {0}
  <2>1. ASSUME NEW e \in Contexts
        PROVE  contexts[e].parent \in 0 .. e - 1 /\ contexts[e].parent \in Contexts \cup {0}
    <3>1. contexts[e].parent \in 0 .. e - 1
      BY DEF Linked
    <3> QED BY <1>1, <3>1
  <2> QED BY <2>1
<1>11. Linked'
  <2> SUFFICES ASSUME NEW e \in Contexts \cup {n}
               PROVE  /\ contexts'[e].parent \in 0 .. e - 1
                      /\ Err(e)' = "none" =>
                           /\ (Err(contexts[e].parent))' = "none"
                           /\ contexts'[e].parent # 0 => e \in contexts'[contexts'[e].parent].children
                      /\ \A d \in contexts'[e].children :
                           d \in Contexts' /\ contexts'[d].parent = e /\ Err(d)' = "none"
    BY <1>4, <1>5 DEF Linked
  <2>1. CASE e = n
    <3>1. contexts'[e] = x
      BY <1>1, <1>4, <2>1
    <3>2. x.parent \in 0 .. n - 1
      BY <1>1
    <3>3. ASSUME x.err = "none" PROVE Err(x.parent)' = "none" /\ (x.parent # 0 => n \in contexts'[x.parent].children)
      <4>1. registers /\ Err(x.parent) = "none"
        BY <3>3 DEF registers
      <4>2. CASE x.parent = 0
        BY <1>9, <4>2
      <4>3. CASE x.parent \in Contexts
        BY <1>6, <1>7, <4>1, <4>3 DEF parent
      <4> QED BY <4>2, <4>3
    <3>4. (Err(contexts[e].parent))' = Err(x.parent)'
      BY <3>1 DEF Err
    <3> QED BY <2>1, <3>1, <3>2, <3>3, <3>4, <1>8
  <2>2. CASE e \in Contexts
    <3> DEFINE p == contexts[e].parent
    <3>1. p \in 0 .. e - 1 /\ contexts'[e].parent = p /\ (p = 0 \/ p \in Contexts)
      BY <1>6, <1>10, <2>2
    <3>2. Err(e) = "none" => Err(p) = "none" /\ (p # 0 => e \in contexts[p].children)
      BY <2>2 DEF Linked
    <3>3. (Err(contexts[e].parent))' = Err(contexts[e].parent)
      <4>1. CASE p = 0
        BY <3>1, <4>1, <1>1 DEF Err
      <4>2. CASE p \in Contexts
        BY <3>1, <4>2, <1>1, <1>6 DEF Err
      <4> QED BY <3>1, <4>1, <4>2
    <3>4. p # 0 => contexts[p].children \subseteq contexts'[p].children
      BY <3>1, <1>6
    <3>5. ASSUME NEW d \in contexts'[e].children
          PROVE  d \in Contexts' /\ contexts'[d].parent = e /\ Err(d)' = "none"
      <4>1. CASE d \in contexts[e].children
        <5>1. d \in Contexts /\ contexts[d].parent = e /\ Err(d) = "none"
          BY <2>2, <4>1 DEF Linked
        <5> QED BY <5>1, <1>5, <1>6, <1>7
      <4>2. CASE d \notin contexts[e].children
        <5>1. d = n /\ parent(e)
          BY <1>6, <2>2, <3>5, <4>2
        <5>2. x.parent = e /\ x.err = "none"
          BY <5>1 DEF parent, registers
        <5> QED BY <5>1, <5>2, <1>1, <1>4, <1>5, <1>8
      <4> QED BY <4>1, <4>2
    <3> HIDE DEF p
    <3>6. Err(e)' = "none" => Err(e) = "none"
      BY <1>7, <2>2
    <3> QED BY <3>1, <3>2, <3>3, <3>4, <3>5, <3>6 DEF p
  <2> QED BY <2>1, <2>2
<1>12. CancelStays
  <2> SUFFICES ASSUME NEW d \in Contexts
               PROVE  /\ Err(d) # "none" => contexts'[d].err = Err(d) /\ contexts'[d].cause = Cause(d)
                      /\ (contexts[d].parent # 0 /\ Err(d) = "none" /\ Err(contexts[d].parent) = "none"
                           /\ contexts'[contexts[d].parent].err # "none") =>
                             contexts'[d].cause = contexts'[contexts[d].parent].cause
    BY DEF CancelStays
  <2>1. Err(d) # "none" => contexts'[d].err = Err(d) /\ contexts'[d].cause = Cause(d)
    BY <1>1, <1>6
  <2>2. contexts[d].parent # 0 => contexts'[contexts[d].parent].err = Err(contexts[d].parent)
    BY <1>1, <1>6, <1>10
  <2> QED BY <2>1, <2>2
<1> QED BY <1>1, <1>4, <1>5, <1>6, <1>7, <1>8, <1>11, <1>12 DEF N

----
(* The invariant: deadlines, the Timer and the Ticker have their tasks.    *)

Deadlines ==
    \A n \in Nat \ {0} :
        n \in CallsOf(tasks) <=> n \in Contexts /\ Err(n) = "none" /\ contexts[n].deadline

TimerInv ==
    /\ timer \in [active : BOOLEAN, pending : BOOLEAN, tick : Nat, period : Nat, receiver : BOOLEAN]
    /\ ticker \in [runs : BOOLEAN, tick : BOOLEAN]
    /\ (timer.tick # 0 => timer.tick = timer.period) /\ (timer.pending <=> timer.tick # 0)
    /\ (timer.active <=> TheTimer \in CallsOf(tasks)) /\ (timer.active => timer.period # 0)
    /\ timer.receiver => timer.tick = 0
    /\ (ticker.runs <=> TheTicker \in CallsOf(tasks)) /\ (ticker.tick => ticker.runs)

BooksInv == Linked /\ Deadlines /\ TimerInv
ClockInv == TimesInv /\ BooksInv

LEMMA SameDeadlines ==
    ASSUME Linked, Deadlines, contexts' = contexts,
           \A n \in Nat \ {0} : n \in CallsOf(tasks') <=> n \in CallsOf(tasks)
    PROVE  Linked' /\ Deadlines' /\ CancelStays
<1>1. \A c : Err(c)' = Err(c)
  BY DEF Err
<1>2. Linked'
  BY DEF Linked, Contexts, Err
<1>3. Deadlines'
  <2>1. CallsOf(tasks)' = CallsOf(tasks')
    BY DEF CallsOf
  <2> QED BY <1>1, <2>1 DEF Deadlines, Contexts
<1>4. CancelStays
  <2> SUFFICES ASSUME NEW c \in Contexts
               PROVE  /\ Err(c) = contexts[c].err /\ Cause(c) = contexts[c].cause
                      /\ contexts[c].parent # 0 => Err(contexts[c].parent) = contexts[contexts[c].parent].err
    BY DEF CancelStays
  <2>1. c # 0
    BY LinkedFacts
  <2> QED BY <2>1 DEF Err, Cause
<1> QED BY <1>2, <1>3, <1>4

LEMMA SameBooks ==
    ASSUME BooksInv, UNCHANGED <<contexts, timer, ticker>>,
           \A n \in Int \ {Resolve} : n \in CallsOf(tasks') <=> n \in CallsOf(tasks)
    PROVE  BooksInv' /\ CancelStays
<1>1. Linked' /\ Deadlines' /\ CancelStays
  BY SameDeadlines DEF BooksInv, Resolve
<1>2. TimerInv'
  <2>1. TheTimer \in Int \ {Resolve} /\ TheTicker \in Int \ {Resolve}
    BY DEF TheTimer, TheTicker, Resolve
  <2>2. CallsOf(tasks)' = CallsOf(tasks')
    BY DEF CallsOf
  <2>3. /\ TheTimer \in CallsOf(tasks') <=> TheTimer \in CallsOf(tasks)
        /\ TheTicker \in CallsOf(tasks') <=> TheTicker \in CallsOf(tasks)
    BY <2>1
  <2> QED BY <2>2, <2>3 DEF BooksInv, TimerInv, TheTimer, TheTicker
<1> QED BY <1>1, <1>2 DEF BooksInv

LEMMA DeadlinesOfCancelled ==
    ASSUME ClockInv, NEW c \in Contexts, Err(c) = "none",
           NEW err \in Reasons \ {"none"}, NEW cause \in Reasons,
           contexts' = Cancelled(c, err, cause), tasks' = Without(Reached(c)), UNCHANGED <<timer, ticker>>
    PROVE  BooksInv' /\ CancelStays /\ Booked(tasks') /\ tasks' \subseteq tasks
<1>1. /\ Linked' /\ Contexts' = Contexts /\ CancelStays
      /\ \A d \in Contexts : /\ Err(d)' = "none" <=> Err(d) = "none" /\ d \notin Reached(c)
                             /\ contexts'[d].deadline = contexts[d].deadline
  BY CancelFacts DEF ClockInv, BooksInv
<1>2. Reached(c) \subseteq Contexts /\ Contexts \subseteq Nat \ {0}
  BY ReachedFacts, LinkedFacts DEF ClockInv, BooksInv
<1>3. tasks' \subseteq tasks /\ Booked(tasks') /\ CallsOf(tasks') = CallsOf(tasks) \ Reached(c)
  BY WithoutFacts DEF ClockInv, TimesInv
<1>4. CallsOf(tasks)' = CallsOf(tasks')
  BY DEF CallsOf
<1>5. Deadlines'
  BY <1>1, <1>2, <1>3, <1>4 DEF Deadlines, ClockInv, BooksInv
<1>6. TimerInv'
  <2>1. TheTimer \notin Reached(c) /\ TheTicker \notin Reached(c)
    BY <1>2 DEF TheTimer, TheTicker
  <2> QED BY <1>3, <1>4, <2>1 DEF TimerInv, ClockInv, BooksInv, TheTimer, TheTicker
<1> QED BY <1>1, <1>3, <1>5, <1>6 DEF BooksInv

\* A task that is over is no longer called, and an interval still is.
LEMMA RunKeepsBooks ==
    ASSUME ClockInv, NEW t \in tasks, RunTask(t), NEW k, k.calls = t.calls, k.interval = t.interval,
           tasks' = After(t) \cup (IF t.interval = 0 THEN {} ELSE {k})
    PROVE  BooksInv' /\ CancelStays /\ Booked(tasks') /\ After(t) \subseteq tasks
<1>1. /\ t \in TaskType /\ t.calls \in Int /\ Booked(tasks) /\ Linked /\ Deadlines /\ TimerInv
      /\ t.calls \in CallsOf(tasks)
  BY DEF ClockInv, TimesInv, TimesTyped, BooksInv, TaskType, CallsOf
<1>2. After(t) \subseteq tasks
  BY DEF After, Cleaned, Without
<1>3. CASE t.calls > 0
  <2> DEFINE c == t.calls
  <2>1. c \in Contexts /\ Err(c) = "none" /\ t.interval = 0
    BY <1>1, <1>3 DEF Deadlines, Booked, TheTicker
  <2>2. c \in Reached(c)
    BY <1>1, <2>1, ReachedFacts
  <2>3. tasks' = Without(Reached(c))
    BY <1>3, <2>1, <2>2 DEF After, Cleaned, Without
  <2>4. /\ contexts' = Cancelled(c, "DeadlineExceeded", "DeadlineExceeded")
        /\ UNCHANGED <<timer, ticker>>
    BY <1>3 DEF RunTask, TheTimer, TheTicker
  <2>5. "DeadlineExceeded" \in Reasons \ {"none"}
    BY DEF Reasons
  <2> HIDE DEF c
  <2>6. BooksInv' /\ CancelStays /\ Booked(tasks')
    BY <2>1, <2>3, <2>4, <2>5, DeadlinesOfCancelled
  <2> QED BY <1>2, <2>6
<1>4. CASE ~(t.calls > 0)
  <2> DEFINE rest == tasks \ {t}
  <2>1. contexts' = contexts /\ After(t) = rest
    BY <1>4 DEF RunTask, After
  <2>2. CallsOf(tasks)' = CallsOf(tasks')
    BY DEF CallsOf
  <2>3. CASE t.calls = TheTicker
    <3>1. tasks' = rest \cup {k}
      BY <1>1, <2>1, <2>3 DEF Booked
    <3>2. CallsOf(tasks') = CallsOf(tasks)
      <4>1. CallsOf(tasks) = CallsOf(rest) \cup {t.calls}
        BY DEF CallsOf
      <4>2. CallsOf(tasks') = CallsOf(rest) \cup {k.calls}
        BY <3>1 DEF CallsOf
      <4> QED BY <4>1, <4>2
    <3>3. Booked(tasks')
      BY <1>1, <2>3, <3>1 DEF Booked, TheTicker, Resolve
    <3>4. timer' = timer /\ ticker' = [ticker EXCEPT !.tick = TRUE]
      BY <2>3 DEF RunTask, TheTimer, TheTicker
    <3>5. ticker.runs
      BY <1>1, <2>3 DEF TimerInv
    <3>6. ticker' \in [runs : BOOLEAN, tick : BOOLEAN] /\ ticker'.runs = ticker.runs
      BY <1>1, <3>4 DEF TimerInv
    <3>7. TimerInv'
      BY <1>1, <2>2, <3>2, <3>4, <3>5, <3>6 DEF TimerInv, TheTimer, TheTicker
    <3>8. Linked' /\ Deadlines' /\ CancelStays
      BY <1>1, <2>1, <3>2, SameDeadlines
    <3> QED BY <1>2, <3>3, <3>7, <3>8 DEF BooksInv
  <2>4. CASE t.calls # TheTicker
    <3>1. tasks' = rest /\ ticker' = ticker
      BY <1>1, <2>1, <2>4 DEF Booked, RunTask
    <3>2. Booked(tasks')
      BY <1>1, <3>1 DEF Booked
    <3>3. \A n : n # t.calls => (n \in CallsOf(tasks') <=> n \in CallsOf(tasks))
      BY <3>1 DEF CallsOf
    <3>4. Linked' /\ Deadlines' /\ CancelStays
      <4>1. \A n \in Nat \ {0} : n # t.calls
        BY <1>1, <1>4
      <4> QED BY <1>1, <2>1, <3>3, <4>1, SameDeadlines
    <3>5. TheTicker \in CallsOf(tasks') <=> TheTicker \in CallsOf(tasks)
      BY <2>4, <3>3
    <3>6. CASE t.calls = TheTimer
      <4>1. TheTimer \notin CallsOf(tasks')
        BY <1>1, <3>1, <3>6 DEF CallsOf, Booked, TheTimer, Resolve
      <4>2. timer.active /\ timer.period # 0
        BY <1>1, <3>6 DEF TimerInv
      <4>3. timer' = Ticked
        BY <3>6 DEF RunTask
      <4>4. timer \in [active : BOOLEAN, pending : BOOLEAN, tick : Nat, period : Nat, receiver : BOOLEAN]
        BY <1>1 DEF TimerInv
      <4>5. TimerInv'
        <5>1. CASE timer.receiver
          <6>1. timer.tick = 0
            BY <1>1, <5>1 DEF TimerInv
          <6>2. timer' = [timer EXCEPT !.active = FALSE, !.pending = FALSE, !.receiver = FALSE]
            BY <4>3, <5>1 DEF Ticked
          <6>3. /\ timer' \in [active : BOOLEAN, pending : BOOLEAN, tick : Nat, period : Nat, receiver : BOOLEAN]
                /\ ~timer'.active /\ ~timer'.pending /\ ~timer'.receiver /\ timer'.tick = timer.tick
            BY <4>4, <6>2
          <6> QED
            BY <1>1, <2>2, <3>1, <3>5, <4>1, <6>1, <6>3 DEF TimerInv, TheTimer, TheTicker
        <5>2. CASE ~timer.receiver
          <6>1. timer' = [timer EXCEPT !.active = FALSE, !.pending = TRUE, !.tick = timer.period]
            BY <4>3, <5>2 DEF Ticked
          <6>2. /\ timer' \in [active : BOOLEAN, pending : BOOLEAN, tick : Nat, period : Nat, receiver : BOOLEAN]
                /\ ~timer'.active /\ timer'.pending /\ timer'.receiver = timer.receiver
                /\ timer'.tick = timer.period /\ timer'.period = timer.period
            BY <4>4, <6>1
          <6> QED
            BY <1>1, <2>2, <3>1, <3>5, <4>1, <4>2, <5>2, <6>2 DEF TimerInv, TheTimer, TheTicker
        <5> QED BY <5>1, <5>2
      <4> QED BY <1>2, <3>2, <3>4, <4>5 DEF BooksInv
    <3>7. CASE t.calls # TheTimer
      <4>1. timer' = timer
        BY <3>7 DEF RunTask
      <4>2. TheTimer \in CallsOf(tasks') <=> TheTimer \in CallsOf(tasks)
        BY <3>3, <3>7
      <4>3. TimerInv'
        BY <1>1, <2>2, <3>1, <3>5, <4>1, <4>2 DEF TimerInv, TheTimer, TheTicker
      <4> QED BY <1>2, <3>2, <3>4, <4>3 DEF BooksInv
    <3> QED BY <3>6, <3>7
  <2> QED BY <2>3, <2>4
<1> QED BY <1>1, <1>3, <1>4

----
(* The steps.                                                              *)

LEMMA TimesFacts ==
    ASSUME TimesInv
    PROVE  /\ wall \in Nat /\ simulatedNow \in Nat /\ startedAt \in Nat /\ startedAt <= wall
           /\ paused \in BOOLEAN /\ flush \in BOOLEAN /\ microtasks \in Nat /\ handles \in Nat
           /\ step \in StepType /\ tasks \subseteq TaskType /\ nowMs \in Nat
           /\ Booked(tasks) /\ TimesTyped
           /\ \A t \in tasks : OnTime(t, paused, simulatedNow, startedAt, nowMs)
           /\ \A t \in tasks : t.due \in Nat
  BY NowIsNumber, HostTimersMeans DEF TimesInv, TimesTyped, TaskType

LEMMA ElapseKeeps ==
    ASSUME TimesInv, Elapse
    PROVE  TimesInv' /\ (nowMs' = nowMs + (IF paused THEN 0 ELSE wall' - wall))
<1>1. /\ wall' = wall + 1 /\ simulatedNow' = simulatedNow /\ startedAt' = startedAt /\ paused' = paused
      /\ tasks' = tasks /\ handles' = handles /\ microtasks' = microtasks /\ flush' = flush
      /\ step' = step /\ step = NoStep
  BY DEF Elapse
<1>2. /\ wall \in Nat /\ simulatedNow \in Nat /\ startedAt \in Nat /\ startedAt <= wall /\ nowMs \in Nat
      /\ tasks \subseteq TaskType /\ \A t \in tasks : OnTime(t, paused, simulatedNow, startedAt, nowMs)
  BY TimesFacts
<1>3. nowMs' = nowMs + (IF paused THEN 0 ELSE wall' - wall) /\ nowMs <= nowMs' /\ nowMs' \in Nat
  BY <1>1, <1>2 DEF nowMs
<1>4. ASSUME NEW t \in tasks PROVE OnTime(t, paused, simulatedNow, startedAt, nowMs')
  <2>1. t.fires \in Int /\ t.due \in Nat /\ OnTime(t, paused, simulatedNow, startedAt, nowMs)
    BY <1>2 DEF TaskType
  <2> QED BY <1>2, <1>3, <2>1 DEF OnTime, Later
<1>5. HostTimersAreRight'
  BY <1>1, <1>4, HostTimersMeans
<1>6. TimesTyped' /\ MicrotasksAreServed' /\ StepInOrder' /\ Booked(tasks')
  BY <1>1, <1>2 DEF TimesInv, TimesTyped, MicrotasksAreServed, StepInOrder
<1> QED BY <1>3, <1>5, <1>6 DEF TimesInv

LEMMA PauseKeeps ==
    ASSUME TimesInv, pause
    PROVE  TimesInv' /\ CallsOf(tasks') = CallsOf(tasks) /\ nowMs' = nowMs
<1>1. /\ wall' = wall /\ simulatedNow' = nowMs /\ startedAt' = startedAt /\ paused' = TRUE
      /\ tasks' = Unscheduled(tasks) /\ handles' = handles /\ microtasks' = microtasks /\ flush' = flush
      /\ step' = step /\ step = NoStep
  BY DEF pause
<1>2. nowMs' = nowMs
  BY <1>1 DEF nowMs
<1>3. /\ tasks' \subseteq TaskType /\ CallsOf(tasks') = CallsOf(tasks) /\ Booked(tasks')
      /\ \A s \in tasks' : \A sim, start, n \in Nat : OnTime(s, TRUE, sim, start, n)
  BY <1>1, TimesFacts, HandoverFacts
<1>4. TimesTyped'
  BY <1>1, <1>3, TimesFacts DEF TimesTyped
<1>5. HostTimersAreRight'
  BY <1>1, <1>2, <1>3, TimesFacts, HostTimersMeans
<1>6. MicrotasksAreServed' /\ StepInOrder'
  BY <1>1 DEF MicrotasksAreServed, StepInOrder
<1> QED BY <1>2, <1>3, <1>4, <1>5, <1>6 DEF TimesInv

\* What resume does, and a step that ends and found the clock running.
LEMMA ResumedKeeps ==
    ASSUME TimesInv, simulatedNow' \in Nat, Resumed, scheduleMicrotaskFlush(TRUE), microtasks' \in Nat,
           step' = NoStep, wall' = wall, handles' = handles
    PROVE  /\ TimesInv' /\ CallsOf(tasks') = CallsOf(tasks) /\ nowMs' = simulatedNow'
           /\ \A s \in tasks' : \E t \in tasks : s.due = t.due
<1>1. paused' = FALSE /\ startedAt' = wall /\ tasks' = Scheduled(tasks, simulatedNow') /\ flush' = TRUE
  BY DEF Resumed, scheduleMicrotaskFlush
<1>2. nowMs' = simulatedNow'
  BY <1>1, TimesFacts DEF nowMs
<1>3. PICK now \in Nat : now = simulatedNow'
  OBVIOUS
<1>4. /\ tasks' \subseteq TaskType /\ CallsOf(tasks') = CallsOf(tasks) /\ Booked(tasks')
      /\ \A s \in tasks' : OnTime(s, FALSE, now, wall, now)
      /\ \A s \in tasks' : \E t \in tasks : s.due = t.due
  BY <1>1, <1>3, TimesFacts, HandoverFacts
<1>5. TimesTyped'
  <2>1. step' \in StepType
    BY DEF StepType
  <2>2. wall' \in Nat /\ startedAt' \in Nat /\ startedAt' <= wall' /\ handles' \in Nat
    BY <1>1, TimesFacts
  <2> QED BY <1>1, <1>4, <2>1, <2>2 DEF TimesTyped
<1>6. HostTimersAreRight'
  BY <1>1, <1>2, <1>3, <1>4, HostTimersMeans
<1>7. MicrotasksAreServed' /\ StepInOrder'
  BY <1>1 DEF MicrotasksAreServed, StepInOrder
<1> QED BY <1>2, <1>4, <1>5, <1>6, <1>7 DEF TimesInv

LEMMA ResumeKeeps ==
    ASSUME TimesInv, resume
    PROVE  TimesInv' /\ CallsOf(tasks') = CallsOf(tasks) /\ nowMs' = nowMs
<1>1. /\ simulatedNow' = simulatedNow /\ Resumed /\ scheduleMicrotaskFlush(TRUE) /\ microtasks' = microtasks
      /\ step' = NoStep /\ wall' = wall /\ handles' = handles /\ paused
  BY DEF resume
<1>2. TimesInv' /\ CallsOf(tasks') = CallsOf(tasks) /\ nowMs' = simulatedNow'
  BY <1>1, TimesFacts, ResumedKeeps
<1> QED BY <1>1, <1>2 DEF nowMs

LEMMA StepBeginsKeeps ==
    ASSUME TimesInv, NEW ms \in Nat, StepBegins(ms)
    PROVE  TimesInv' /\ CallsOf(tasks') = CallsOf(tasks) /\ step' # NoStep
<1>1. /\ wall' = wall /\ simulatedNow' = nowMs /\ startedAt' = startedAt /\ paused' = TRUE
      /\ tasks' = Unscheduled(tasks) /\ handles' = handles /\ microtasks' = microtasks /\ flush' = flush
      /\ step' = [from |-> nowMs, to |-> nowMs + ms, resume |-> ~paused]
  BY DEF StepBegins
<1>2. nowMs' = nowMs
  BY <1>1 DEF nowMs
<1>3. /\ tasks' \subseteq TaskType /\ CallsOf(tasks') = CallsOf(tasks) /\ Booked(tasks')
      /\ \A s \in tasks' : \A sim, start, n \in Nat : OnTime(s, TRUE, sim, start, n)
  BY <1>1, TimesFacts, HandoverFacts
<1>4. step' \in StepType /\ step'.from = nowMs /\ step' # NoStep
  BY <1>1, TimesFacts DEF StepType, NoStep, NotSet
<1>5. TimesTyped'
  BY <1>1, <1>3, <1>4, TimesFacts DEF TimesTyped
<1>6. HostTimersAreRight'
  BY <1>1, <1>2, <1>3, TimesFacts, HostTimersMeans
<1>7. MicrotasksAreServed' /\ StepInOrder'
  <2>1. step'.to = nowMs + ms /\ nowMs \in Nat /\ simulatedNow' <= step'.to
    BY <1>1, TimesFacts
  <2> QED BY <1>1, <1>4, <2>1 DEF MicrotasksAreServed, StepInOrder
<1> QED BY <1>3, <1>4, <1>5, <1>6, <1>7 DEF TimesInv

LEMMA StepEndsKeeps ==
    ASSUME TimesInv, StepEnds
    PROVE  /\ TimesInv' /\ CallsOf(tasks') = CallsOf(tasks) /\ step # NoStep
           /\ simulatedNow' >= simulatedNow
           /\ nowMs' = step.to /\ \A s \in tasks' : s.due > step.to
<1>1. /\ step # NoStep /\ DueTasks = {} /\ simulatedNow' = step.to /\ microtasks' = 0 /\ step' = NoStep
      /\ wall' = wall /\ handles' = handles
  BY DEF StepEnds
<1>2. step.to \in Nat /\ paused = TRUE /\ simulatedNow \in Nat /\ simulatedNow <= step.to
  BY <1>1, TimesFacts DEF StepType, TimesInv, StepInOrder
<1>3. \A t \in tasks : t.due > step.to /\ t.due \in Nat
  BY <1>1, <1>2, TimesFacts DEF DueTasks
<1>4. CASE step.resume
  <2>1. Resumed /\ scheduleMicrotaskFlush(TRUE)
    BY <1>4 DEF StepEnds
  <2>2. /\ TimesInv' /\ CallsOf(tasks') = CallsOf(tasks) /\ nowMs' = simulatedNow'
        /\ \A s \in tasks' : \E t \in tasks : s.due = t.due
    BY <1>1, <1>2, <2>1, ResumedKeeps
  <2> QED BY <1>1, <1>2, <1>3, <2>2
<1>5. CASE ~step.resume
  <2>1. paused' = paused /\ startedAt' = startedAt /\ tasks' = tasks /\ flush' = flush
    BY <1>5 DEF StepEnds
  <2>2. nowMs' = step.to
    BY <1>1, <1>2, <2>1 DEF nowMs
  <2>3. \A t \in tasks : OnTime(t, TRUE, simulatedNow', startedAt', nowMs')
    BY <1>2, TimesFacts DEF OnTime
  <2>4. HostTimersAreRight'
    BY <1>2, <2>1, <2>3, HostTimersMeans
  <2>5. TimesTyped' /\ MicrotasksAreServed' /\ StepInOrder' /\ Booked(tasks')
    BY <1>1, <1>2, <2>1, TimesFacts DEF TimesTyped, MicrotasksAreServed, StepInOrder, StepType
  <2> QED BY <1>1, <1>2, <1>3, <2>1, <2>2, <2>4, <2>5 DEF TimesInv
<1> QED BY <1>4, <1>5

LEMMA MicrotasksKeep ==
    ASSUME TimesInv, queueMicrotask \/ FlushMicrotasks
    PROVE  TimesInv'
<1>1. /\ wall' = wall /\ simulatedNow' = simulatedNow /\ startedAt' = startedAt /\ paused' = paused
      /\ tasks' = tasks /\ handles' = handles /\ step' = step
  BY DEF queueMicrotask, FlushMicrotasks, timeVars
<1>2. HostTimersAreRight' /\ StepInOrder' /\ Booked(tasks')
  BY <1>1 DEF TimesInv, HostTimersAreRight, StepInOrder, nowMs
<1>3. flush' \in BOOLEAN /\ microtasks' \in Nat /\ (microtasks' > 0 /\ ~paused => flush')
  <2>1. CASE queueMicrotask
    <3>1. flush' = (flush \/ ~paused) /\ microtasks' = 1
      BY <2>1 DEF queueMicrotask, scheduleMicrotaskFlush
    <3> QED BY <3>1
  <2>2. CASE FlushMicrotasks
    <3>1. flush' = FALSE /\ microtasks' = (IF paused THEN microtasks ELSE 0)
      BY <2>2 DEF FlushMicrotasks
    <3>2. paused \in BOOLEAN /\ microtasks \in Nat
      BY TimesFacts
    <3>3. microtasks' = microtasks \/ microtasks' = 0
      BY <3>1
    <3>4. flush' \in BOOLEAN /\ microtasks' \in Nat
      BY <3>1, <3>2, <3>3
    <3>5. ~paused => microtasks' = 0
      BY <3>1
    <3> QED BY <3>4, <3>5
  <2> QED BY <2>1, <2>2
<1>4. TimesTyped' /\ MicrotasksAreServed'
  BY <1>1, <1>3, TimesFacts DEF TimesTyped, MicrotasksAreServed
<1> QED BY <1>2, <1>4 DEF TimesInv

LEMMA FireKeeps ==
    ASSUME ClockInv, NEW t \in tasks, Fire(t)
    PROVE  ClockInv' /\ CancelStays /\ nowMs' = nowMs
<1> DEFINE later == [t EXCEPT !.due = nowMs + t.interval]
           k     == scheduleTask(later, nowMs, ~paused)
<1>1. /\ wall \in Nat /\ simulatedNow \in Nat /\ startedAt \in Nat /\ nowMs \in Nat /\ paused \in BOOLEAN
      /\ t \in TaskType /\ tasks \subseteq TaskType /\ TimesTyped /\ TimesInv
      /\ \A s \in tasks : OnTime(s, paused, simulatedNow, startedAt, nowMs)
  BY TimesFacts DEF ClockInv
<1>2. /\ wall' = wall /\ simulatedNow' = simulatedNow /\ startedAt' = startedAt /\ paused' = paused
      /\ handles' = handles /\ microtasks' = microtasks /\ flush' = flush /\ step' = step /\ step = NoStep
      /\ RunTask(t)
  BY DEF Fire, timeVars
<1>3. later \in TaskType /\ later.calls = t.calls /\ later.interval = t.interval
  <2>1. nowMs + t.interval \in Nat
    BY <1>1 DEF TaskType
  <2> QED BY <1>1, <2>1 DEF TaskType
<1>4. tasks' = After(t) \cup (IF t.interval = 0 THEN {} ELSE {k})
  <2>1. {scheduleTask([j EXCEPT !.due = nowMs + j.interval], nowMs, ~paused) : j \in Kept(t)}
            = IF t.interval = 0 THEN {} ELSE {k}
    BY DEF Kept
  <2> QED BY <2>1 DEF Fire
<1> HIDE DEF later
<1>5. /\ k \in TaskType /\ k.calls = t.calls /\ k.interval = t.interval
      /\ OnTime(k, paused, simulatedNow, startedAt, nowMs)
  BY <1>1, <1>3, ScheduleFacts, ScheduledIsOnTime
<1> HIDE DEF k
<1>6. BooksInv' /\ CancelStays /\ Booked(tasks') /\ After(t) \subseteq tasks
  BY <1>2, <1>4, <1>5, RunKeepsBooks
<1>7. tasks' \subseteq tasks \cup {k}
  BY <1>4, <1>6
<1>8. nowMs' = nowMs
  BY <1>2 DEF nowMs
<1>9. TimesTyped'
  BY <1>1, <1>2, <1>5, <1>7 DEF TimesTyped
<1>10. HostTimersAreRight'
  BY <1>1, <1>2, <1>5, <1>7, <1>8, HostTimersMeans
<1>11. MicrotasksAreServed' /\ StepInOrder'
  BY <1>1, <1>2 DEF TimesInv, MicrotasksAreServed, StepInOrder
<1> QED BY <1>6, <1>8, <1>9, <1>10, <1>11 DEF ClockInv, TimesInv

\* A step runs what is due next, so nothing that remains is due before it.
LEMMA StepRunsKeeps ==
    ASSUME ClockInv, NEW t \in tasks, StepRuns(t)
    PROVE  /\ ClockInv' /\ CancelStays /\ step' = step /\ step # NoStep
           /\ simulatedNow' >= simulatedNow \/ simulatedNow' < step.from
<1> DEFINE k == [t EXCEPT !.due = @ + t.interval]
<1>1. /\ wall \in Nat /\ simulatedNow \in Nat /\ startedAt \in Nat /\ nowMs \in Nat
      /\ t \in TaskType /\ tasks \subseteq TaskType /\ TimesTyped /\ TimesInv
      /\ \A s \in tasks : OnTime(s, paused, simulatedNow, startedAt, nowMs) /\ s.due \in Nat
  BY TimesFacts DEF ClockInv
<1>2. /\ wall' = wall /\ simulatedNow' = t.due /\ startedAt' = startedAt /\ paused' = paused
      /\ handles' = handles /\ microtasks' = 0 /\ flush' = flush /\ step' = step /\ step # NoStep
      /\ RunTask(t) /\ t \in DueTasks /\ IsNext(t)
  BY DEF StepRuns
<1>3. /\ paused = TRUE /\ step.from \in Nat /\ step.to \in Nat
      /\ (\A s \in tasks : s.due >= simulatedNow) \/ simulatedNow = step.from
  BY <1>1, <1>2 DEF TimesInv, StepInOrder, TimesTyped, StepType
<1>4. /\ k \in TaskType /\ k.calls = t.calls /\ k.interval = t.interval /\ k.fires = t.fires
      /\ k.due >= t.due
  <2>1. t.due + t.interval \in Nat /\ t.due + t.interval >= t.due
    BY <1>1 DEF TaskType
  <2> QED BY <1>1, <2>1 DEF TaskType
<1>5. tasks' = After(t) \cup (IF t.interval = 0 THEN {} ELSE {k})
  <2>1. {[j EXCEPT !.due = @ + j.interval] : j \in Kept(t)} = IF t.interval = 0 THEN {} ELSE {k}
    BY DEF Kept
  <2> QED BY <2>1 DEF StepRuns
<1> HIDE DEF k
<1>6. BooksInv' /\ CancelStays /\ Booked(tasks') /\ After(t) \subseteq tasks
  BY <1>2, <1>4, <1>5, RunKeepsBooks
<1>7. tasks' \subseteq tasks \cup {k}
  BY <1>5, <1>6
<1>8. TimesTyped'
  BY <1>1, <1>2, <1>4, <1>7 DEF TimesTyped
<1>9. HostTimersAreRight'
  <2>1. \A s \in tasks : s.fires = NotSet
    BY <1>1, <1>3 DEF OnTime
  <2>2. \A s \in tasks' : s.fires = NotSet
    BY <1>4, <1>7, <2>1
  <2> QED BY <1>2, <1>3, <2>2 DEF HostTimersAreRight
<1>10. \A s \in tasks : s.due >= t.due
  <2>1. ASSUME NEW s \in tasks PROVE s.due >= t.due
    <3>1. t.due \in Nat /\ s.due \in Nat /\ t.due <= step.to
      BY <1>1, <1>2 DEF DueTasks
    <3>2. CASE s \in DueTasks
      BY <1>2, <3>1, <3>2 DEF IsNext
    <3>3. CASE s \notin DueTasks
      BY <1>3, <3>1, <3>3 DEF DueTasks
    <3> QED BY <3>2, <3>3
  <2> QED BY <2>1
<1>11. MicrotasksAreServed' /\ StepInOrder'
  <2>1. t.due <= step.to
    BY <1>2 DEF DueTasks
  <2> QED BY <1>2, <1>3, <1>4, <1>7, <1>10, <2>1 DEF MicrotasksAreServed, StepInOrder
<1>12. simulatedNow' >= simulatedNow \/ simulatedNow' < step.from
  <2>1. simulatedNow' = t.due /\ t.due \in Nat
    BY <1>1, <1>2
  <2>2. CASE \A s \in tasks : s.due >= simulatedNow
    BY <2>1, <2>2
  <2>3. CASE simulatedNow = step.from
    BY <1>1, <1>3, <2>1, <2>3
  <2> QED BY <1>3, <2>2, <2>3
<1> QED BY <1>2, <1>6, <1>8, <1>9, <1>11, <1>12 DEF ClockInv, TimesInv

LEMMA WaitKeeps ==
    ASSUME ClockInv, NEW d \in Nat, Wait(d)
    PROVE  ClockInv' /\ CancelStays
<1>1. /\ SetTask(tasks, Resolve, d, 0) /\ UNCHANGED <<timeVars, microtasks, flush, step>>
      /\ UNCHANGED <<contexts, timer, ticker>>
  BY DEF Wait
<1>2. Resolve \in Int /\ (Resolve = TheTicker <=> 0 # 0)
  BY DEF Resolve, TheTicker
<1>3. TimesInv' /\ CallsOf(tasks') = CallsOf(tasks) \cup {Resolve}
  BY <1>1, <1>2, SetTaskFacts DEF ClockInv
<1> QED BY <1>1, <1>3, SameBooks DEF ClockInv

LEMMA TimerTypes ==
    ASSUME ClockInv
    PROVE  /\ timer \in [active : BOOLEAN, pending : BOOLEAN, tick : Nat, period : Nat, receiver : BOOLEAN]
           /\ ticker \in [runs : BOOLEAN, tick : BOOLEAN]
           /\ Stopped \in [active : BOOLEAN, pending : BOOLEAN, tick : Nat, period : Nat, receiver : BOOLEAN]
           /\ ~Stopped.active /\ ~Stopped.pending /\ Stopped.tick = 0 /\ Stopped.period = timer.period
           /\ Stopped.receiver = timer.receiver
           /\ CallsOf(tasks)' = CallsOf(tasks')
<1>1. timer \in [active : BOOLEAN, pending : BOOLEAN, tick : Nat, period : Nat, receiver : BOOLEAN]
      /\ ticker \in [runs : BOOLEAN, tick : BOOLEAN]
  BY DEF ClockInv, BooksInv, TimerInv
<1> QED BY <1>1 DEF Stopped, CallsOf

LEMMA ResetTimerKeeps ==
    ASSUME ClockInv, NEW d \in Nat, ResetTimer(d)
    PROVE  ClockInv' /\ CancelStays
<1> DEFINE rest == Without({TheTimer})
<1>1. /\ SetTask(rest, TheTimer, d, 0) /\ UNCHANGED <<timeVars, microtasks, flush, step>>
      /\ UNCHANGED <<contexts, ticker>>
      /\ timer' = [Stopped EXCEPT !.active = TRUE, !.period = @ + 1]
  BY DEF ResetTimer
<1>2. rest \subseteq tasks /\ CallsOf(rest) = CallsOf(tasks) \ {TheTimer}
  BY WithoutFacts DEF ClockInv, TimesInv
<1> HIDE DEF rest
<1>3. TheTimer \in Int /\ (TheTimer = TheTicker <=> 0 # 0) /\ TheTimer \notin CallsOf(rest)
  BY <1>2 DEF TheTimer, TheTicker
<1>4. TimesInv' /\ CallsOf(tasks') = CallsOf(tasks) \cup {TheTimer}
  <2>1. TimesInv' /\ CallsOf(tasks') = CallsOf(rest) \cup {TheTimer}
    BY <1>1, <1>2, <1>3, SetTaskFacts DEF ClockInv
  <2> QED BY <1>2, <2>1
<1>5. Linked' /\ Deadlines' /\ CancelStays
  BY <1>1, <1>4, SameDeadlines DEF ClockInv, BooksInv, TheTimer
<1>6. TimerInv'
  <2>1. /\ timer' \in [active : BOOLEAN, pending : BOOLEAN, tick : Nat, period : Nat, receiver : BOOLEAN]
        /\ timer'.active /\ ~timer'.pending /\ timer'.tick = 0 /\ timer'.period # 0
    <3>1. /\ Stopped \in [active : BOOLEAN, pending : BOOLEAN, tick : Nat, period : Nat, receiver : BOOLEAN]
          /\ ~Stopped.pending /\ Stopped.tick = 0
      BY TimerTypes
    <3>2. Stopped.period + 1 \in Nat \ {0}
      BY <3>1
    <3>3. timer' = [Stopped EXCEPT !.active = TRUE, !.period = Stopped.period + 1]
      BY <1>1
    <3> QED BY <3>1, <3>2, <3>3
  <2> QED
    BY <1>1, <1>4, <2>1, TimerTypes DEF ClockInv, BooksInv, TimerInv, TheTimer, TheTicker
<1> QED BY <1>4, <1>5, <1>6 DEF ClockInv, BooksInv

LEMMA StartTickerKeeps ==
    ASSUME ClockInv, NEW i \in Intervals, StartTicker(i)
    PROVE  ClockInv' /\ CancelStays
<1> DEFINE rest == Without({TheTicker})
<1>1. /\ SetTask(rest, TheTicker, i, i) /\ UNCHANGED <<timeVars, microtasks, flush, step>>
      /\ UNCHANGED <<contexts, timer>> /\ ticker' = [runs |-> TRUE, tick |-> FALSE]
  BY DEF StartTicker
<1>2. rest \subseteq tasks /\ CallsOf(rest) = CallsOf(tasks) \ {TheTicker}
  BY WithoutFacts DEF ClockInv, TimesInv
<1> HIDE DEF rest
<1>3. TheTicker \in Int /\ TheTicker \notin CallsOf(rest) /\ i \in Nat /\ i # 0
  BY <1>2, ClockAssumption DEF TheTicker, ClockAssumption
<1>4. TimesInv' /\ CallsOf(tasks') = CallsOf(tasks) \cup {TheTicker}
  <2>1. TimesInv' /\ CallsOf(tasks') = CallsOf(rest) \cup {TheTicker}
    BY <1>1, <1>2, <1>3, SetTaskFacts DEF ClockInv
  <2> QED BY <1>2, <2>1
<1>5. Linked' /\ Deadlines' /\ CancelStays
  BY <1>1, <1>4, SameDeadlines DEF ClockInv, BooksInv, TheTicker
<1>6. TimerInv'
  BY <1>1, <1>4, TimerTypes DEF ClockInv, BooksInv, TimerInv, TheTimer, TheTicker
<1> QED BY <1>4, <1>5, <1>6 DEF ClockInv, BooksInv

LEMMA StopsKeep ==
    ASSUME ClockInv, StopTimer \/ StopTicker
    PROVE  ClockInv' /\ CancelStays
<1>1. CASE StopTimer
  <2>1. /\ tasks' = Without({TheTimer}) /\ timer' = Stopped /\ UNCHANGED <<contexts, ticker>>
        /\ UNCHANGED <<timeVars, handles, microtasks, flush, step>>
    BY <1>1 DEF StopTimer
  <2>2. tasks' \subseteq tasks /\ CallsOf(tasks') = CallsOf(tasks) \ {TheTimer}
    BY <2>1, WithoutFacts DEF ClockInv, TimesInv
  <2>3. TimesInv'
    BY <2>1, <2>2, FewerTasks DEF ClockInv
  <2>4. Linked' /\ Deadlines' /\ CancelStays
    BY <2>1, <2>2, SameDeadlines DEF ClockInv, BooksInv, TheTimer
  <2>5. TimerInv'
    BY <2>1, <2>2, TimerTypes DEF ClockInv, BooksInv, TimerInv, TheTimer, TheTicker
  <2> QED BY <2>3, <2>4, <2>5 DEF ClockInv, BooksInv
<1>2. CASE StopTicker
  <2>1. /\ tasks' = Without({TheTicker}) /\ ticker' = [runs |-> FALSE, tick |-> FALSE]
        /\ UNCHANGED <<contexts, timer>> /\ UNCHANGED <<timeVars, handles, microtasks, flush, step>>
    BY <1>2 DEF StopTicker
  <2>2. tasks' \subseteq tasks /\ CallsOf(tasks') = CallsOf(tasks) \ {TheTicker}
    BY <2>1, WithoutFacts DEF ClockInv, TimesInv
  <2>3. TimesInv'
    BY <2>1, <2>2, FewerTasks DEF ClockInv
  <2>4. Linked' /\ Deadlines' /\ CancelStays
    BY <2>1, <2>2, SameDeadlines DEF ClockInv, BooksInv, TheTicker
  <2>5. TimerInv'
    BY <2>1, <2>2, TimerTypes DEF ClockInv, BooksInv, TimerInv, TheTimer, TheTicker
  <2> QED BY <2>3, <2>4, <2>5 DEF ClockInv, BooksInv
<1> QED BY <1>1, <1>2

LEMMA ReceivesKeep ==
    ASSUME ClockInv, ReceiveTick \/ ReceiveTickerTick
    PROVE  ClockInv' /\ CancelStays
<1>1. tasks' = tasks /\ contexts' = contexts /\ UNCHANGED <<timeVars, handles, microtasks, flush, step>>
  BY DEF ReceiveTick, ReceiveTickerTick
<1>2. TimesInv'
  BY <1>1, FewerTasks DEF ClockInv
<1>3. Linked' /\ Deadlines' /\ CancelStays
  BY <1>1, SameDeadlines DEF ClockInv, BooksInv
<1>4. CASE ReceiveTick
  <2>1. CASE timer.tick = 0
    <3>1. timer' = [timer EXCEPT !.receiver = TRUE] /\ ticker' = ticker
      BY <1>4, <2>1 DEF ReceiveTick
    <3>2. /\ timer' \in [active : BOOLEAN, pending : BOOLEAN, tick : Nat, period : Nat, receiver : BOOLEAN]
          /\ timer'.active = timer.active /\ timer'.pending = timer.pending /\ timer'.tick = 0
          /\ timer'.period = timer.period
      BY <2>1, <3>1, TimerTypes
    <3>3. TimerInv'
      BY <1>1, <2>1, <3>1, <3>2, TimerTypes DEF ClockInv, BooksInv, TimerInv
    <3> QED BY <1>2, <1>3, <3>3 DEF ClockInv, BooksInv
  <2>2. CASE timer.tick # 0
    <3>1. timer' = [timer EXCEPT !.pending = FALSE, !.tick = 0] /\ ticker' = ticker
      BY <1>4, <2>2 DEF ReceiveTick
    <3>2. /\ timer' \in [active : BOOLEAN, pending : BOOLEAN, tick : Nat, period : Nat, receiver : BOOLEAN]
          /\ timer'.active = timer.active /\ ~timer'.pending /\ timer'.tick = 0
          /\ timer'.period = timer.period
      BY <3>1, TimerTypes
    <3>3. TimerInv'
      BY <1>1, <3>1, <3>2, TimerTypes DEF ClockInv, BooksInv, TimerInv
    <3> QED BY <1>2, <1>3, <3>3 DEF ClockInv, BooksInv
  <2> QED BY <2>1, <2>2
<1>5. CASE ReceiveTickerTick
  <2>1. timer' = timer /\ ticker' = [ticker EXCEPT !.tick = FALSE]
    BY <1>5 DEF ReceiveTickerTick
  <2>2. ticker' \in [runs : BOOLEAN, tick : BOOLEAN] /\ ticker'.runs = ticker.runs /\ ~ticker'.tick
    BY <2>1, TimerTypes
  <2>3. TimerInv'
    BY <1>1, <2>1, <2>2, TimerTypes DEF ClockInv, BooksInv, TimerInv
  <2> QED BY <1>2, <1>3, <2>3 DEF ClockInv, BooksInv
<1> QED BY <1>4, <1>5

LEMMA NewContextFacts ==
    ASSUME Linked, NEW p \in Contexts \cup {0}, NEW deadline \in BOOLEAN
    PROVE  /\ NewContext(p, deadline) \in ContextType /\ NewContext(p, deadline).children = {}
           /\ NewContext(p, deadline).parent = p /\ NewContext(p, deadline).err = Err(p)
           /\ NewContext(p, deadline).deadline = deadline
<1>1. p \in Nat /\ Err(p) \in Reasons /\ Cause(p) \in Reasons
  <2>1. CASE p = 0
    BY <2>1 DEF Err, Cause, Reasons
  <2>2. CASE p \in Contexts
    BY <2>2, LinkedFacts DEF ContextType
  <2> QED BY <2>1, <2>2
<1> QED BY <1>1 DEF NewContext, ContextType

LEMMA WithCancelKeeps ==
    ASSUME ClockInv, NEW p \in Contexts \cup {0}, withCancel(p)
    PROVE  ClockInv' /\ CancelStays
<1> DEFINE x == NewContext(p, FALSE)
<1>1. /\ contexts' = Added(x) /\ tasks' = tasks /\ UNCHANGED <<timer, ticker>>
      /\ UNCHANGED <<timeVars, handles, microtasks, flush, step>>
  BY DEF withCancel
<1>2. x \in ContextType /\ x.children = {} /\ x.parent = p /\ x.err = Err(p) /\ x.deadline = FALSE
  BY NewContextFacts DEF ClockInv, BooksInv
<1> HIDE DEF x
<1>3. PICK n : n = Len(contexts) + 1
  OBVIOUS
<1>4. /\ Linked' /\ Contexts' = Contexts \cup {n} /\ CancelStays /\ n \notin Contexts /\ n \in Nat \ {0}
      /\ \A d \in Contexts : Err(d)' = Err(d) /\ contexts'[d].deadline = contexts[d].deadline
      /\ contexts'[n].deadline = FALSE
  BY <1>1, <1>2, <1>3, AddFacts DEF ClockInv, BooksInv
<1>5. Deadlines'
  <2>1. n \notin CallsOf(tasks)
    BY <1>4 DEF ClockInv, BooksInv, Deadlines
  <2>2. CallsOf(tasks)' = CallsOf(tasks)
    BY <1>1 DEF CallsOf
  <2> QED BY <1>4, <2>1, <2>2 DEF ClockInv, BooksInv, Deadlines
<1>6. TimerInv'
  BY <1>1 DEF ClockInv, BooksInv, TimerInv, CallsOf
<1>7. TimesInv'
  BY <1>1, FewerTasks DEF ClockInv
<1> QED BY <1>4, <1>5, <1>6, <1>7 DEF ClockInv, BooksInv

LEMMA WithTimeoutKeeps ==
    ASSUME ClockInv, NEW p \in Contexts \cup {0}, NEW d \in Nat, withTimeout(p, d)
    PROVE  ClockInv' /\ CancelStays
<1>1. PICK n : n = Len(contexts) + 1
  OBVIOUS
<1>2. UNCHANGED <<timeVars, microtasks, flush, step, timer, ticker>> /\ Linked /\ Deadlines /\ TimerInv
  BY DEF withTimeout, ClockInv, BooksInv
<1>3. CallsOf(tasks)' = CallsOf(tasks')
  BY DEF CallsOf
<1>4. ASSUME NEW x \in ContextType, x.children = {}, x.parent = p, x.deadline = FALSE,
             x.err # "none", (contexts' = Added(x) /\ x.err = Err(p)) \/ contexts' = Append(contexts, x),
             UNCHANGED <<tasks, handles>>
      PROVE  ClockInv' /\ CancelStays
  <2>1. /\ Linked' /\ Contexts' = Contexts \cup {n} /\ CancelStays /\ n \notin Contexts /\ n \in Nat \ {0}
        /\ \A c \in Contexts : Err(c)' = Err(c) /\ contexts'[c].deadline = contexts[c].deadline
        /\ contexts'[n].deadline = FALSE
    BY <1>1, <1>2, <1>4, AddFacts
  <2>2. Deadlines'
    <3>1. n \notin CallsOf(tasks)
      BY <1>2, <2>1 DEF Deadlines
    <3> QED BY <1>2, <1>3, <1>4, <2>1, <3>1 DEF Deadlines
  <2>3. TimerInv'
    BY <1>2, <1>4 DEF TimerInv, CallsOf
  <2>4. TimesInv'
    BY <1>2, <1>4, FewerTasks DEF ClockInv
  <2> QED BY <2>1, <2>2, <2>3, <2>4 DEF ClockInv, BooksInv
<1> DEFINE x == NewContext(p, FALSE)
<1>5. CASE Err(p) # "none"
  <2>1. contexts' = Added(x) /\ UNCHANGED <<tasks, handles>>
    BY <1>5 DEF withTimeout
  <2>2. x \in ContextType /\ x.children = {} /\ x.parent = p /\ x.err = Err(p) /\ x.deadline = FALSE
    BY <1>2, NewContextFacts
  <2> HIDE DEF x
  <2> QED BY <1>4, <1>5, <2>1, <2>2
<1>6. CASE Err(p) = "none" /\ d = 0
  <2> DEFINE y == [x EXCEPT !.err = "DeadlineExceeded", !.cause = "DeadlineExceeded"]
  <2>1. contexts' = Append(contexts, y) /\ UNCHANGED <<tasks, handles>>
    BY <1>6 DEF withTimeout
  <2>2. x \in ContextType /\ x.children = {} /\ x.parent = p /\ x.deadline = FALSE
    BY <1>2, NewContextFacts
  <2> HIDE DEF x
  <2>3. y \in ContextType /\ y.children = {} /\ y.parent = p /\ y.deadline = FALSE /\ y.err # "none"
    BY <2>2 DEF ContextType, Reasons
  <2> HIDE DEF y
  <2> QED BY <1>4, <2>1, <2>3
<1>7. CASE Err(p) = "none" /\ d > 0
  <2> DEFINE z == NewContext(p, TRUE)
  <2>1. contexts' = Added(z) /\ SetTask(tasks, n, d, 0)
    <3>1. contexts' = Added(z) /\ SetTask(tasks, Len(contexts) + 1, d, 0)
      <4>1. d # 0 /\ Err(p) = "none"
        BY <1>7
      <4> QED BY <4>1 DEF withTimeout
    <3> QED BY <1>1, <3>1
  <2>2. z \in ContextType /\ z.children = {} /\ z.parent = p /\ z.err = Err(p) /\ z.deadline = TRUE
    BY <1>2, NewContextFacts
  <2> HIDE DEF z
  <2>3. /\ Linked' /\ Contexts' = Contexts \cup {n} /\ CancelStays /\ n \notin Contexts /\ n \in Nat \ {0}
        /\ \A c \in Contexts : Err(c)' = Err(c) /\ contexts'[c].deadline = contexts[c].deadline
        /\ contexts'[n].deadline = TRUE /\ Err(n)' = "none"
    BY <1>1, <1>2, <1>7, <2>1, <2>2, AddFacts
  <2>4. n \notin CallsOf(tasks) /\ n \in Int /\ n # TheTicker /\ n # TheTimer
    BY <1>2, <2>3 DEF Deadlines, TheTicker, TheTimer
  <2>5. TimesInv' /\ CallsOf(tasks') = CallsOf(tasks) \cup {n}
    <3>1. UNCHANGED <<timeVars, microtasks, flush, step>> /\ (n = TheTicker <=> 0 # 0)
      BY <1>2, <2>4
    <3> QED BY <2>1, <2>4, <3>1, SetTaskFacts DEF ClockInv
  <2>6. Deadlines'
    BY <1>2, <1>3, <2>3, <2>5 DEF Deadlines
  <2>7. TimerInv'
    BY <1>2, <1>3, <2>4, <2>5 DEF TimerInv, TheTicker, TheTimer
  <2> QED BY <2>3, <2>5, <2>6, <2>7 DEF ClockInv, BooksInv
<1> QED BY <1>5, <1>6, <1>7

LEMMA CancelContextKeeps ==
    ASSUME ClockInv, NEW c \in Contexts, NEW cause \in {"Canceled", "given"}, CancelContext(c, cause)
    PROVE  ClockInv' /\ CancelStays
<1>1. /\ contexts' = Cancelled(c, "Canceled", cause) /\ tasks' = Cleaned(c)
      /\ UNCHANGED <<timeVars, handles, microtasks, flush, step>> /\ UNCHANGED <<timer, ticker>>
  BY DEF CancelContext
<1>2. "Canceled" \in Reasons \ {"none"} /\ cause \in Reasons
  BY DEF Reasons
<1>3. CASE Err(c) # "none"
  <2>1. contexts' = contexts /\ tasks' = tasks
    BY <1>1, <1>3 DEF Cancelled, Cleaned
  <2>2. TimesInv'
    BY <1>1, <2>1, FewerTasks DEF ClockInv
  <2>3. BooksInv' /\ CancelStays
    BY <1>1, <2>1, SameBooks DEF ClockInv
  <2> QED BY <2>2, <2>3 DEF ClockInv
<1>4. CASE Err(c) = "none"
  <2>1. tasks' = Without(Reached(c))
    BY <1>1, <1>4 DEF Cleaned
  <2>2. BooksInv' /\ CancelStays /\ tasks' \subseteq tasks
    BY <1>1, <1>2, <1>4, <2>1, DeadlinesOfCancelled
  <2>3. TimesInv'
    BY <1>1, <2>2, FewerTasks DEF ClockInv
  <2> QED BY <2>2, <2>3 DEF ClockInv
<1> QED BY <1>3, <1>4

LEMMA ClockStarts == ClockInit => ClockInv
<1> SUFFICES ASSUME ClockInit PROVE ClockInv
  OBVIOUS
<1>1. /\ wall = 0 /\ simulatedNow = 0 /\ startedAt = 0 /\ paused = FALSE
      /\ tasks = {} /\ handles = 0 /\ microtasks = 0 /\ flush = FALSE /\ step = NoStep
      /\ contexts = <<>>
      /\ timer = [active |-> FALSE, pending |-> FALSE, tick |-> 0, period |-> 0, receiver |-> FALSE]
      /\ ticker = [runs |-> FALSE, tick |-> FALSE]
  BY DEF ClockInit
<1>2. TimesInv
  <2>1. NoStep \in StepType /\ tasks \subseteq TaskType
    BY <1>1 DEF StepType
  <2>2. TimesTyped
    <3>1. wall \in Nat /\ simulatedNow \in Nat /\ startedAt \in Nat /\ startedAt <= wall
      BY <1>1
    <3>2. /\ paused \in BOOLEAN /\ flush \in BOOLEAN /\ microtasks \in Nat /\ handles \in Nat
          /\ step \in StepType
      BY <1>1, <2>1
    <3> QED BY <2>1, <3>1, <3>2 DEF TimesTyped
  <2>3. HostTimersAreRight /\ MicrotasksAreServed /\ StepInOrder
    BY <1>1 DEF HostTimersAreRight, MicrotasksAreServed, StepInOrder
  <2>4. Booked(tasks)
    BY <1>1 DEF Booked
  <2> QED BY <2>2, <2>3, <2>4 DEF TimesInv
<1>3. contexts \in Seq(ContextType) /\ Contexts = {} /\ CallsOf(tasks) = {}
  BY <1>1 DEF Contexts, CallsOf
<1>4. Linked /\ Deadlines
  BY <1>3 DEF Linked, Deadlines
<1>5. TimerInv
  BY <1>1, <1>3 DEF TimerInv
<1> QED BY <1>2, <1>4, <1>5 DEF ClockInv, BooksInv

LEMMA ClockInvPromises == ClockInv => ClockIsSound
<1> SUFFICES ASSUME ClockInv PROVE ClockIsSound
  OBVIOUS
<1>1. HostTimersAreRight /\ MicrotasksAreServed
  BY DEF ClockInv, TimesInv
<1>2. ContextsAreSound
  <2> SUFFICES ASSUME NEW c \in Contexts
               PROVE  IF Err(c) = "none"
                        THEN /\ Err(contexts[c].parent) = "none"
                             /\ contexts[c].parent # 0 => c \in contexts[contexts[c].parent].children
                             /\ (\E t \in tasks : t.calls = c) = contexts[c].deadline
                        ELSE /\ ~\E t \in tasks : t.calls = c
                             /\ \A p \in Contexts : c \notin contexts[p].children
    BY DEF ContextsAreSound
  <2>1. c \in Nat \ {0} /\ contexts[c].deadline \in BOOLEAN
    BY LinkedFacts DEF ClockInv, BooksInv, ContextType
  <2>2. c \in CallsOf(tasks) <=> \E t \in tasks : t.calls = c
    BY DEF CallsOf
  <2>3. c \in CallsOf(tasks) <=> Err(c) = "none" /\ contexts[c].deadline
    BY <2>1 DEF ClockInv, BooksInv, Deadlines
  <2>4. /\ Err(c) = "none" => /\ Err(contexts[c].parent) = "none"
                              /\ contexts[c].parent # 0 => c \in contexts[contexts[c].parent].children
        /\ \A p \in Contexts : c \in contexts[p].children => Err(c) = "none"
    BY DEF ClockInv, BooksInv, Linked
  <2>5. Err(c) = "none" => ((\E t \in tasks : t.calls = c) = contexts[c].deadline)
    BY <2>1, <2>2, <2>3
  <2> QED BY <2>2, <2>3, <2>4, <2>5
<1>3. TimerIsSound
  <2>1. /\ TheTimer \in CallsOf(tasks) <=> \E t \in tasks : t.calls = TheTimer
        /\ TheTicker \in CallsOf(tasks) <=> \E t \in tasks : t.calls = TheTicker
    BY DEF CallsOf
  <2>2. /\ (timer.tick # 0 => timer.tick = timer.period) /\ (timer.pending <=> timer.tick # 0)
        /\ (timer.active <=> \E t \in tasks : t.calls = TheTimer)
        /\ (ticker.runs <=> \E t \in tasks : t.calls = TheTicker) /\ (ticker.tick => ticker.runs)
    BY <2>1 DEF ClockInv, BooksInv, TimerInv
  <2>3. timer.pending \in BOOLEAN /\ timer.active \in BOOLEAN /\ ticker.runs \in BOOLEAN
    BY TimerTypes
  <2> QED BY <2>2, <2>3 DEF TimerIsSound
<1> QED BY <1>1, <1>2, <1>3 DEF ClockIsSound

\* What clients do takes no time.
LEMMA ClientsTakeNoTime ==
    ASSUME ClockInv, UNCHANGED <<timeVars, step>>
    PROVE  TimeGoesRight
<1>1. /\ wall' = wall /\ simulatedNow' = simulatedNow /\ startedAt' = startedAt /\ paused' = paused
      /\ step' = step
  BY DEF timeVars
<1>2. wall \in Nat /\ simulatedNow \in Nat /\ nowMs \in Nat
  BY TimesFacts DEF ClockInv
<1>3. nowMs' = nowMs
  BY <1>1 DEF nowMs
<1> QED BY <1>1, <1>2, <1>3 DEF TimeGoesRight

\* So a step that keeps the time, from one moment outside the clock's step to another.
LEMMA SameTimeIsRight ==
    ASSUME ClockInv, step = NoStep, nowMs' = nowMs, wall' = wall
    PROVE  TimeGoesRight
<1>1. wall \in Nat /\ nowMs \in Nat
  BY TimesFacts DEF ClockInv
<1> QED BY <1>1 DEF TimeGoesRight

\* The steps that don't touch contexts, the Timer, the Ticker or what tasks call.
LEMMA OthersKeepBooks ==
    ASSUME ClockInv, CallsOf(tasks') = CallsOf(tasks), UNCHANGED <<contexts, timer, ticker>>
    PROVE  BooksInv' /\ CancelStays
  BY SameBooks DEF ClockInv

LEMMA TimeStepKeeps ==
    ASSUME ClockInv, Elapse \/ pause \/ resume \/ StepEnds \/ queueMicrotask \/ FlushMicrotasks
    PROVE  ClockInv' /\ CancelStays /\ TimeGoesRight
<1>1. TimesInv /\ UNCHANGED <<contexts, timer, ticker>>
  BY DEF ClockInv, Elapse, pause, resume, StepEnds, queueMicrotask, FlushMicrotasks
<1>2. ASSUME TimesInv', CallsOf(tasks') = CallsOf(tasks), TimeGoesRight
      PROVE  ClockInv' /\ CancelStays /\ TimeGoesRight
  BY <1>1, <1>2, OthersKeepBooks DEF ClockInv
<1>3. CASE Elapse
  <2>1. TimesInv' /\ nowMs' = nowMs + (IF paused THEN 0 ELSE wall' - wall)
    BY <1>1, <1>3, ElapseKeeps
  <2>2. tasks' = tasks /\ step = NoStep
    BY <1>3 DEF Elapse
  <2> QED BY <1>2, <2>1, <2>2 DEF TimeGoesRight
<1>4. CASE pause
  <2>1. TimesInv' /\ CallsOf(tasks') = CallsOf(tasks) /\ nowMs' = nowMs
    BY <1>1, <1>4, PauseKeeps
  <2>2. wall' = wall /\ step = NoStep
    BY <1>4 DEF pause
  <2> QED BY <1>2, <2>1, <2>2, SameTimeIsRight
<1>5. CASE resume
  <2>1. TimesInv' /\ CallsOf(tasks') = CallsOf(tasks) /\ nowMs' = nowMs
    BY <1>1, <1>5, ResumeKeeps
  <2>2. wall' = wall /\ step = NoStep
    BY <1>5 DEF resume
  <2> QED BY <1>2, <2>1, <2>2, SameTimeIsRight
<1>6. CASE StepEnds
  <2>1. /\ TimesInv' /\ CallsOf(tasks') = CallsOf(tasks) /\ step # NoStep
        /\ simulatedNow' >= simulatedNow /\ nowMs' = step.to /\ \A s \in tasks' : s.due > step.to
    BY <1>1, <1>6, StepEndsKeeps
  <2>2. TimeGoesRight
    BY <2>1 DEF TimeGoesRight
  <2> QED BY <1>2, <2>1, <2>2
<1>7. CASE queueMicrotask \/ FlushMicrotasks
  <2>1. TimesInv'
    BY <1>1, <1>7, MicrotasksKeep
  <2>2. tasks' = tasks /\ UNCHANGED <<timeVars, step>>
    BY <1>7 DEF queueMicrotask, FlushMicrotasks
  <2> QED BY <1>2, <2>1, <2>2, ClientsTakeNoTime
<1> QED BY <1>3, <1>4, <1>5, <1>6, <1>7

LEMMA TasksKeep ==
    ASSUME ClockInv, NEW t \in tasks, Fire(t) \/ StepRuns(t)
    PROVE  ClockInv' /\ CancelStays /\ TimeGoesRight
<1>1. CASE Fire(t)
  <2>1. ClockInv' /\ CancelStays /\ nowMs' = nowMs
    BY <1>1, FireKeeps
  <2>2. wall' = wall /\ step = NoStep
    BY <1>1 DEF Fire, timeVars
  <2> QED BY <2>1, <2>2, SameTimeIsRight
<1>2. CASE StepRuns(t)
  <2>1. /\ ClockInv' /\ CancelStays /\ step' = step /\ step # NoStep
        /\ simulatedNow' >= simulatedNow \/ simulatedNow' < step.from
    BY <1>2, StepRunsKeeps
  <2> QED BY <2>1 DEF TimeGoesRight
<1> QED BY <1>1, <1>2

LEMMA DelaysKeep ==
    ASSUME ClockInv, NEW d \in Delays, Wait(d) \/ ResetTimer(d) \/ StepBegins(d)
    PROVE  ClockInv' /\ CancelStays /\ TimeGoesRight
<1>1. d \in Nat
  BY ClockAssumption DEF ClockAssumption
<1>2. CASE Wait(d)
  <2>1. UNCHANGED <<timeVars, step>>
    BY <1>2 DEF Wait
  <2> QED BY <1>1, <1>2, <2>1, WaitKeeps, ClientsTakeNoTime
<1>3. CASE ResetTimer(d)
  <2>1. UNCHANGED <<timeVars, step>>
    BY <1>3 DEF ResetTimer
  <2> QED BY <1>1, <1>3, <2>1, ResetTimerKeeps, ClientsTakeNoTime
<1>4. CASE StepBegins(d)
  <2>1. TimesInv' /\ CallsOf(tasks') = CallsOf(tasks) /\ step' # NoStep
    BY <1>1, <1>4, StepBeginsKeeps DEF ClockInv
  <2>2. UNCHANGED <<contexts, timer, ticker>> /\ step = NoStep
    BY <1>4 DEF StepBegins
  <2>3. BooksInv' /\ CancelStays
    BY <2>1, <2>2, OthersKeepBooks
  <2> QED BY <2>1, <2>2, <2>3 DEF ClockInv, TimeGoesRight
<1> QED BY <1>2, <1>3, <1>4

LEMMA TimersKeep ==
    ASSUME ClockInv,
           (\E i \in Intervals : StartTicker(i)) \/ StopTimer \/ ReceiveTick \/ StopTicker \/ ReceiveTickerTick
    PROVE  ClockInv' /\ CancelStays /\ TimeGoesRight
<1>1. UNCHANGED <<timeVars, step>>
  BY DEF StartTicker, StopTimer, ReceiveTick, StopTicker, ReceiveTickerTick
<1> QED BY <1>1, StartTickerKeeps, StopsKeep, ReceivesKeep, ClientsTakeNoTime

LEMMA ContextsKeep ==
    ASSUME ClockInv,
           \/ \E c \in Contexts \cup {0} : withCancel(c) \/ \E d \in Delays : withTimeout(c, d)
           \/ \E c \in Contexts, cause \in {"Canceled", "given"} : CancelContext(c, cause)
    PROVE  ClockInv' /\ CancelStays /\ TimeGoesRight
<1>1. UNCHANGED <<timeVars, step>>
  BY DEF withCancel, withTimeout, CancelContext
<1>2. \A d \in Delays : d \in Nat
  BY ClockAssumption DEF ClockAssumption
<1>3. ClockInv' /\ CancelStays
  <2>1. CASE \E c \in Contexts \cup {0} : withCancel(c)
    BY <2>1, WithCancelKeeps
  <2>2. CASE \E c \in Contexts \cup {0}, d \in Delays : withTimeout(c, d)
    BY <1>2, <2>2, WithTimeoutKeeps
  <2>3. CASE \E c \in Contexts, cause \in {"Canceled", "given"} : CancelContext(c, cause)
    BY <2>3, CancelContextKeeps
  <2> QED BY <2>1, <2>2, <2>3
<1> QED BY <1>1, <1>3, ClientsTakeNoTime

LEMMA ClockStepKeeps ==
    ASSUME ClockInv, [ClockNext]_clockVars
    PROVE  ClockInv' /\ CancelStays /\ TimeGoesRight
<1>1. CASE Elapse \/ pause \/ resume \/ StepEnds \/ queueMicrotask \/ FlushMicrotasks
  BY <1>1, TimeStepKeeps
<1>2. CASE \E t \in tasks : Fire(t) \/ StepRuns(t)
  BY <1>2, TasksKeep
<1>3. CASE \E d \in Delays : Wait(d) \/ ResetTimer(d) \/ StepBegins(d)
  BY <1>3, DelaysKeep
<1>4. CASE (\E i \in Intervals : StartTicker(i)) \/ StopTimer \/ ReceiveTick \/ StopTicker \/ ReceiveTickerTick
  BY <1>4, TimersKeep
<1>5. CASE \/ \E c \in Contexts \cup {0} : withCancel(c) \/ \E d \in Delays : withTimeout(c, d)
           \/ \E c \in Contexts, cause \in {"Canceled", "given"} : CancelContext(c, cause)
  BY <1>5, ContextsKeep
<1>6. CASE UNCHANGED clockVars
  <2>1. UNCHANGED <<timeVars, handles, microtasks, flush, step>> /\ UNCHANGED <<tasks, contexts, timer, ticker>>
    BY <1>6 DEF clockVars
  <2>2. UNCHANGED <<timeVars, step>> /\ UNCHANGED <<contexts, timer, ticker>> /\ tasks' = tasks
    BY <2>1
  <2>3. TimesInv'
    BY <2>1, FewerTasks DEF ClockInv
  <2>4. BooksInv' /\ CancelStays
    BY <2>2, OthersKeepBooks
  <2> QED BY <2>2, <2>3, <2>4, ClientsTakeNoTime DEF ClockInv
<1> QED BY <1>1, <1>2, <1>3, <1>4, <1>5, <1>6 DEF ClockNext

\* For all delays and intervals, and any number of tasks, contexts, resets and
\* steps: a clock that runs has one timer of the host for each task, set for its
\* time, a paused one has none (scheduleTask, pause, resume, step); a context that
\* is not cancelled is reached from its parent and has its deadline's task, one
\* that is has neither (withTimeout, cancel, cleanup); and no tick of an earlier
\* reset is left in a Timer's channel (stop, reset).
THEOREM ClockSoundness == ClockSpec => []ClockIsSound
<1>1. ClockInit => ClockInv
  BY ClockStarts
<1>2. ClockInv /\ [ClockNext]_clockVars => ClockInv'
  BY ClockStepKeeps
<1>3. ClockInv => ClockIsSound
  BY ClockInvPromises
<1> QED BY <1>1, <1>2, <1>3, PTL DEF ClockSpec

\* The clock's time goes on with the host's, stands while it is paused, and a step
\* runs all that is due, in order (nowMs, step); a context that is cancelled stays
\* so, for the same reason, which is its parent's if both are cancelled at once.
THEOREM ClockGoesRight == ClockSpec => TimeIsRight /\ CancelledForGood
<1>1. ClockInit => ClockInv
  BY ClockStarts
<1>2. ClockInv /\ [ClockNext]_clockVars => ClockInv' /\ CancelStays /\ TimeGoesRight
  BY ClockStepKeeps
<1> QED BY <1>1, <1>2, PTL DEF ClockSpec, TimeIsRight, CancelledForGood
=============================================================================

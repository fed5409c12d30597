-------------------------- MODULE AllocationProofs --------------------------
(***************************************************************************)
(* Theorems about what is taken and given back: the mutex RWMutex, for     *)
(* every set of threads; the lock in etcd, and the index allocator that    *)
(* runs under it, for every set of clients, time to live and size; and the *)
(* services of ServiceStore with the addresses and ports they take.        *)
(*                                                                         *)
(* Of the services: whatever creates, updates and deletes race, each       *)
(* address and node port that is taken has one owner, a stored service or  *)
(* a request that holds it, and so none is shared and none is lost; but    *)
(* for the values that were stored unclaimed or twice (stray), and those   *)
(* that came after one of them in a list to release (lost).                *)
(***************************************************************************)
EXTENDS AllocatableRange, RWMutex, ServiceStore, FiniteSetTheorems, SequenceTheorems,
        WellFoundedInduction, TLAPS

----
(* RWMutex.  The inductive invariant adds to the checked properties that   *)
(* the line holds each waiting thread once and that waitingWriters counts  *)
(* the writers in it: that count is what keeps a reader from passing them. *)

Waiter == [kind : Kinds, thread : Threads]

\* The line holds every one of its threads once, and all of them wait.
InLine(q) ==
    /\ \A i \in 1 .. Len(q) : at[q[i].thread] = "waiting"
    /\ \A i, j \in 1 .. Len(q) : q[i].thread = q[j].thread => i = j

WritersIn(q) == {q[i].thread : i \in {j \in 1 .. Len(q) : q[j].kind = "write"}}

Counts(S, n) == IsFiniteSet(S) /\ Cardinality(S) = n

\* The flag says whether somebody writes, and it is one.
OneWriter ==
    /\ \A t, u \in Threads : at[t] = "writing" /\ at[u] = "writing" => t = u
    /\ writerActive <=> \E t \in Threads : at[t] = "writing"
    /\ writerActive => activeReaders = 0

Core ==
    /\ RWTypeOK
    /\ InLine(waiters)
    /\ OneWriter
    /\ Counts(In("reading"), activeReaders)
    /\ Counts(WritersIn(waiters), waitingWriters)
    /\ NobodyWaitsForNothing

----
(* Sets and sequences.                                                     *)

LEMMA CountsNone == Counts({}, 0)
  BY FS_EmptySet DEF Counts

LEMMA CountsOneMore ==
  ASSUME NEW S, NEW n, Counts(S, n), NEW x, x \notin S
  PROVE  Counts(S \cup {x}, n + 1)
  BY FS_AddElement DEF Counts

LEMMA CountsOneLess ==
  ASSUME NEW S, NEW n, Counts(S, n), NEW x \in S
  PROVE  Counts(S \ {x}, n - 1)
  BY FS_RemoveElement DEF Counts

LEMMA AppendFacts ==
  ASSUME NEW S, NEW s \in Seq(S), NEW x \in S
  PROVE  /\ Append(s, x) \in Seq(S) /\ Len(Append(s, x)) = Len(s) + 1
         /\ \A i \in 1 .. Len(s) : Append(s, x)[i] = s[i]
         /\ Append(s, x)[Len(s) + 1] = x /\ Len(s) \in Nat
  OBVIOUS

LEMMA HeadFacts ==
  ASSUME NEW S, NEW s \in Seq(S), s # <<>>
  PROVE  /\ Len(s) \in Nat \ {0} /\ Head(s) = s[1] /\ Head(s) \in S
         /\ Tail(s) \in Seq(S) /\ Len(Tail(s)) = Len(s) - 1
         /\ \A i \in 1 .. Len(Tail(s)) : Tail(s)[i] = s[i + 1]
  OBVIOUS

LEMMA SuffixFacts ==
  ASSUME NEW S, NEW s \in Seq(S), NEW n \in 0 .. Len(s)
  PROVE  /\ SubSeq(s, n + 1, Len(s)) \in Seq(S)
         /\ Len(SubSeq(s, n + 1, Len(s))) = Len(s) - n
         /\ \A i \in 1 .. Len(s) - n : SubSeq(s, n + 1, Len(s))[i] = s[n + i]
  OBVIOUS

\* dispatch() wakes the run of readers in front, up to the first writer.
LEMMA FrontReadersFacts ==
  ASSUME NEW q \in Seq(Waiter)
  PROVE  /\ FrontReaders(q) \in 0 .. Len(q)
         /\ \A i \in 1 .. FrontReaders(q) : q[i].kind = "read"
         /\ FrontReaders(q) < Len(q) => q[FrontReaders(q) + 1].kind = "write"
<1> DEFINE front == {i \in DOMAIN q : \A j \in 1 .. i : q[j].kind = "read"}
           n == Cardinality(front)
<1>1. DOMAIN q = 1 .. Len(q) /\ Len(q) \in Nat
  OBVIOUS
<1>2. front \subseteq 1 .. Len(q) /\ IsFiniteSet(front) /\ n \in Nat
  <2>1. front \in SUBSET (1 .. Len(q))
    BY <1>1
  <2>2. IsFiniteSet(1 .. Len(q))
    BY <1>1, FS_Interval
  <2> HIDE DEF front
  <2> QED BY <2>1, <2>2, FS_Subset, FS_CardinalityType
<1>3. n <= Len(q)
  <2>1. IsFiniteSet(1 .. Len(q)) /\ Cardinality(1 .. Len(q)) = Len(q)
    BY <1>1, FS_Interval
  <2> HIDE DEF front
  <2> QED BY <1>2, <2>1, FS_Subset
<1>4. front \subseteq 1 .. n
  <2> SUFFICES ASSUME NEW i \in front PROVE i <= n
    BY <1>1, <1>2
  <2>1. 1 .. i \subseteq front /\ i \in Nat
    BY <1>1
  <2>2. Cardinality(1 .. i) = i
    BY <2>1, <1>1, FS_Interval
  <2> HIDE DEF front
  <2> QED BY <1>2, <2>1, <2>2, FS_Subset
<1>5. front = 1 .. n
  <2>1. IsFiniteSet(1 .. n) /\ Cardinality(1 .. n) = n
    BY <1>2, FS_Interval
  <2> HIDE DEF front
  <2> QED BY <1>4, <2>1, FS_Subset
<1>6. \A i \in 1 .. Len(q) : q[i].kind = "read" \/ q[i].kind = "write"
  <2> SUFFICES ASSUME NEW i \in 1 .. Len(q) PROVE q[i].kind = "read" \/ q[i].kind = "write"
    OBVIOUS
  <2>1. q[i] \in Waiter
    BY <1>1
  <2> QED BY <2>1 DEF Waiter, Kinds
<1>7. \A i \in 1 .. n : q[i].kind = "read"
  BY <1>2, <1>5
<1>8. ASSUME n < Len(q) PROVE q[n + 1].kind # "read"
  <2>1. n + 1 \in DOMAIN q /\ n + 1 \notin front
    <3> HIDE DEF front, n
    <3> QED BY <1>1, <1>2, <1>5, <1>8
  <2>2. \A j \in 1 .. n + 1 : j = n + 1 \/ j \in 1 .. n
    BY <1>2
  <2>3. \E j \in 1 .. n + 1 : q[j].kind # "read"
    BY <2>1
  <2> HIDE DEF n, front
  <2> QED BY <1>7, <2>2, <2>3
<1>9. FrontReaders(q) = n
  BY DEF FrontReaders
<1> HIDE DEF front, n
<1> QED BY <1>1, <1>2, <1>3, <1>6, <1>7, <1>8, <1>9

----
(* The line.                                                               *)

\* A thread that is not waiting joins the line at its end.
LEMMA Joins ==
  ASSUME RWTypeOK, InLine(waiters), Counts(WritersIn(waiters), waitingWriters),
         NEW t \in Threads, at[t] # "waiting", NEW k \in Kinds,
         waiters' = Append(waiters, [kind |-> k, thread |-> t]),
         at' = [at EXCEPT ![t] = "waiting"],
         waitingWriters' = IF k = "write" THEN waitingWriters + 1 ELSE waitingWriters
  PROVE  /\ waiters' \in Seq(Waiter) /\ Len(waiters') = Len(waiters) + 1
         /\ waiters' # <<>>
         /\ Head(waiters') = IF waiters = <<>> THEN [kind |-> k, thread |-> t] ELSE Head(waiters)
         /\ InLine(waiters)' /\ Counts(WritersIn(waiters), waitingWriters)'
<1> DEFINE x == [kind |-> k, thread |-> t]
<1>1. waiters \in Seq(Waiter) /\ x \in Waiter /\ at \in [Threads -> {"out", "waiting", "reading", "writing"}]
  BY DEF RWTypeOK, Waiter
<1>2. /\ waiters' \in Seq(Waiter) /\ Len(waiters') = Len(waiters) + 1
      /\ \A i \in 1 .. Len(waiters) : waiters'[i] = waiters[i]
      /\ waiters'[Len(waiters) + 1] = x /\ Len(waiters) \in Nat
  BY <1>1, AppendFacts
<1>3. waiters' # <<>> /\ Head(waiters') = IF waiters = <<>> THEN x ELSE Head(waiters)
  <2>1. waiters' # <<>> /\ Head(waiters') = waiters'[1]
    BY <1>2, HeadFacts
  <2>2. waiters # <<>> => Head(waiters) = waiters[1] /\ Len(waiters) # 0
    BY <1>1, HeadFacts
  <2>3. waiters = <<>> => Len(waiters) = 0
    OBVIOUS
  <2> QED BY <1>2, <2>1, <2>2, <2>3
<1>4. \A i \in 1 .. Len(waiters) : waiters[i].thread # t /\ waiters[i] \in Waiter
  BY <1>1 DEF InLine
<1>5. \A i \in 1 .. Len(waiters) : at'[waiters[i].thread] = "waiting"
  BY <1>1, <1>4 DEF InLine, Waiter
<1>6. InLine(waiters)'
  BY <1>1, <1>2, <1>4, <1>5 DEF InLine
<1>7. CASE k = "write"
  <2>1. WritersIn(waiters') = WritersIn(waiters) \cup {t} /\ t \notin WritersIn(waiters)
    BY <1>2, <1>4, <1>7 DEF WritersIn
  <2> QED BY <1>2, <1>3, <1>6, <1>7, <2>1, CountsOneMore
<1>8. CASE k # "write"
  <2>1. WritersIn(waiters') = WritersIn(waiters)
    BY <1>2, <1>8 DEF WritersIn
  <2> QED BY <1>2, <1>3, <1>6, <1>8, <2>1
<1> QED BY <1>7, <1>8

\* What is left of the line when its first n leave it.
LEMMA Leaves ==
  ASSUME NEW q \in Seq(Waiter), InLine(q), NEW n \in 0 .. Len(q), NEW r \in Seq(Waiter),
         Len(r) = Len(q) - n, \A i \in 1 .. Len(r) : r[i] = q[n + i]
  PROVE  /\ InLine(r)
         /\ \A i \in 1 .. n, j \in 1 .. Len(r) : q[i].thread # r[j].thread
         /\ (\A i \in 1 .. n : q[i].kind = "read") => WritersIn(r) = WritersIn(q)
<1>1. Len(q) \in Nat /\ Len(r) \in Nat
  OBVIOUS
<1>2. \A i \in 1 .. Len(r) : n + i \in 1 .. Len(q)
  BY <1>1
<1>3. InLine(r)
  <2>1. \A i \in 1 .. Len(r) : at[r[i].thread] = "waiting"
    <3> SUFFICES ASSUME NEW i \in 1 .. Len(r) PROVE at[r[i].thread] = "waiting"
      OBVIOUS
    <3>1. n + i \in 1 .. Len(q) /\ r[i] = q[n + i]
      BY <1>2
    <3> QED BY <3>1 DEF InLine
  <2>2. ASSUME NEW i \in 1 .. Len(r), NEW j \in 1 .. Len(r), r[i].thread = r[j].thread
        PROVE  i = j
    <3>1. q[n + i].thread = q[n + j].thread
      BY <2>2
    <3>2. n + i = n + j
      BY <1>2, <3>1 DEF InLine
    <3> QED BY <1>1, <3>2
  <2> QED BY <2>1, <2>2 DEF InLine
<1>4. \A i \in 1 .. n, j \in 1 .. Len(r) : q[i].thread # r[j].thread
  BY <1>1, <1>2 DEF InLine
<1>5. ASSUME \A i \in 1 .. n : q[i].kind = "read"
      PROVE  WritersIn(r) = WritersIn(q)
  <2>1. \A t : t \in WritersIn(r) => t \in WritersIn(q)
    BY <1>1, <1>2 DEF WritersIn
  <2>2. \A t : t \in WritersIn(q) => t \in WritersIn(r)
    <3> SUFFICES ASSUME NEW i \in 1 .. Len(q), q[i].kind = "write"
                 PROVE  \E j \in 1 .. Len(r) : r[j] = q[i]
      BY DEF WritersIn
    <3>1. i \notin 1 .. n
      BY <1>5
    <3>2. i - n \in 1 .. Len(r) /\ n + (i - n) = i
      BY <1>1, <3>1
    <3> QED BY <3>2
  <2> QED BY <2>1, <2>2
<1> QED BY <1>3, <1>4, <1>5

----
(* The hand-over.                                                          *)

Good == Core' /\ GetsInInTurn

LastInside(t) == at[t] = "writing" \/ (at[t] = "reading" /\ activeReaders = 1)

\* Whoever leaves a lock that nobody else holds leaves the others out or
\* waiting.
LEMMA NobodyElseInside ==
  ASSUME Core, NEW t \in Threads,
         LastInside(t)
  PROVE  \A u \in Threads : u # t => at[u] \in {"out", "waiting"}
<1>1. IsFiniteSet(In("reading")) /\ Cardinality(In("reading")) = activeReaders
  BY DEF Core, Counts
<1>2. \A u \in Threads : at[u] \in {"out", "waiting", "reading", "writing"}
  BY DEF Core, RWTypeOK
<1>3. CASE at[t] = "writing"
  <2>1. In("reading") = {}
    BY <1>1, <1>3, FS_EmptySet DEF Core, OneWriter
  <2> QED BY <1>2, <1>3, <2>1 DEF Core, OneWriter, In
<1>4. CASE at[t] = "reading" /\ activeReaders = 1
  <2>1. PICK x : In("reading") = {x}
    BY <1>1, <1>4, FS_Singleton
  <2>2. x = t
    BY <1>4, <2>1 DEF In
  <2>3. ~writerActive
    BY <1>4 DEF Core, OneWriter
  <2> QED BY <1>2, <2>1, <2>2, <2>3 DEF Core, OneWriter, In
<1> QED BY <1>3, <1>4 DEF LastInside

\* An empty line: the lock is free.
LEMMA FreesLock ==
  ASSUME Core, NEW t \in Threads, Dispatch(t), waiters = <<>>,
         \A u \in Threads : u # t => at[u] \in {"out", "waiting"}
  PROVE  Good
<1>1. /\ at' = [at EXCEPT ![t] = "out"] /\ activeReaders' = 0 /\ writerActive' = FALSE
      /\ waiters' = <<>> /\ waitingWriters' = waitingWriters
  BY DEF Dispatch
<1>2. at \in [Threads -> {"out", "waiting", "reading", "writing"}]
  BY DEF Core, RWTypeOK
<1>3. \A u \in Threads : at'[u] \in {"out", "waiting"}
  BY <1>1, <1>2
<1>4. RWTypeOK'
  BY <1>1, <1>2 DEF Core, RWTypeOK
<1>5. OneWriter'
  BY <1>1, <1>3 DEF OneWriter
<1>6. Counts(In("reading"), activeReaders)'
  <2>1. In("reading")' = {}
    BY <1>3 DEF In
  <2> QED BY <1>1, <2>1, CountsNone
<1>7. InLine(waiters)'
  BY <1>1 DEF InLine
<1>8. Counts(WritersIn(waiters), waitingWriters)'
  BY <1>1 DEF Core
<1>9. NobodyWaitsForNothing'
  BY <1>1 DEF NobodyWaitsForNothing
<1>10. GetsInInTurn
  BY <1>3 DEF GetsInInTurn
<1> QED BY <1>4, <1>5, <1>6, <1>7, <1>8, <1>9, <1>10 DEF Core, Good

\* A writer in front: it alone gets the lock.
LEMMA HandsToWriter ==
  ASSUME Core, NEW t \in Threads, Dispatch(t), waiters # <<>>, Head(waiters).kind = "write",
         at[t] # "waiting",
         \A u \in Threads : u # t => at[u] \in {"out", "waiting"}
  PROVE  Good
<1> DEFINE w == Head(waiters).thread
<1>1. /\ at' = [[at EXCEPT ![t] = "out"] EXCEPT ![w] = "writing"]
      /\ activeReaders' = 0 /\ writerActive' = TRUE
      /\ waitingWriters' = waitingWriters - 1 /\ waiters' = Tail(waiters)
  BY DEF Dispatch
<1>2. /\ at \in [Threads -> {"out", "waiting", "reading", "writing"}]
      /\ waiters \in Seq(Waiter) /\ waitingWriters \in Nat /\ InLine(waiters)
  BY DEF Core, RWTypeOK, Waiter
<1>3. /\ Len(waiters) \in Nat \ {0} /\ Head(waiters) = waiters[1] /\ Head(waiters) \in Waiter
      /\ waiters' \in Seq(Waiter) /\ Len(waiters') = Len(waiters) - 1
      /\ \A i \in 1 .. Len(waiters') : waiters'[i] = waiters[1 + i]
  <2>1. /\ Tail(waiters) \in Seq(Waiter) /\ Len(Tail(waiters)) = Len(waiters) - 1
        /\ \A i \in 1 .. Len(Tail(waiters)) : Tail(waiters)[i] = waiters[i + 1]
        /\ Len(waiters) \in Nat \ {0} /\ Head(waiters) = waiters[1] /\ Head(waiters) \in Waiter
    BY <1>2, HeadFacts
  <2> QED BY <1>1, <2>1
<1>4. w \in Threads /\ at[w] = "waiting" /\ w # t
  BY <1>2, <1>3 DEF InLine, Waiter
<1> HIDE DEF w
<1>5. \A u \in Threads : at'[u] = IF u = w THEN "writing" ELSE IF u = t THEN "out" ELSE at[u]
  BY <1>1, <1>2, <1>4
<1>6. /\ InLine(waiters')
      /\ \A i \in 1 .. 1, j \in 1 .. Len(waiters') : waiters[i].thread # waiters'[j].thread
  <2>1. 1 \in 0 .. Len(waiters)
    BY <1>3
  <2> QED BY <1>2, <1>3, <2>1, Leaves
<1>7. \A j \in 1 .. Len(waiters') : /\ waiters'[j].thread \in Threads
                                   /\ waiters'[j].thread # w /\ at[waiters'[j].thread] = "waiting"
  <2> SUFFICES ASSUME NEW j \in 1 .. Len(waiters')
               PROVE  /\ waiters'[j].thread \in Threads
                      /\ waiters'[j].thread # w /\ at[waiters'[j].thread] = "waiting"
    OBVIOUS
  <2>1. waiters'[j] \in Waiter
    BY <1>3
  <2> QED BY <1>3, <1>6, <2>1 DEF InLine, Waiter, w
<1>8. InLine(waiters)'
  BY <1>5, <1>6, <1>7 DEF InLine
<1>9. RWTypeOK'
  <2>1. waitingWriters - 1 \in Nat
    <3>1. w \in WritersIn(waiters)
      BY <1>3 DEF WritersIn, w
    <3>2. IsFiniteSet(WritersIn(waiters)) /\ Cardinality(WritersIn(waiters)) = waitingWriters
      BY DEF Core, Counts
    <3>3. waitingWriters # 0
      BY <3>1, <3>2, FS_EmptySet
    <3> QED BY <1>2, <3>3
  <2> QED BY <1>1, <1>2, <1>3, <1>4, <2>1 DEF RWTypeOK, Waiter
<1>10. OneWriter'
  <2>1. writerActive' = TRUE /\ activeReaders' = 0 /\ at'[w] = "writing"
    BY <1>1, <1>4, <1>5
  <2>2. \A u \in Threads : at'[u] = "writing" => u = w
    BY <1>5
  <2> QED BY <1>4, <2>1, <2>2 DEF OneWriter
<1>11. Counts(In("reading"), activeReaders)'
  <2>1. In("reading")' = {}
    BY <1>5 DEF In
  <2> QED BY <1>1, <2>1, CountsNone
<1>12. Counts(WritersIn(waiters), waitingWriters)'
  <2>1. w \in WritersIn(waiters)
    BY <1>3 DEF WritersIn, w
  <2>2. \A x : x \in WritersIn(waiters') => x \in WritersIn(waiters) \ {w}
    <3> SUFFICES ASSUME NEW j \in 1 .. Len(waiters'), waiters'[j].kind = "write"
                 PROVE  waiters'[j].thread \in WritersIn(waiters) \ {w}
      BY DEF WritersIn
    <3>1. 1 + j \in 1 .. Len(waiters) /\ waiters'[j] = waiters[1 + j]
      BY <1>3
    <3> QED BY <1>7, <3>1 DEF WritersIn
  <2>3. \A x : x \in WritersIn(waiters) \ {w} => x \in WritersIn(waiters')
    <3> SUFFICES ASSUME NEW i \in 1 .. Len(waiters), waiters[i].kind = "write",
                        waiters[i].thread # w
                 PROVE  \E j \in 1 .. Len(waiters') : waiters'[j] = waiters[i]
      BY DEF WritersIn
    <3>1. i # 1
      BY <1>3 DEF w
    <3>2. i - 1 \in 1 .. Len(waiters') /\ 1 + (i - 1) = i
      BY <1>3, <3>1
    <3> QED BY <1>3, <3>2
  <2>4. WritersIn(waiters') = WritersIn(waiters) \ {w}
    BY <2>2, <2>3
  <2> QED BY <1>1, <2>1, <2>4, CountsOneLess DEF Core
<1>13. NobodyWaitsForNothing'
  <2>1. writerActive' = TRUE
    BY <1>1
  <2> QED BY <2>1 DEF NobodyWaitsForNothing
<1>14. GetsInInTurn
  <2> SUFFICES ASSUME NEW u \in Threads, at[u] \in {"out", "waiting"},
                      at'[u] \in {"reading", "writing"},
                      NEW i \in DOMAIN waiters, \A j \in Positions(u) : i < j
               PROVE  FALSE
    BY DEF GetsInInTurn
  <2>1. u = w
    BY <1>5
  <2>2. DOMAIN waiters = 1 .. Len(waiters)
    BY <1>2
  <2>3. 1 \in Positions(u)
    BY <1>3, <2>1, <2>2 DEF Positions, w
  <2> QED BY <1>3, <2>2, <2>3
<1> QED BY <1>8, <1>9, <1>10, <1>11, <1>12, <1>13, <1>14 DEF Core, Good

\* Readers in front: all of them get the lock, up to the first writer.
LEMMA HandsToReaders ==
  ASSUME Core, NEW t \in Threads, Dispatch(t), waiters # <<>>, Head(waiters).kind # "write",
         at[t] # "waiting",
         \A u \in Threads : u # t => at[u] \in {"out", "waiting"}
  PROVE  Good
<1> DEFINE n       == FrontReaders(waiters)
           readers == {waiters[i].thread : i \in 1 .. n}
<1>1. /\ at' = [u \in Threads |-> IF u \in readers THEN "reading"
                                  ELSE [at EXCEPT ![t] = "out"][u]]
      /\ activeReaders' = n /\ writerActive' = FALSE
      /\ waitingWriters' = waitingWriters
      /\ waiters' = SubSeq(waiters, n + 1, Len(waiters))
  BY DEF Dispatch
<1>2. /\ at \in [Threads -> {"out", "waiting", "reading", "writing"}]
      /\ waiters \in Seq(Waiter) /\ waitingWriters \in Nat /\ InLine(waiters)
  BY DEF Core, RWTypeOK, Waiter
<1>3. /\ n \in 0 .. Len(waiters)
      /\ \A i \in 1 .. n : waiters[i].kind = "read"
      /\ n < Len(waiters) => waiters[n + 1].kind = "write"
  BY <1>2, FrontReadersFacts
<1>4. Len(waiters) \in Nat \ {0} /\ Head(waiters) = waiters[1] /\ n > 0
  <2>1. Len(waiters) \in Nat \ {0} /\ Head(waiters) = waiters[1]
    BY <1>2, HeadFacts
  <2> QED BY <1>3, <2>1
<1> HIDE DEF n
<1>5. /\ waiters' \in Seq(Waiter) /\ Len(waiters') = Len(waiters) - n
      /\ \A i \in 1 .. Len(waiters') : waiters'[i] = waiters[n + i]
  <2>1. /\ SubSeq(waiters, n + 1, Len(waiters)) \in Seq(Waiter)
        /\ Len(SubSeq(waiters, n + 1, Len(waiters))) = Len(waiters) - n
        /\ \A i \in 1 .. Len(waiters) - n :
              SubSeq(waiters, n + 1, Len(waiters))[i] = waiters[n + i]
    BY <1>2, <1>3, SuffixFacts
  <2> QED BY <1>1, <2>1
<1>6. /\ InLine(waiters')
      /\ \A i \in 1 .. n, j \in 1 .. Len(waiters') : waiters[i].thread # waiters'[j].thread
      /\ WritersIn(waiters') = WritersIn(waiters)
  <2> DEFINE q == waiters r == waiters'
  <2>1. /\ q \in Seq(Waiter) /\ InLine(q) /\ n \in 0 .. Len(q) /\ r \in Seq(Waiter)
        /\ Len(r) = Len(q) - n /\ \A i \in 1 .. Len(r) : r[i] = q[n + i]
    BY <1>2, <1>3, <1>5
  <2>2. \A i \in 1 .. n : q[i].kind = "read"
    BY <1>3
  <2> HIDE DEF q, r
  <2>3. /\ InLine(r)
        /\ \A i \in 1 .. n, j \in 1 .. Len(r) : q[i].thread # r[j].thread
        /\ WritersIn(r) = WritersIn(q)
    BY <2>1, <2>2, Leaves
  <2> QED BY <2>3 DEF q, r
<1>7. \A i \in 1 .. Len(waiters) :
        waiters[i].thread \in Threads /\ at[waiters[i].thread] = "waiting"
  <2> SUFFICES ASSUME NEW i \in 1 .. Len(waiters)
               PROVE  waiters[i].thread \in Threads /\ at[waiters[i].thread] = "waiting"
    OBVIOUS
  <2>1. waiters[i] \in Waiter
    BY <1>2
  <2> QED BY <1>2, <2>1 DEF InLine, Waiter
<1>8. readers \subseteq Threads /\ \A u \in readers : at[u] = "waiting"
  BY <1>3, <1>4, <1>7
<1>9. \A u \in Threads : at'[u] = IF u \in readers THEN "reading"
                                 ELSE IF u = t THEN "out" ELSE at[u]
  <2> HIDE DEF readers
  <2> QED BY <1>1, <1>2, <1>8
<1>10. Counts(readers, n)
  <2> DEFINE f == [i \in 1 .. n |-> waiters[i].thread]
  <2>1. f \in [1 .. n -> readers]
    OBVIOUS
  <2>2. \A i, j \in 1 .. n : f[i] = f[j] => i = j
    BY <1>2, <1>3, <1>4 DEF InLine
  <2>3. \A u \in readers : \E i \in 1 .. n : f[i] = u
    OBVIOUS
  <2>4. ExistsBijection(1 .. n, readers)
    <3>0. DOMAIN f = 1 .. n
      OBVIOUS
    <3> HIDE DEF f, readers
    <3>1. f \in Injection(1 .. n, readers)
      BY <2>1, <2>2, <3>0 DEF Injection, IsInjective
    <3>2. f \in Surjection(1 .. n, readers)
      BY <2>1, <2>3 DEF Surjection
    <3> QED BY <3>1, <3>2 DEF ExistsBijection, Bijection
  <2>5. IsFiniteSet(1 .. n) /\ Cardinality(1 .. n) = n
    BY <1>3, <1>4, FS_Interval
  <2> HIDE DEF readers
  <2> QED BY <2>4, <2>5, FS_Bijection DEF Counts
<1>11. Counts(In("reading"), activeReaders)'
  <2>1. \A u \in Threads : at'[u] = "reading" <=> u \in readers
    BY <1>9
  <2>2. In("reading")' = readers
    <3> HIDE DEF readers
    <3> QED BY <1>8, <2>1 DEF In
  <2> HIDE DEF readers
  <2> QED BY <1>1, <1>10, <2>2
<1>12. \A j \in 1 .. Len(waiters') : /\ waiters'[j].thread \in Threads
                                    /\ waiters'[j].thread \notin readers
                                    /\ at[waiters'[j].thread] = "waiting"
  BY <1>3, <1>4, <1>5, <1>6, <1>7
<1> HIDE DEF readers
<1>13. InLine(waiters)'
  BY <1>6, <1>9, <1>12 DEF InLine
<1>14. RWTypeOK'
  <2>1. at' \in [Threads -> {"out", "waiting", "reading", "writing"}]
    BY <1>1, <1>2, <1>9
  <2> QED
    <3>1. n \in Nat
      BY <1>3, <1>4
    <3>2. activeReaders' \in Nat /\ waitingWriters' \in Nat
      BY <1>1, <1>2, <3>1
    <3>3. writerActive' \in BOOLEAN
      BY <1>1
    <3> QED BY <1>5, <2>1, <3>2, <3>3 DEF RWTypeOK, Waiter
<1>15. OneWriter'
  <2>1. writerActive' = FALSE /\ \A u \in Threads : at'[u] # "writing"
    BY <1>1, <1>9
  <2> QED BY <2>1 DEF OneWriter
<1>16. Counts(WritersIn(waiters), waitingWriters)'
  BY <1>1, <1>6 DEF Core
<1>17. NobodyWaitsForNothing'
  <2>1. ASSUME waiters' # <<>> PROVE Head(waiters').kind = "write"
    <3>1. Len(waiters') \in Nat \ {0} /\ Head(waiters') = waiters'[1]
      BY <1>5, <2>1, HeadFacts
    <3> QED BY <1>3, <1>4, <1>5, <3>1
  <2>2. activeReaders' > 0
    BY <1>1, <1>3, <1>4
  <2> QED BY <2>1, <2>2 DEF NobodyWaitsForNothing
<1>18. GetsInInTurn
  <2> SUFFICES ASSUME NEW u \in Threads, at[u] \in {"out", "waiting"},
                      at'[u] \in {"reading", "writing"},
                      NEW i \in DOMAIN waiters, \A j \in Positions(u) : i < j
               PROVE  at'[waiters[i].thread] # "waiting"
    BY DEF GetsInInTurn
  <2>1. u \in readers
    BY <1>9
  <2>2. PICK k \in 1 .. n : u = waiters[k].thread
    BY <2>1 DEF readers
  <2>3. DOMAIN waiters = 1 .. Len(waiters)
    BY <1>2
  <2>4. k \in Positions(u)
    BY <1>3, <1>4, <2>2, <2>3 DEF Positions
  <2>5. i \in 1 .. n
    BY <1>3, <1>4, <2>3, <2>4
  <2>6. waiters[i].thread \in readers /\ waiters[i].thread \in Threads
    BY <1>7, <2>3, <2>5 DEF readers
  <2> QED BY <1>9, <2>6
<1> QED BY <1>11, <1>13, <1>14, <1>15, <1>16, <1>17, <1>18 DEF Core, Good

LEMMA DispatchGood ==
  ASSUME Core, NEW t \in Threads, Dispatch(t),
         LastInside(t)
  PROVE  Good
<1>1. at[t] # "waiting"
  BY DEF LastInside
<1> QED BY <1>1, NobodyElseInside, FreesLock, HandsToWriter, HandsToReaders

----
(* The calls.                                                              *)

\* A lock that is free has nobody in line.
LEMMA FreeMeansNoLine ==
  ASSUME Core
  PROVE  /\ FreeForWriter => waiters = <<>>
         /\ FreeForReader => waiters = <<>>
<1>1. CASE waiters # <<>> /\ FreeForWriter
  BY <1>1 DEF Core, RWTypeOK, NobodyWaitsForNothing, FreeForWriter
<1>2. CASE waiters # <<>> /\ FreeForReader
  <2>1. waiters \in Seq(Waiter)
    BY DEF Core, RWTypeOK, Waiter
  <2>2. Len(waiters) \in Nat \ {0} /\ Head(waiters) = waiters[1] /\ Head(waiters) \in Waiter
    BY <1>2, <2>1, HeadFacts
  <2>3. Head(waiters).kind = "write"
    BY <1>2, <2>2 DEF Core, NobodyWaitsForNothing, FreeForReader, Waiter, Kinds
  <2>4. Head(waiters).thread \in WritersIn(waiters)
    BY <2>2, <2>3 DEF WritersIn
  <2>5. IsFiniteSet(WritersIn(waiters)) /\ Cardinality(WritersIn(waiters)) = 0
    BY <1>2 DEF Core, Counts, FreeForReader
  <2> QED BY <2>4, <2>5, FS_EmptySet
<1> QED BY <1>1, <1>2

\* A call that queues lets nobody in.
LEMMA QueuesGood ==
  ASSUME Core, NEW t \in Threads, at[t] = "out", NEW k \in Kinds,
         waiters' = Append(waiters, [kind |-> k, thread |-> t]),
         at' = [at EXCEPT ![t] = "waiting"],
         waitingWriters' = IF k = "write" THEN waitingWriters + 1 ELSE waitingWriters,
         UNCHANGED <<writerActive, activeReaders>>,
         writerActive \/ activeReaders > 0,
         k = "read" /\ waiters = <<>> => writerActive
  PROVE  Good
<1>0. RWTypeOK /\ InLine(waiters) /\ Counts(WritersIn(waiters), waitingWriters)
  BY DEF Core
<1>1. /\ waiters' \in Seq(Waiter) /\ Len(waiters') = Len(waiters) + 1
      /\ waiters' # <<>>
      /\ Head(waiters') = IF waiters = <<>> THEN [kind |-> k, thread |-> t] ELSE Head(waiters)
      /\ InLine(waiters)' /\ Counts(WritersIn(waiters), waitingWriters)'
  BY <1>0, Joins
<1>2. at \in [Threads -> {"out", "waiting", "reading", "writing"}]
  BY <1>0 DEF RWTypeOK
<1>3. \A u \in Threads : at'[u] = IF u = t THEN "waiting" ELSE at[u]
  BY <1>2
<1>4. RWTypeOK'
  <2>1. waitingWriters' \in Nat
    BY <1>0 DEF RWTypeOK
  <2>2. at' \in [Threads -> {"out", "waiting", "reading", "writing"}]
    BY <1>2
  <2> QED BY <1>0, <1>1, <2>1, <2>2 DEF RWTypeOK, Waiter
<1>5. OneWriter'
  BY <1>3 DEF Core, OneWriter
<1>6. Counts(In("reading"), activeReaders)'
  <2>1. In("reading")' = In("reading")
    BY <1>3 DEF In
  <2> QED BY <2>1 DEF Core
<1>7. NobodyWaitsForNothing'
  BY <1>1 DEF Core, NobodyWaitsForNothing
<1>8. GetsInInTurn
  BY <1>3 DEF GetsInInTurn
<1> QED BY <1>1, <1>4, <1>5, <1>6, <1>7, <1>8 DEF Core, Good

LEMMA LockGood ==
  ASSUME Core, NEW t \in Threads, Lock(t)
  PROVE  Good
<1> USE DEF Lock
<1>1. CASE ~FreeForWriter
  <2>1. writerActive \/ activeReaders > 0
    BY <1>1 DEF FreeForWriter, Core, RWTypeOK
  <2> QED BY <1>1, <2>1, QueuesGood DEF Kinds
<1>2. CASE FreeForWriter
  <2>1. waiters = <<>> /\ ~writerActive /\ activeReaders = 0
    BY <1>2, FreeMeansNoLine DEF FreeForWriter
  <2>2. at \in [Threads -> {"out", "waiting", "reading", "writing"}]
    BY DEF Core, RWTypeOK
  <2>3. \A u \in Threads : at'[u] = IF u = t THEN "writing" ELSE at[u]
    BY <1>2, <2>2
  <2>4. RWTypeOK'
    BY <1>2, <2>2 DEF Core, RWTypeOK
  <2>5. OneWriter'
    <3>1. writerActive' = TRUE /\ activeReaders' = 0
      BY <1>2, <2>1
    <3>2. \A u \in Threads : at'[u] = "writing" <=> u = t
      BY <2>1, <2>3 DEF Core, OneWriter
    <3> QED BY <3>1, <3>2 DEF OneWriter
  <2>6. Counts(In("reading"), activeReaders)'
    <3>1. In("reading")' = In("reading")
      BY <2>3 DEF In
    <3> QED BY <3>1 DEF Core
  <2>7. InLine(waiters)' /\ Counts(WritersIn(waiters), waitingWriters)'
    BY <1>2, <2>1 DEF Core, InLine
  <2>8. NobodyWaitsForNothing' /\ GetsInInTurn
    BY <1>2, <2>1 DEF NobodyWaitsForNothing, GetsInInTurn
  <2> QED BY <2>4, <2>5, <2>6, <2>7, <2>8 DEF Core, Good
<1> QED BY <1>1, <1>2

LEMMA RLockGood ==
  ASSUME Core, NEW t \in Threads, RLock(t)
  PROVE  Good
<1> USE DEF RLock
<1>1. CASE ~FreeForReader
  <2>1. writerActive \/ activeReaders > 0
    <3>1. ASSUME ~writerActive PROVE waiters # <<>>
      <4>1. waitingWriters # 0
        BY <1>1, <3>1 DEF FreeForReader
      <4>2. ASSUME waiters = <<>> PROVE WritersIn(waiters) = {}
        BY <4>2 DEF WritersIn
      <4> QED BY <4>1, <4>2, FS_EmptySet DEF Core, Counts
    <3> QED BY <3>1 DEF Core, NobodyWaitsForNothing
  <2>2. waiters = <<>> => writerActive
    <3>1. ASSUME waiters = <<>> PROVE waitingWriters = 0
      <4>1. WritersIn(waiters) = {}
        BY <3>1 DEF WritersIn
      <4> QED BY <4>1, FS_EmptySet DEF Core, Counts
    <3> QED BY <1>1, <3>1 DEF FreeForReader
  <2> QED BY <1>1, <2>1, <2>2, QueuesGood DEF Kinds
<1>2. CASE FreeForReader
  <2>1. waiters = <<>> /\ ~writerActive
    BY <1>2, FreeMeansNoLine DEF FreeForReader
  <2>2. at \in [Threads -> {"out", "waiting", "reading", "writing"}]
    BY DEF Core, RWTypeOK
  <2>3. \A u \in Threads : at'[u] = IF u = t THEN "reading" ELSE at[u]
    BY <1>2, <2>2
  <2>4. RWTypeOK'
    BY <1>2, <2>2 DEF Core, RWTypeOK
  <2>5. OneWriter'
    BY <1>2, <2>1, <2>3 DEF Core, OneWriter
  <2>6. Counts(In("reading"), activeReaders)'
    <3>1. In("reading")' = In("reading") \cup {t} /\ t \notin In("reading")
      BY <2>3 DEF In
    <3> QED BY <1>2, <3>1, CountsOneMore DEF Core
  <2>7. InLine(waiters)' /\ Counts(WritersIn(waiters), waitingWriters)'
    BY <1>2, <2>1 DEF Core, InLine
  <2>8. NobodyWaitsForNothing' /\ GetsInInTurn
    BY <1>2, <2>1 DEF NobodyWaitsForNothing, GetsInInTurn
  <2> QED BY <2>4, <2>5, <2>6, <2>7, <2>8 DEF Core, Good
<1> QED BY <1>1, <1>2

LEMMA UnlockGood ==
  ASSUME Core, NEW t \in Threads, Unlock(t)
  PROVE  Good
<1>1. LastInside(t) /\ Dispatch(t)
  BY DEF Unlock, LastInside
<1> QED BY <1>1, DispatchGood

LEMMA RUnlockGood ==
  ASSUME Core, NEW t \in Threads, RUnlock(t)
  PROVE  Good
<1> USE DEF RUnlock
<1>1. CASE activeReaders = 1
  BY <1>1, DispatchGood DEF LastInside
<1>2. CASE activeReaders # 1
  <2>1. /\ at \in [Threads -> {"out", "waiting", "reading", "writing"}]
        /\ activeReaders \in Nat
    BY DEF Core, RWTypeOK
  <2>2. \A u \in Threads : at'[u] = IF u = t THEN "out" ELSE at[u]
    BY <1>2, <2>1
  <2>3. activeReaders # 0
    <3>1. t \in In("reading")
      BY DEF In
    <3> QED BY <3>1, FS_EmptySet DEF Core, Counts
  <2>4. activeReaders' \in Nat /\ activeReaders' > 0
    BY <1>2, <2>1, <2>3
  <2>5. RWTypeOK'
    BY <1>2, <2>1, <2>4 DEF Core, RWTypeOK
  <2>6. OneWriter'
    <3>1. ~writerActive
      BY <2>3 DEF Core, OneWriter
    <3>2. \A u \in Threads : at'[u] # "writing"
      BY <2>2, <3>1 DEF Core, OneWriter
    <3> QED BY <1>2, <3>1, <3>2 DEF OneWriter
  <2>7. Counts(In("reading"), activeReaders)'
    <3>1. In("reading")' = In("reading") \ {t} /\ t \in In("reading")
      BY <2>2 DEF In
    <3> QED BY <1>2, <3>1, CountsOneLess DEF Core
  <2>8. InLine(waiters)' /\ Counts(WritersIn(waiters), waitingWriters)'
    <3>1. waiters \in Seq(Waiter)
      BY DEF Core, RWTypeOK, Waiter
    <3>2. \A i \in 1 .. Len(waiters) : waiters[i] \in Waiter
      BY <3>1
    <3>3. \A i \in 1 .. Len(waiters) : at'[waiters[i].thread] = "waiting"
      BY <2>2, <3>2 DEF Core, InLine, Waiter
    <3> QED BY <1>2, <3>3 DEF Core, InLine
  <2>9. NobodyWaitsForNothing'
    BY <1>2, <2>4 DEF Core, NobodyWaitsForNothing
  <2>10. GetsInInTurn
    BY <2>2 DEF GetsInInTurn
  <2> QED BY <2>5, <2>6, <2>7, <2>8, <2>9, <2>10 DEF Core, Good
<1> QED BY <1>1, <1>2

----
(* The theorems.                                                           *)

LEMMA NobodyInLine == <<>> \in Seq(Waiter)
  OBVIOUS

LEMMA InitCore == RWInit => Core
<1> SUFFICES ASSUME RWInit PROVE Core
  OBVIOUS
<1> USE DEF RWInit
<1>1. RWTypeOK /\ InLine(waiters) /\ OneWriter /\ NobodyWaitsForNothing
  <2>1. RWTypeOK
    <3>1. /\ waiters \in Seq(Waiter) /\ activeReaders \in Nat /\ waitingWriters \in Nat
          /\ writerActive \in BOOLEAN
      BY NobodyInLine
    <3>2. at \in [Threads -> {"out", "waiting", "reading", "writing"}]
      OBVIOUS
    <3> QED BY <3>1, <3>2 DEF RWTypeOK, Waiter
  <2>2. InLine(waiters) /\ NobodyWaitsForNothing
    BY DEF InLine, NobodyWaitsForNothing
  <2>3. OneWriter
    BY DEF OneWriter
  <2> QED BY <2>1, <2>2, <2>3
<1>2. In("reading") = {} /\ WritersIn(waiters) = {}
  BY DEF In, WritersIn
<1> QED BY <1>1, <1>2, CountsNone DEF Core

LEMMA NextGood ==
  ASSUME Core, [RWNext]_rwVars
  PROVE  Core' /\ [GetsInInTurn]_rwVars
<1>1. CASE UNCHANGED rwVars
  <2>1. UNCHANGED <<activeReaders, writerActive, waitingWriters, waiters, at>>
    BY <1>1 DEF rwVars
  <2>2. RWTypeOK' /\ InLine(waiters)' /\ OneWriter' /\ NobodyWaitsForNothing'
    BY <2>1 DEF Core, RWTypeOK, InLine, OneWriter, NobodyWaitsForNothing
  <2>3. In("reading")' = In("reading") /\ WritersIn(waiters)' = WritersIn(waiters)
    BY <2>1 DEF In, WritersIn
  <2> QED BY <1>1, <2>1, <2>2, <2>3 DEF Core
<1>2. CASE RWNext
  BY <1>2, LockGood, RLockGood, UnlockGood, RUnlockGood DEF RWNext, Good
<1> QED BY <1>1, <1>2

\* The inductive invariant: the line, its writers and the threads inside are
\* what the counters and the flag say.
THEOREM CountersAgree == RWSpec => []Core
<1>1. Core /\ [RWNext]_rwVars => Core'
  BY NextGood
<1> QED BY InitCore, <1>1, PTL DEF RWSpec

LEMMA CoreImpliesExclusion == Core => Exclusion
<1> SUFFICES ASSUME Core PROVE Exclusion
  OBVIOUS
<1>1. CASE writerActive
  <2>1. PICK t \in Threads : at[t] = "writing"
    BY <1>1 DEF Core, OneWriter
  <2>2. In("writing") = {t}
    BY <2>1 DEF Core, OneWriter, In
  <2>3. Cardinality(In("writing")) = 1
    BY <2>2, FS_Singleton
  <2> QED BY <1>1, <2>3 DEF Core, OneWriter, Counts, Exclusion
<1>2. CASE ~writerActive
  <2>1. In("writing") = {}
    BY <1>2 DEF Core, OneWriter, In
  <2>2. Cardinality(In("writing")) = 0
    BY <2>1, FS_EmptySet
  <2> QED BY <1>2, <2>2 DEF Core, OneWriter, Counts, Exclusion
<1> QED BY <1>1, <1>2

\* RWMutex keeps a writer alone, counts exactly who is inside, and lets
\* nobody wait for a lock that dispatch() could have handed over.
THEOREM LockSoundness == RWSpec => []RWMutexIsSound
<1>1. Core => RWMutexIsSound
  BY CoreImpliesExclusion DEF Core, RWMutexIsSound
<1> QED BY <1>1, CountersAgree, PTL

\* Whoever gets the lock, by lock(), rLock() or a hand-over in dispatch(),
\* leaves nobody waiting who stood in line before it.
THEOREM FirstComeFirstServed == RWSpec => NoOvertaking
<1>1. Core /\ [RWNext]_rwVars => [GetsInInTurn]_rwVars
  BY NextGood
<1> QED BY <1>1, CountersAgree, PTL DEF RWSpec, NoOvertaking

----
(* EtcdLock and AllocatableRange.  The lock: a lease is alive exactly      *)
(* while the body it was taken for runs, and its expiry timer is as old    *)
(* as its keep-alive, so the keep-alive always comes first.  The range:    *)
(* whoever is inside knows what the keys say, and they differ from what    *)
(* is owned by the one index in flight.                                    *)

\* A live lease is that of the body inside, and is being kept alive.
LeaseIsKept ==
  \A c \in leases : holder = c /\ pc[c] = "inside" /\ age[c] = beat[c]

LockCore ==
  /\ LockIsSound
  /\ LeaseIsKept
  /\ \A c \in Clients : pc[c] = "select" => c \in listening

LEMMA IntervalFacts == Interval \in 1 .. (TTL - 1)
  BY LockAssumption DEF Interval

LEMMA LockStart == LockInit => LockCore
  BY LockAssumption, IntervalFacts
  DEF LockInit, LockCore, LockIsSound, LockTypeOK, MutualExclusion, KeyHasLease,
      WaitingIsForSomeone, LeaseIsKept

----
(* The lock.                                                               *)

\* What a caller does that takes the key, which is absent: so no lease is
\* alive and nobody is inside.
LEMMA Takes ==
  ASSUME LockCore, NEW c \in Clients, pc[c] \in {"idle", "opening"},
         acquireLock(c), pc' = [pc EXCEPT ![c] = "inside"],
         UNCHANGED <<listening, deleted, late, canceled>>
  PROVE  LockCore'
<1> USE LockAssumption, IntervalFacts DEF LockCore, LockIsSound
<1>1. leases = {} /\ \A d \in Clients : pc[d] # "inside"
  BY DEF acquireLock, MutualExclusion, LeaseIsKept, LockTypeOK
<1>2. holder' = c /\ leases' = {c} /\ age'[c] = 0 /\ beat'[c] = 0
  BY <1>1 DEF acquireLock, LockTypeOK
<1>3. /\ pc'[c] = "inside"
      /\ \A d \in Clients : d # c => pc'[d] = pc[d]
  BY DEF LockTypeOK
<1>4. LockTypeOK'
  BY DEF acquireLock, LockTypeOK
<1>5. MutualExclusion' /\ KeyHasLease' /\ LeaseIsKept'
  BY <1>1, <1>2, <1>3 DEF MutualExclusion, KeyHasLease, LeaseIsKept
<1>6. WaitingIsForSomeone' /\ \A d \in Clients : pc'[d] = "select" => d \in listening'
  BY <1>2, <1>3 DEF WaitingIsForSomeone
<1> QED BY <1>4, <1>5, <1>6

\* A step of one caller that leaves the key and its lease alone, neither
\* entering nor leaving a body.
LEMMA Keeps ==
  ASSUME LockCore, LockTypeOK',
         UNCHANGED <<holder, leases, age, beat>>,
         \A d \in Clients : pc[d] = "inside" <=> pc'[d] = "inside",
         WaitingIsForSomeone',
         \A d \in Clients : pc'[d] = "select" => d \in listening'
  PROVE  LockCore'
<1> USE DEF LockCore, LockIsSound
<1>1. leases \subseteq Clients
  BY DEF LockTypeOK
<1>2. MutualExclusion' /\ KeyHasLease' /\ LeaseIsKept'
  BY <1>1 DEF MutualExclusion, KeyHasLease, LeaseIsKept
<1> QED BY <1>2

LEMMA ProceedsKeeps == ASSUME LockCore, NEW c \in Clients, Proceeds(c) PROVE LockCore'
<1> USE DEF LockCore, LockIsSound
<1>1. CASE Acquire(c)
  BY <1>1, Takes DEF Acquire
<1>2. CASE RetryAcquires(c)
  BY <1>2, Takes DEF RetryAcquires
<1>3. CASE OpenWatch(c)
  <2>1. LockTypeOK'
    BY <1>3 DEF OpenWatch, LockTypeOK
  <2>2. \A d \in Clients : pc[d] = "inside" <=> pc'[d] = "inside"
    BY <1>3 DEF OpenWatch, LockTypeOK
  <2>3. WaitingIsForSomeone' /\ \A d \in Clients : pc'[d] = "select" => d \in listening'
    BY <1>3 DEF OpenWatch, LockTypeOK, WaitingIsForSomeone
  <2> QED BY <1>3, <2>1, <2>2, <2>3, Keeps DEF OpenWatch
<1>4. CASE GiveUp(c)
  <2>1. LockTypeOK'
    BY <1>4 DEF GiveUp, LockTypeOK
  <2>2. \A d \in Clients : pc[d] = "inside" <=> pc'[d] = "inside"
    BY <1>4 DEF GiveUp, LockTypeOK
  <2>3. WaitingIsForSomeone' /\ \A d \in Clients : pc'[d] = "select" => d \in listening'
    BY <1>4 DEF GiveUp, LockTypeOK, WaitingIsForSomeone
  <2> QED BY <1>4, <2>1, <2>2, <2>3, Keeps DEF GiveUp
<1>5. CASE RetryWaits(c)
  <2>1. LockTypeOK'
    BY <1>5 DEF RetryWaits, LockTypeOK
  <2>2. \A d \in Clients : pc[d] = "inside" <=> pc'[d] = "inside"
    BY <1>5 DEF RetryWaits, LockTypeOK
  <2>3. WaitingIsForSomeone' /\ \A d \in Clients : pc'[d] = "select" => d \in listening'
    BY <1>5 DEF RetryWaits, LockTypeOK, WaitingIsForSomeone
  <2> QED BY <1>5, <2>1, <2>2, <2>3, Keeps DEF RetryWaits
<1>6. CASE SelectReturns(c)
  <2>1. LockTypeOK' /\ pc'[c] \in {"idle", "ended"}
    BY <1>6 DEF SelectReturns, LockTypeOK
  <2>2. /\ \A d \in Clients : d # c => pc'[d] = pc[d]
        /\ \A d \in Clients : pc[d] = "inside" <=> pc'[d] = "inside"
    BY <1>6 DEF SelectReturns, LockTypeOK
  <2>3. WaitingIsForSomeone' /\ \A d \in Clients : pc'[d] = "select" => d \in listening'
    BY <1>6, <2>1, <2>2 DEF SelectReturns, WaitingIsForSomeone
  <2> QED BY <1>6, <2>1, <2>2, <2>3, Keeps DEF SelectReturns
<1> QED BY <1>1, <1>2, <1>3, <1>4, <1>5, <1>6 DEF Proceeds

\* The body that leaves has the only lease: the key goes, and everybody who
\* waits is told.
LEMMA LeaveKeeps == ASSUME LockCore, NEW c \in Clients, Leave(c) PROVE LockCore'
<1> USE LockAssumption DEF LockCore, LockIsSound
<1>1. c \in leases /\ holder = c /\ leases = {c}
  BY DEF Leave, MutualExclusion, LeaseIsKept
<1>2. leases' = {} /\ holder' = Nobody /\ deleted' = deleted \cup listening
  BY <1>1 DEF Leave, revokeLease
<1>3. /\ pc'[c] = "ended" /\ listening' = listening
      /\ \A d \in Clients : d # c => pc'[d] = pc[d] /\ pc[d] # "inside"
  BY <1>1 DEF Leave, LockTypeOK, MutualExclusion
<1>4. LockTypeOK'
  BY <1>1, <1>2 DEF Leave, revokeLease, LockTypeOK
<1>5. MutualExclusion' /\ KeyHasLease' /\ LeaseIsKept'
  BY <1>2, <1>3 DEF MutualExclusion, KeyHasLease, LeaseIsKept
<1>6. WaitingIsForSomeone' /\ \A d \in Clients : pc'[d] = "select" => d \in listening'
  BY <1>2, <1>3 DEF WaitingIsForSomeone
<1> QED BY <1>4, <1>5, <1>6

\* The expiry of a lease never comes: its timer is as old as the keep-alive,
\* which beats at a third of the time to live.
LEMMA TimerKeeps == ASSUME LockCore, NEW c \in Clients, TimerFires(c) PROVE LockCore'
<1> USE LockAssumption, IntervalFacts DEF LockCore, LockIsSound
<1>1. c \in leases /\ age[c] = beat[c] /\ beat[c] \in 0 .. Interval
  BY DEF TimerFires, LeaseIsKept, LockTypeOK
<1>2. age[c] # TTL
  BY <1>1
<1>3. refreshLease(c) /\ UNCHANGED <<pc, listening, late, canceled>>
  BY <1>2 DEF TimerFires
<1>4. LockTypeOK'
  BY <1>3 DEF refreshLease, LockTypeOK
<1>5. LeaseIsKept'
  <2> SUFFICES ASSUME NEW d \in leases'
               PROVE  holder' = d /\ pc'[d] = "inside" /\ age'[d] = beat'[d]
    BY DEF LeaseIsKept
  <2>1. d \in leases /\ d \in Clients /\ holder = d /\ pc[d] = "inside" /\ age[d] = beat[d]
    BY <1>3 DEF refreshLease, LeaseIsKept, LockTypeOK
  <2>2. age'[d] = beat'[d]
    BY <1>3, <2>1 DEF refreshLease, LockTypeOK
  <2> QED BY <1>3, <2>1, <2>2 DEF refreshLease
<1>6. MutualExclusion' /\ KeyHasLease' /\ WaitingIsForSomeone'
  BY <1>3 DEF refreshLease, MutualExclusion, KeyHasLease, WaitingIsForSomeone
<1>7. \A d \in Clients : pc'[d] = "select" => d \in listening'
  BY <1>3
<1> QED BY <1>4, <1>5, <1>6, <1>7

LEMMA TickKeeps == ASSUME LockCore, Tick PROVE LockCore'
<1> USE LockAssumption, IntervalFacts DEF LockCore, LockIsSound
<1>1. leases \subseteq Clients
  BY DEF LockTypeOK
<1>2. \A d \in leases : age[d] \in 0 .. TTL /\ age[d] < TTL /\ beat[d] \in 0 .. Interval
                        /\ beat[d] < Interval
  BY <1>1 DEF Tick, LockTypeOK
<1>3. age' \in [Clients -> 0 .. TTL] /\ beat' \in [Clients -> 0 .. Interval]
  BY <1>2 DEF Tick, LockTypeOK
<1>4. LockTypeOK'
  BY <1>3 DEF Tick, LockTypeOK
<1>5. LeaseIsKept'
  BY <1>1 DEF Tick, LeaseIsKept
<1>6. /\ MutualExclusion' /\ KeyHasLease' /\ WaitingIsForSomeone'
      /\ \A d \in Clients : pc'[d] = "select" => d \in listening'
  BY DEF Tick, MutualExclusion, KeyHasLease, WaitingIsForSomeone
<1> QED BY <1>4, <1>5, <1>6

LEMMA LockStep == LockCore /\ [LockNext]_lockVars => LockCore'
<1> SUFFICES ASSUME LockCore, [LockNext]_lockVars PROVE LockCore'
  OBVIOUS
<1>1. CASE \E c \in Clients : Proceeds(c)
  BY <1>1, ProceedsKeeps
<1>2. CASE \E c \in Clients : Leave(c)
  BY <1>2, LeaveKeeps
<1>3. CASE \E c \in Clients : Deadline(c) \/ Cancel(c)
  <2>1. LockTypeOK' /\ UNCHANGED <<holder, leases, age, beat, pc, listening, deleted>>
    BY <1>3 DEF Deadline, Cancel, LockCore, LockIsSound, LockTypeOK
  <2> QED BY <2>1, Keeps DEF LockCore, LockIsSound, WaitingIsForSomeone
<1>4. CASE Timers
  BY <1>4, TimerKeeps DEF Timers
<1>5. CASE Tick
  BY <1>5, TickKeeps
<1>6. CASE UNCHANGED lockVars
  BY <1>6 DEF lockVars, LockCore, LockIsSound, LockTypeOK, MutualExclusion, KeyHasLease,
              WaitingIsForSomeone, LeaseIsKept
<1> QED BY <1>1, <1>2, <1>3, <1>4, <1>5, <1>6 DEF LockNext

\* Etcd.withLock: one body runs at a time and its key is in the store for as
\* long as it does, no key outlives its lease, and no call waits for a
\* deletion that has already been.
THEOREM LockSafety == LockSpec => []LockIsSound
<1>1. LockCore => LockIsSound
  BY DEF LockCore
<1> QED BY <1>1, LockStart, LockStep, PTL DEF LockSpec

----
(* The range.                                                              *)

Taken == UNION {owned[d] : d \in Clients}

\* The bitmap is written and the grant is not made yet.
Written(c) ==
  /\ claim[c].outcome = "none"
  /\ \/ claim[c].op = "allocate" /\ claim[c].step \in {5, 6}
     \/ claim[c].op \in {"claim", "release"} /\ claim[c].step = 4

\* The keys while the body of c runs: they say what is owned, but for the one
\* index whose grant or release is in flight.
KeysFollow(c) ==
  /\ used = Cardinality(Taken)
  /\ bits = IF ~Written(c) THEN Taken
            ELSE IF claim[c].op = "release" THEN Taken \ {claim[c].index}
            ELSE Taken \cup {claim[c].index}

\* What the body of c has read is what the keys say.
ReadIsFresh(c) ==
  claim[c].outcome = "none" =>
    /\ claim[c].op = "allocate" /\ claim[c].step \in 3 .. 6 => claim[c].used = used
    /\ claim[c].op = "allocate" /\ claim[c].step = 4 => claim[c].bits = bits
    /\ claim[c].op \in {"claim", "release"} /\ claim[c].step \in 3 .. 4 => claim[c].used = used
    /\ claim[c].op \in {"claim", "release"} /\ claim[c].step \in 2 .. 3 => claim[c].bits = bits

\* The index of c is one it may be granted, or one it owns and gives up.
IndexIsRight(c) ==
  claim[c].outcome = "none" =>
    /\ claim[c].op = "allocate" /\ claim[c].step \in 4 .. 6 => claim[c].index \in Indices \ Taken
    /\ claim[c].op = "claim" /\ claim[c].step \in 2 .. 4 => claim[c].index \in Indices \ Taken
    /\ claim[c].op = "release" /\ claim[c].step \in 1 .. 4 => claim[c].index \in owned[c]

\* A call that has not got the lock has done nothing.
Untouched(c) ==
  /\ claim[c].step = 1 /\ claim[c].outcome = "none"
  /\ claim[c].op = "release" => claim[c].index \in owned[c]

RangeCore ==
  /\ RangeTypeOK
  /\ NoIndexTwice
  /\ holder = Nobody => bits = Taken /\ used = Cardinality(Taken)
  /\ \A c \in Clients : pc[c] = "inside" => KeysFollow(c) /\ ReadIsFresh(c) /\ IndexIsRight(c)
  /\ \A c \in Clients : pc[c] \in {"idle", "opening", "select"} => Untouched(c)
  /\ \A c \in Clients : claim[c].op # "allocate" => claim[c].index \in Indices
  /\ RefusedOnlyWhenFull

LEMMA IndexFacts ==
  /\ Size \in Nat \ {0} /\ Indices = 0 .. (Size - 1)
  /\ IsFiniteSet(Indices) /\ Cardinality(Indices) = Size
<1>1. Size \in Nat \ {0} /\ Indices = 0 .. (Size - 1)
  BY SizeAssumption DEF Indices
<1>2. IsFiniteSet(0 .. (Size - 1)) /\ Cardinality(0 .. (Size - 1)) = Size
  BY <1>1, FS_Interval
<1> QED BY <1>1, <1>2

\* A set of indices is as large as its count says.
LEMMA Sizes ==
  ASSUME NEW S \in SUBSET Indices
  PROVE  /\ IsFiniteSet(S) /\ Cardinality(S) \in 0 .. Size
         /\ Cardinality(S) >= Size => S = Indices
<1>1. IsFiniteSet(S) /\ Cardinality(S) <= Size /\ (Cardinality(S) = Size => S = Indices)
  BY IndexFacts, FS_Subset
<1>2. Cardinality(S) \in Nat
  BY <1>1, FS_CardinalityType
<1> QED BY <1>1, <1>2, IndexFacts

LEMMA TakenAreIndices ==
  ASSUME RangeTypeOK
  PROVE  Taken \in SUBSET Indices
  BY DEF RangeTypeOK, Taken

\* allocate() finds a free index as long as there is one.
LEMMA FirstFreeIsFree ==
  ASSUME NEW S \in SUBSET Indices, S # Indices, NEW from \in Indices
  PROVE  FirstFree(S, from) \in Indices \ S
<1> DEFINE try(n) == (from + n) % Size
           full == {n \in Indices : \A m \in 0 .. n : try(m) \in S}
           k == Cardinality(full)
<1>1. from \in 0 .. (Size - 1) /\ Size \in Nat \ {0}
  BY IndexFacts
<1>2. \A n \in Nat : try(n) \in Indices
  BY <1>1, IndexFacts
<1>3. /\ full \in SUBSET Indices
      /\ \A n \in Indices : n \in full <=> \A m \in 0 .. n : try(m) \in S
  OBVIOUS
<1>4. FirstFree(S, from) = try(k)
  BY DEF FirstFree
<1> HIDE DEF full
<1>5. k \in 0 .. Size /\ IsFiniteSet(full) /\ (k = Size => full = Indices)
  BY <1>3, Sizes
\* The tries that meet a set bit are the first k.
<1>6. \A n \in full : 0 .. n \in SUBSET full
  <2> SUFFICES ASSUME NEW n \in full, NEW m \in 0 .. n PROVE m \in full
    OBVIOUS
  <2>1. n \in Indices /\ m \in Indices /\ \A l \in 0 .. m : l \in 0 .. n
    BY <1>3, IndexFacts
  <2> QED BY <1>3, <2>1
<1>7. k \notin full
  <2> SUFFICES ASSUME k \in full PROVE FALSE
    OBVIOUS
  <2>1. IsFiniteSet(0 .. k) /\ Cardinality(0 .. k) = k + 1
    BY <1>5, IndexFacts, FS_Interval
  <2>2. Cardinality(0 .. k) <= k
    BY <1>5, <1>6, FS_Subset
  <2> HIDE DEF k
  <2> QED BY <1>5, <2>1, <2>2, IndexFacts
<1>8. \A m \in Nat : m < k => m \in full
  <2> SUFFICES ASSUME NEW m \in Nat, m < k, m \notin full PROVE FALSE
    OBVIOUS
  <2>1. full \in SUBSET (0 .. (m - 1))
    <3> SUFFICES ASSUME NEW n \in full PROVE n \in 0 .. (m - 1)
      OBVIOUS
    <3>1. n \in Nat /\ m \notin 0 .. n
      BY <1>3, <1>6, IndexFacts
    <3> QED BY <3>1
  <2>2. m - 1 \in Int /\ 0 \in Int /\ (m - 1) - 0 + 1 = m
    OBVIOUS
  <2>3. IsFiniteSet(0 .. (m - 1)) /\ Cardinality(0 .. (m - 1)) = IF 0 > m - 1 THEN 0 ELSE m
    BY <2>2, FS_Interval
  <2>4. IsFiniteSet(0 .. (m - 1)) /\ Cardinality(0 .. (m - 1)) = m
    BY <2>3
  <2>5. k <= m
    BY <2>1, <2>4, FS_Subset
  <2> HIDE DEF k
  <2> QED BY <1>5, <2>5, IndexFacts
<1>9. k # Size
  <2> SUFFICES ASSUME k = Size PROVE FALSE
    OBVIOUS
  <2>1. \A n \in Indices : try(n) \in S
    <3> SUFFICES ASSUME NEW n \in Indices PROVE try(n) \in S
      OBVIOUS
    <3>1. n \in 0 .. n
      BY IndexFacts
    <3> HIDE DEF k, try
    <3> QED BY <1>3, <1>5, <3>1
  <2>2. \A i \in Indices : \E n \in Indices : try(n) = i
    <3> SUFFICES ASSUME NEW i \in Indices PROVE \E n \in Indices : try(n) = i
      OBVIOUS
    <3>1. i \in 0 .. (Size - 1)
      BY IndexFacts
    <3>2. CASE i >= from
      <4>1. i - from \in Indices /\ try(i - from) = i
        BY <1>1, <3>1, <3>2, IndexFacts
      <4> QED BY <4>1
    <3>3. CASE i < from
      <4>1. i - from + Size \in Indices /\ from + (i - from + Size) = i + Size
        BY <1>1, <3>1, <3>3, IndexFacts
      <4>2. (i + Size) % Size = i
        BY <1>1, <3>1
      <4> QED BY <4>1, <4>2
    <3> QED BY <1>1, <3>1, <3>2, <3>3
  <2> QED BY <2>1, <2>2
<1>10. k \in Indices
  BY <1>5, <1>9, IndexFacts
<1> HIDE DEF k
<1>11. try(k) \notin S
  <2> SUFFICES ASSUME try(k) \in S PROVE FALSE
    OBVIOUS
  <2>1. ASSUME NEW m \in 0 .. k PROVE try(m) \in S
    <3>1. CASE m = k
      BY <3>1
    <3>2. CASE m # k
      <4>1. m \in Nat /\ m < k
        BY <1>10, <3>2, IndexFacts
      <4>2. m \in full /\ m \in Indices /\ m \in 0 .. m
        BY <1>3, <1>8, <4>1
      <4> HIDE DEF try
      <4> QED BY <1>3, <4>2
    <3> QED BY <3>1, <3>2
  <2> HIDE DEF try
  <2> QED BY <1>3, <1>7, <1>10, <2>1
<1> QED BY <1>2, <1>4, <1>10, <1>11, IndexFacts

----
(* The steps of the range.                                                 *)

LEMMA RangeStart == RangeInit => RangeCore
<1> SUFFICES ASSUME RangeInit PROVE RangeCore
  OBVIOUS
<1>1. LockTypeOK /\ holder = Nobody /\ \A c \in Clients : pc[c] = "idle"
  BY LockStart DEF RangeInit, LockInit, LockCore, LockIsSound
<1>2. bits = Taken /\ bits \in SUBSET Indices /\ used = Cardinality(bits) /\ used \in 0 .. Size
  BY Sizes DEF RangeInit, Taken
<1>3. \A c \in Clients : claim[c] \in RangeRequests
  BY DEF RangeInit
<1>4. ASSUME NEW c \in Clients
      PROVE  /\ claim[c] \in CallType /\ Untouched(c)
             /\ claim[c].op # "allocate" => claim[c].index \in Indices
  BY <1>3, IndexFacts
  DEF RangeInit, RangeRequests, Request, Operations, CallType, NoIndex, Untouched
<1>5. RangeTypeOK
  BY <1>1, <1>2, <1>4 DEF RangeInit, RangeTypeOK
<1>6. NoIndexTwice
  BY DEF RangeInit, NoIndexTwice
<1>7. RefusedOnlyWhenFull
  BY <1>1 DEF RefusedOnlyWhenFull, Refused
<1> QED BY <1>1, <1>2, <1>4, <1>5, <1>6, <1>7 DEF RangeCore

\* A step of the lock.  A caller only enters when the key is absent, and only
\* one whose writes are complete leaves.
LEMMA LockMoves ==
  ASSUME RangeCore, LockTypeOK', UNCHANGED rangeVars,
         \A d \in Clients : pc'[d] = "inside" =>
           pc[d] = "inside" \/ (pc[d] \in {"idle", "opening"} /\ holder = Nobody),
         \A d \in Clients :
           pc'[d] \in {"idle", "opening", "select"} => pc[d] \in {"idle", "opening", "select"},
         holder' = Nobody =>
           holder = Nobody \/ (\E c \in Clients : pc[c] = "inside" /\ ~Written(c))
  PROVE  RangeCore'
<1> USE DEF RangeCore
<1>1. /\ Taken' = Taken
      /\ \A c \in Clients : /\ Written(c)' = Written(c) /\ KeysFollow(c)' = KeysFollow(c)
                            /\ ReadIsFresh(c)' = ReadIsFresh(c)
                            /\ IndexIsRight(c)' = IndexIsRight(c)
                            /\ Untouched(c)' = Untouched(c)
  BY DEF rangeVars, Taken, Written, KeysFollow, ReadIsFresh, IndexIsRight, Untouched
<1>2. RangeTypeOK' /\ NoIndexTwice'
  BY DEF rangeVars, RangeTypeOK, NoIndexTwice
<1>3. holder' = Nobody => bits' = Taken' /\ used' = Cardinality(Taken')
  BY <1>1 DEF rangeVars, KeysFollow
<1>4. ASSUME NEW c \in Clients, pc'[c] = "inside"
      PROVE  /\ KeysFollow(c) /\ ReadIsFresh(c) /\ IndexIsRight(c)
             /\ claim[c].outcome = "throw" => pc[c] = "inside"
  <2>1. CASE pc[c] = "inside"
    BY <2>1
  <2>2. CASE pc[c] \in {"idle", "opening"} /\ holder = Nobody
    <3>1. Untouched(c)
      BY <2>2
    <3>2. KeysFollow(c)
      BY <2>2, <3>1 DEF Untouched, KeysFollow, Written
    <3>3. ReadIsFresh(c) /\ IndexIsRight(c) /\ claim[c].outcome # "throw"
      BY <3>1 DEF Untouched, ReadIsFresh, IndexIsRight
    <3> QED BY <3>2, <3>3
  <2> QED BY <1>4, <2>1, <2>2
<1>5. RefusedOnlyWhenFull'
  BY <1>4 DEF rangeVars, RefusedOnlyWhenFull, Refused
<1>6. \A c \in Clients : claim'[c].op # "allocate" => claim'[c].index \in Indices
  BY DEF rangeVars
<1> QED BY <1>1, <1>2, <1>3, <1>4, <1>5, <1>6

LEMMA LockMovesKeep ==
  ASSUME RangeCore, LockCore, LockCore', UNCHANGED rangeVars,
         \/ \E c \in Clients : Proceeds(c) \/ Deadline(c) \/ Returns(c)
         \/ Timers \/ Tick
  PROVE  RangeCore'
<1> USE LockAssumption DEF LockTypeOK
<1>0. LockTypeOK /\ LockTypeOK'
  BY DEF LockCore, LockIsSound
<1>1. ASSUME NEW c \in Clients, Proceeds(c) PROVE RangeCore'
  <2>1. CASE acquireLock(c) /\ pc[c] \in {"idle", "opening"} /\ pc' = [pc EXCEPT ![c] = "inside"]
    <3>1. holder = Nobody /\ holder' # Nobody
      BY <2>1 DEF acquireLock
    <3>2. \A d \in Clients : pc'[d] = "inside" => pc[d] = "inside" \/ pc[d] \in {"idle", "opening"}
      BY <1>0, <2>1
    <3>3. \A d \in Clients : pc'[d] # "inside" => pc'[d] = pc[d]
      BY <1>0, <2>1
    <3> QED BY <1>0, <3>1, <3>2, <3>3, LockMoves
  <2>2. CASE /\ holder' = holder /\ pc[c] \in {"idle", "opening", "select"}
             /\ \E p \in {"idle", "opening", "select", "ended"} : pc' = [pc EXCEPT ![c] = p]
    <3>1. \A d \in Clients : pc'[d] = "inside" => pc[d] = "inside"
      BY <1>0, <2>2
    <3>2. \A d \in Clients :
            pc'[d] \in {"idle", "opening", "select"} => pc[d] \in {"idle", "opening", "select"}
      BY <1>0, <2>2
    <3> QED BY <1>0, <2>2, <3>1, <3>2, LockMoves
  <2> QED
    BY <1>1, <2>1, <2>2
    DEF Proceeds, Acquire, OpenWatch, GiveUp, RetryAcquires, RetryWaits, SelectReturns
<1>2. ASSUME NEW c \in Clients, Returns(c) PROVE RangeCore'
  <2>1. pc[c] = "inside" /\ pc' = [pc EXCEPT ![c] = "ended"]
    BY <1>2 DEF Returns, Leave
  <2>2. ~Written(c)
    BY <1>2 DEF Returns, Written, Body
  <2>3. \A d \in Clients : pc'[d] # "ended" => pc'[d] = pc[d]
    BY <1>0, <2>1
  <2> QED BY <1>0, <2>1, <2>2, <2>3, LockMoves
<1>3. ASSUME NEW c \in Clients, TimerFires(c) PROVE RangeCore'
  <2>1. c \in leases /\ holder = c /\ holder' = c /\ pc' = pc
    <3>1. c \in leases /\ holder = c /\ age[c] = beat[c] /\ beat[c] \in 0 .. Interval
      BY <1>3 DEF TimerFires, LockCore, LockIsSound, LeaseIsKept
    <3>2. age[c] # TTL
      BY <3>1, IntervalFacts
    <3> QED BY <1>3, <3>1, <3>2 DEF TimerFires, refreshLease
  <2> QED BY <1>0, <2>1, LockMoves
<1>4. ASSUME Tick \/ (\E c \in Clients : Deadline(c)) PROVE RangeCore'
  <2>1. holder' = holder /\ pc' = pc
    BY <1>4 DEF Tick, Deadline
  <2> QED BY <1>0, <2>1, LockMoves
<1> QED BY <1>1, <1>2, <1>3, <1>4 DEF Timers

\* Which await of which body a step is.
LEMMA AwaitsFacts ==
  ASSUME NEW c, RangeTypeOK, c \in Clients
  PROVE  /\ Awaits(c, "getCursor") => claim[c].op = "allocate" /\ claim[c].step = 1
         /\ Awaits(c, "getUsed") =>
              \/ claim[c].op = "allocate" /\ claim[c].step = 2
              \/ claim[c].op \in {"claim", "release"} /\ claim[c].step = 2
         /\ Awaits(c, "getBitmap") =>
              \/ claim[c].op = "allocate" /\ claim[c].step = 3
              \/ claim[c].op \in {"claim", "release", "has"} /\ claim[c].step = 1
         /\ Awaits(c, "putBitmap") =>
              \/ claim[c].op = "allocate" /\ claim[c].step = 4
              \/ claim[c].op \in {"claim", "release"} /\ claim[c].step = 3
         /\ Awaits(c, "putCursor") => claim[c].op = "allocate" /\ claim[c].step = 5
         /\ Awaits(c, "putUsed") =>
              \/ claim[c].op = "allocate" /\ claim[c].step = 6
              \/ claim[c].op \in {"claim", "release"} /\ claim[c].step = 4
<1>1. claim[c].op \in Operations /\ claim[c].step \in 1 .. 7
  BY DEF RangeTypeOK, CallType
<1>2. CASE claim[c].op = "allocate"
  BY <1>1, <1>2 DEF Awaits, Body
<1>3. CASE claim[c].op \in {"claim", "release"}
  BY <1>1, <1>3 DEF Awaits, Body
<1>4. CASE claim[c].op = "has"
  BY <1>1, <1>4 DEF Awaits, Body
<1> QED BY <1>1, <1>2, <1>3, <1>4 DEF Operations

LEMMA GoesOnFacts ==
  ASSUME NEW q \in CallType, q.step \in 1 .. 6
  PROVE  /\ goesOn(q) \in CallType /\ goesOn(q).step = q.step + 1
         /\ goesOn(q).op = q.op /\ goesOn(q).outcome = q.outcome /\ goesOn(q).index = q.index
         /\ goesOn(q).bits = q.bits /\ goesOn(q).cursor = q.cursor /\ goesOn(q).used = q.used
<1>1. q.step + 1 \in 1 .. 7
  OBVIOUS
<1> QED BY <1>1 DEF goesOn, CallType

\* A step of the body of c: only c is inside, so only what holds of c and of
\* the keys is in question.
LEMMA BodyKeeps ==
  ASSUME RangeCore, LockCore, NEW c \in Clients, pc[c] = "inside", UNCHANGED lockVars,
         NEW r \in CallType, claim' = [claim EXCEPT ![c] = r],
         r.op = claim[c].op, r.op # "allocate" => r.index \in Indices,
         bits' \in SUBSET Indices, cursor' \in Indices, used' \in 0 .. Size,
         owned' \in [Clients -> SUBSET Indices],
         \A d \in Clients : d # c => owned'[d] = owned[d],
         NoIndexTwice', KeysFollow(c)', ReadIsFresh(c)', IndexIsRight(c)',
         r.outcome = "throw" /\ r.op = "allocate" => bits' = Indices
  PROVE  RangeCore'
<1> USE DEF RangeCore, lockVars
<1>1. /\ claim'[c] = r
      /\ \A d \in Clients : d # c => claim'[d] = claim[d]
  BY DEF RangeTypeOK
<1>2. holder' = c /\ c # Nobody /\ \A d \in Clients : pc'[d] = "inside" => d = c
  BY LockAssumption DEF LockCore, LockIsSound, MutualExclusion
<1>3. RangeTypeOK'
  BY DEF RangeTypeOK, LockTypeOK
<1>4. ASSUME NEW d \in Clients, pc'[d] \in {"idle", "opening", "select"} PROVE Untouched(d)'
  <2>1. d # c
    BY <1>4
  <2> QED BY <1>1, <1>4, <2>1 DEF Untouched
<1>5. RefusedOnlyWhenFull'
  BY <1>1, <1>2 DEF RefusedOnlyWhenFull, Refused
<1>6. \A d \in Clients : claim'[d].op # "allocate" => claim'[d].index \in Indices
  BY <1>1
<1> QED BY <1>2, <1>3, <1>4, <1>5, <1>6

LEMMA GetCursorKeeps ==
  ASSUME RangeCore, LockCore, NEW c \in Clients, GetCursor(c), UNCHANGED lockVars
  PROVE  RangeCore'
<1> USE DEF RangeCore
<1>1. claim[c].op = "allocate" /\ claim[c].step = 1 /\ pc[c] = "inside"
  BY AwaitsFacts DEF GetCursor, Awaits
<1> DEFINE q == [claim[c] EXCEPT !.cursor = cursor]
           r == goesOn(q)
<1>2. r \in CallType /\ r.op = "allocate" /\ r.step = 2 /\ r.outcome = "none"
  <2>1. /\ q \in CallType /\ q.op = "allocate" /\ q.step = 1
        /\ q.outcome = "none"
    BY <1>1 DEF RangeTypeOK, CallType, GetCursor, Awaits
  <2> HIDE DEF q
  <2> QED BY <2>1, GoesOnFacts
<1>3. claim' = [claim EXCEPT ![c] = r] /\ UNCHANGED <<bits, cursor, used, owned>>
  BY DEF GetCursor
<1> HIDE DEF r
<1>4. claim'[c] = r
  BY <1>3 DEF RangeTypeOK
<1>5. Taken' = Taken /\ NoIndexTwice'
  BY <1>3 DEF Taken, NoIndexTwice
<1>6. KeysFollow(c)'
  BY <1>1, <1>2, <1>3, <1>4, <1>5 DEF KeysFollow, Written
<1>7. ReadIsFresh(c)' /\ IndexIsRight(c)'
  BY <1>2, <1>4 DEF ReadIsFresh, IndexIsRight
<1> QED BY <1>1, <1>2, <1>3, <1>5, <1>6, <1>7, BodyKeeps DEF RangeTypeOK

\* allocate() is refused by the count only when every index is taken.
LEMMA GetUsedKeeps ==
  ASSUME RangeCore, LockCore, NEW c \in Clients, GetUsed(c), UNCHANGED lockVars
  PROVE  RangeCore'
<1> USE DEF RangeCore
<1>1. /\ claim[c].op \in {"allocate", "claim", "release"} /\ claim[c].step = 2
      /\ pc[c] = "inside" /\ claim[c].outcome = "none"
  BY AwaitsFacts DEF GetUsed, Awaits
<1>2. /\ KeysFollow(c) /\ ReadIsFresh(c) /\ IndexIsRight(c) /\ ~Written(c)
      /\ bits = Taken /\ used = Cardinality(bits) /\ bits \in SUBSET Indices
  BY <1>1 DEF KeysFollow, Written, RangeTypeOK
<1> DEFINE o == IF claim[c].op = "allocate" /\ used >= Size THEN "throw" ELSE "none"
           q == [claim[c] EXCEPT !.used = used, !.outcome = o]
           r == goesOn(q)
<1>3. claim[c] \in CallType /\ used \in 0 .. Size
  BY DEF RangeTypeOK
<1>4. /\ r \in CallType /\ r.op = claim[c].op /\ r.step = 3 /\ r.outcome = o
      /\ r.used = used /\ r.index = claim[c].index /\ r.bits = claim[c].bits
  <2>1. /\ q \in CallType /\ q.op = claim[c].op /\ q.step = 2 /\ q.outcome = o
        /\ q.used = used /\ q.index = claim[c].index /\ q.bits = claim[c].bits
    BY <1>1, <1>3 DEF CallType
  <2> HIDE DEF q
  <2> QED BY <2>1, GoesOnFacts
<1>5. claim' = [claim EXCEPT ![c] = r] /\ UNCHANGED <<bits, cursor, used, owned>>
  BY DEF GetUsed
<1>6. o = "throw" => bits = Indices
  BY <1>2, Sizes
<1>7. o = "none" /\ claim[c].op = "allocate" => used < Size
  BY <1>3, IndexFacts
<1> HIDE DEF r, o
<1>8. claim'[c] = r
  BY <1>5 DEF RangeTypeOK
<1>9. Taken' = Taken /\ NoIndexTwice'
  BY <1>5 DEF Taken, NoIndexTwice
<1>10. KeysFollow(c)'
  BY <1>1, <1>2, <1>4, <1>5, <1>8, <1>9 DEF KeysFollow, Written
<1>11. ReadIsFresh(c)' /\ IndexIsRight(c)'
  BY <1>1, <1>2, <1>4, <1>5, <1>8, <1>9 DEF ReadIsFresh, IndexIsRight
<1> QED BY <1>1, <1>3, <1>4, <1>5, <1>6, <1>9, <1>10, <1>11, BodyKeeps DEF RangeTypeOK

\* The index chosen by allocate() is free; claim() and release() go on only
\* with an index whose bit is as they need it.
LEMMA GetBitmapKeeps ==
  ASSUME RangeCore, LockCore, NEW c \in Clients, GetBitmap(c), UNCHANGED lockVars
  PROVE  RangeCore'
<1> USE DEF RangeCore
<1> DEFINE op == claim[c].op
           i == IF op = "allocate"
                THEN IF bits = Indices THEN NoIndex ELSE FirstFree(bits, claim[c].cursor)
                ELSE claim[c].index
           refused == CASE op = "allocate" -> i = NoIndex
                        [] op = "claim" -> i \in bits
                        [] op = "release" -> i \notin bits
                        [] op = "has" -> FALSE
           o == IF refused THEN "throw" ELSE "none"
           q == [claim[c] EXCEPT !.bits = bits, !.index = i, !.outcome = o]
           r == goesOn(q)
<1>1. /\ \/ op = "allocate" /\ claim[c].step = 3
         \/ op \in {"claim", "release", "has"} /\ claim[c].step = 1
      /\ pc[c] = "inside" /\ claim[c].outcome = "none"
  BY AwaitsFacts DEF GetBitmap, Awaits
<1>2. /\ KeysFollow(c) /\ ReadIsFresh(c) /\ IndexIsRight(c) /\ ~Written(c)
      /\ bits = Taken /\ bits \in SUBSET Indices /\ claim[c] \in CallType
  BY <1>1 DEF KeysFollow, Written, RangeTypeOK
<1>3. claim' = [claim EXCEPT ![c] = r] /\ UNCHANGED <<bits, cursor, used, owned>>
  BY DEF GetBitmap
<1>4. /\ i \in 0 .. Size
      /\ op # "allocate" => i = claim[c].index /\ i \in Indices
      /\ op = "allocate" /\ i # NoIndex => i \in Indices \ bits
      /\ op = "allocate" /\ i = NoIndex => bits = Indices
  <2>1. CASE op = "allocate" /\ bits # Indices
    <3>1. claim[c].cursor \in Indices
      BY <1>2 DEF CallType
    <3>2. FirstFree(bits, claim[c].cursor) \in Indices \ bits
      BY <1>2, <2>1, <3>1, FirstFreeIsFree
    <3> QED BY <2>1, <3>2, IndexFacts DEF NoIndex
  <2>2. CASE op = "allocate" /\ bits = Indices
    BY <2>2, IndexFacts DEF NoIndex
  <2>3. CASE op # "allocate"
    BY <2>3, IndexFacts
  <2> QED BY <2>1, <2>2, <2>3
<1>5. /\ o \in {"none", "throw"}
      /\ o = "throw" /\ op = "allocate" => bits = Indices
      /\ o = "none" /\ op \in {"allocate", "claim"} => i \in Indices \ bits
  BY <1>4
<1> HIDE DEF i, o, refused
<1>6. /\ r \in CallType /\ r.op = op /\ r.step = claim[c].step + 1 /\ r.outcome = o
      /\ r.used = claim[c].used /\ r.index = i /\ r.bits = bits
  <2>1. /\ q \in CallType /\ q.op = op /\ q.step = claim[c].step /\ q.outcome = o
        /\ q.used = claim[c].used /\ q.index = i /\ q.bits = bits
    BY <1>2, <1>4, <1>5 DEF CallType
  <2>2. q.step \in 1 .. 6
    BY <1>1, <2>1
  <2> HIDE DEF q
  <2> QED BY <2>1, <2>2, GoesOnFacts
<1> HIDE DEF r
<1>7. claim'[c] = r
  BY <1>3 DEF RangeTypeOK
<1>8. Taken' = Taken /\ NoIndexTwice'
  BY <1>3 DEF Taken, NoIndexTwice
<1>9. KeysFollow(c)'
  BY <1>1, <1>2, <1>3, <1>6, <1>7, <1>8 DEF KeysFollow, Written
<1>10. ReadIsFresh(c)'
  BY <1>1, <1>2, <1>3, <1>6, <1>7 DEF ReadIsFresh
<1>11. IndexIsRight(c)'
  BY <1>1, <1>2, <1>3, <1>4, <1>5, <1>6, <1>7, <1>8 DEF IndexIsRight
<1> QED
  BY <1>1, <1>2, <1>3, <1>4, <1>5, <1>6, <1>8, <1>9, <1>10, <1>11, BodyKeeps DEF RangeTypeOK

\* The bitmap written back is the one read, but for the one bit.
LEMMA PutBitmapKeeps ==
  ASSUME RangeCore, LockCore, NEW c \in Clients, PutBitmap(c), UNCHANGED lockVars
  PROVE  RangeCore'
<1> USE DEF RangeCore
<1> DEFINE r == goesOn(claim[c])
<1>1. /\ \/ claim[c].op = "allocate" /\ claim[c].step = 4
         \/ claim[c].op \in {"claim", "release"} /\ claim[c].step = 3
      /\ pc[c] = "inside" /\ claim[c].outcome = "none"
  BY AwaitsFacts DEF PutBitmap, Awaits
<1>2. /\ KeysFollow(c) /\ ReadIsFresh(c) /\ IndexIsRight(c) /\ ~Written(c)
      /\ bits = Taken /\ bits \in SUBSET Indices /\ claim[c] \in CallType
  BY <1>1 DEF KeysFollow, Written, RangeTypeOK
<1>3. claim[c].bits = bits /\ claim[c].used = used /\ claim[c].index \in Indices
  BY <1>1, <1>2 DEF ReadIsFresh, IndexIsRight
<1>4. /\ claim' = [claim EXCEPT ![c] = r] /\ UNCHANGED <<cursor, used, owned>>
      /\ bits' = IF claim[c].op = "release" THEN Taken \ {claim[c].index}
                 ELSE Taken \cup {claim[c].index}
  BY <1>2, <1>3 DEF PutBitmap
<1>5. /\ r \in CallType /\ r.op = claim[c].op /\ r.step = claim[c].step + 1
      /\ r.outcome = "none" /\ r.used = used /\ r.index = claim[c].index
  BY <1>1, <1>2, <1>3, GoesOnFacts
<1> HIDE DEF r
<1>6. claim'[c] = r
  BY <1>4 DEF RangeTypeOK
<1>7. Taken' = Taken /\ NoIndexTwice'
  BY <1>4 DEF Taken, NoIndexTwice
<1>8. KeysFollow(c)'
  <2>1. Written(c)'
    BY <1>1, <1>5, <1>6 DEF Written
  <2>2. claim'[c].op = claim[c].op /\ claim'[c].index = claim[c].index
    BY <1>5, <1>6
  <2>3. used' = Cardinality(Taken')
    BY <1>2, <1>4, <1>7 DEF KeysFollow
  <2>4. bits' = IF claim'[c].op = "release" THEN Taken' \ {claim'[c].index}
                ELSE Taken' \cup {claim'[c].index}
    BY <1>4, <1>7, <2>2
  <2> QED BY <2>1, <2>3, <2>4 DEF KeysFollow
<1>9. ReadIsFresh(c)'
  BY <1>1, <1>4, <1>5, <1>6 DEF ReadIsFresh
<1>10. IndexIsRight(c)'
  BY <1>1, <1>2, <1>4, <1>5, <1>6, <1>7 DEF IndexIsRight
<1>11. bits' \in SUBSET Indices
  BY <1>2, <1>3, <1>4
<1> QED BY <1>1, <1>3, <1>4, <1>5, <1>7, <1>8, <1>9, <1>10, <1>11, BodyKeeps DEF RangeTypeOK

LEMMA PutCursorKeeps ==
  ASSUME RangeCore, LockCore, NEW c \in Clients, PutCursor(c), UNCHANGED lockVars
  PROVE  RangeCore'
<1> USE DEF RangeCore
<1> DEFINE r == goesOn(claim[c])
<1>1. /\ claim[c].op = "allocate" /\ claim[c].step = 5
      /\ pc[c] = "inside" /\ claim[c].outcome = "none"
  BY AwaitsFacts DEF PutCursor, Awaits
<1>2. KeysFollow(c) /\ ReadIsFresh(c) /\ IndexIsRight(c) /\ Written(c) /\ claim[c] \in CallType
  BY <1>1 DEF Written, RangeTypeOK
<1>3. claim' = [claim EXCEPT ![c] = r] /\ UNCHANGED <<bits, used, owned>>
  BY DEF PutCursor
<1>4. cursor' \in Indices
  <2>1. claim[c].index \in Nat /\ Size \in Nat \ {0}
    BY <1>1, <1>2, IndexFacts DEF IndexIsRight
  <2>2. (claim[c].index + 1) % Size \in 0 .. (Size - 1)
    BY <2>1
  <2> QED BY <2>2, IndexFacts DEF PutCursor
<1>5. /\ r \in CallType /\ r.op = "allocate" /\ r.step = 6 /\ r.outcome = "none"
      /\ r.used = claim[c].used /\ r.index = claim[c].index
  BY <1>1, <1>2, GoesOnFacts
<1> HIDE DEF r
<1>6. claim'[c] = r
  BY <1>3 DEF RangeTypeOK
<1>7. Taken' = Taken /\ NoIndexTwice'
  BY <1>3 DEF Taken, NoIndexTwice
<1>8. KeysFollow(c)'
  BY <1>1, <1>2, <1>3, <1>5, <1>6, <1>7 DEF KeysFollow, Written
<1>9. ReadIsFresh(c)'
  BY <1>1, <1>2, <1>3, <1>5, <1>6 DEF ReadIsFresh
<1>10. IndexIsRight(c)'
  BY <1>1, <1>2, <1>5, <1>6, <1>7 DEF IndexIsRight
<1> QED BY <1>1, <1>3, <1>4, <1>5, <1>7, <1>8, <1>9, <1>10, BodyKeeps DEF RangeTypeOK

\* The grant or the release takes effect: what is owned becomes what the
\* bitmap says, and the count written is its size.
LEMMA PutUsedKeeps ==
  ASSUME RangeCore, LockCore, NEW c \in Clients, PutUsed(c), UNCHANGED lockVars
  PROVE  RangeCore'
<1> USE DEF RangeCore
<1> DEFINE r == goesOn(claim[c])
           i == claim[c].index
<1>1. /\ \/ claim[c].op = "allocate" /\ claim[c].step = 6
         \/ claim[c].op \in {"claim", "release"} /\ claim[c].step = 4
      /\ pc[c] = "inside" /\ claim[c].outcome = "none"
  BY AwaitsFacts DEF PutUsed, Awaits
<1>2. /\ KeysFollow(c) /\ ReadIsFresh(c) /\ IndexIsRight(c) /\ Written(c)
      /\ claim[c] \in CallType /\ Taken \in SUBSET Indices
  BY <1>1, TakenAreIndices DEF Written, RangeTypeOK
<1>3. claim[c].used = used /\ used = Cardinality(Taken) /\ IsFiniteSet(Taken)
  BY <1>1, <1>2, Sizes DEF ReadIsFresh, KeysFollow
<1>4. /\ claim' = [claim EXCEPT ![c] = r] /\ UNCHANGED <<bits, cursor>>
      /\ used' = count(c)
      /\ owned' = [owned EXCEPT ![c] = IF claim[c].op = "release" THEN @ \ {i} ELSE @ \cup {i}]
  BY DEF PutUsed
<1>5. /\ r \in CallType /\ r.op = claim[c].op /\ r.step = claim[c].step + 1
      /\ r.outcome = "none" /\ r.index = i
  BY <1>1, <1>2, GoesOnFacts
<1> HIDE DEF r
<1>6. claim'[c] = r
  BY <1>4 DEF RangeTypeOK
<1>7. /\ \A d \in Clients : d # c => owned'[d] = owned[d]
      /\ owned'[c] = IF claim[c].op = "release" THEN owned[c] \ {i} ELSE owned[c] \cup {i}
  BY <1>4 DEF RangeTypeOK
<1>8. i \in Indices
  BY <1>1, <1>2 DEF IndexIsRight, RangeTypeOK
<1>9. owned' \in [Clients -> SUBSET Indices]
  BY <1>4, <1>8 DEF RangeTypeOK
<1>10. CASE claim[c].op = "release"
  <2>1. i \in owned[c] /\ i \in Taken /\ \A d \in Clients : d # c => i \notin owned[d]
    BY <1>1, <1>2, <1>10 DEF IndexIsRight, Taken, NoIndexTwice
  <2>2. Taken' = Taken \ {i}
    BY <1>7, <1>10, <2>1 DEF Taken
  <2>3. NoIndexTwice'
    BY <1>7, <1>10 DEF NoIndexTwice
  <2>4. Cardinality(Taken') = Cardinality(Taken) - 1 /\ Cardinality(Taken) \in Nat
    BY <1>3, <2>1, <2>2, FS_RemoveElement, FS_CardinalityType
  <2>5. Taken' \in SUBSET Indices /\ Cardinality(Taken') \in 0 .. Size
    BY <1>2, <2>2, Sizes
  <2>6. used' = Cardinality(Taken')
    BY <1>3, <1>4, <1>10, <2>4, <2>5 DEF count
  <2>7. bits' = Taken'
    BY <1>2, <1>4, <1>10, <2>2 DEF KeysFollow
  <2>8. KeysFollow(c)' /\ ReadIsFresh(c)' /\ IndexIsRight(c)'
    BY <1>1, <1>5, <1>6, <1>10, <2>6, <2>7
    DEF KeysFollow, Written, ReadIsFresh, IndexIsRight
  <2> QED
    BY <1>1, <1>4, <1>5, <1>7, <1>8, <1>9, <2>3, <2>5, <2>6, <2>7, <2>8, BodyKeeps
    DEF RangeTypeOK
<1>11. CASE claim[c].op # "release"
  <2>1. i \notin Taken /\ \A d \in Clients : i \notin owned[d]
    BY <1>1, <1>2, <1>11 DEF IndexIsRight, Taken
  <2>2. Taken' = Taken \cup {i}
    BY <1>7, <1>11 DEF Taken
  <2>3. NoIndexTwice'
    BY <1>7, <1>11, <2>1 DEF NoIndexTwice
  <2>4. Cardinality(Taken') = Cardinality(Taken) + 1
    BY <1>3, <2>1, <2>2, FS_AddElement
  <2>5. Taken' \in SUBSET Indices /\ Cardinality(Taken') \in 0 .. Size
    BY <1>2, <1>8, <2>2, Sizes
  <2>6. used' = Cardinality(Taken')
    BY <1>3, <1>4, <1>11, <2>4 DEF count
  <2>7. bits' = Taken'
    BY <1>2, <1>4, <1>11, <2>2 DEF KeysFollow
  <2>8. KeysFollow(c)' /\ ReadIsFresh(c)' /\ IndexIsRight(c)'
    BY <1>1, <1>5, <1>6, <1>11, <2>6, <2>7
    DEF KeysFollow, Written, ReadIsFresh, IndexIsRight
  <2> QED
    BY <1>1, <1>4, <1>5, <1>7, <1>8, <1>9, <2>3, <2>5, <2>6, <2>7, <2>8, BodyKeeps
    DEF RangeTypeOK
<1> QED BY <1>10, <1>11

LEMMA RangeStep == RangeCore /\ LockCore /\ [RangeNext]_allRangeVars => RangeCore' /\ LockCore'
<1> SUFFICES ASSUME RangeCore, LockCore, [RangeNext]_allRangeVars PROVE RangeCore' /\ LockCore'
  OBVIOUS
<1>1. [LockNext]_lockVars
  BY DEF RangeNext, Returns, LockNext, lockVars, allRangeVars
<1>2. LockCore'
  BY <1>1, LockStep
<1>3. CASE (\E c \in Clients : Proceeds(c) \/ Deadline(c) \/ Returns(c)) /\ UNCHANGED rangeVars
  BY <1>2, <1>3, LockMovesKeep
<1>4. CASE (Timers \/ Tick) /\ UNCHANGED rangeVars
  BY <1>2, <1>4, LockMovesKeep
<1>5. CASE (\E c \in Clients : Runs(c)) /\ UNCHANGED lockVars
  BY <1>2, <1>5, GetCursorKeeps, GetUsedKeeps, GetBitmapKeeps, PutBitmapKeeps, PutCursorKeeps,
     PutUsedKeeps DEF Runs
<1>6. CASE UNCHANGED allRangeVars
  BY <1>2, <1>6, LockMoves DEF allRangeVars, rangeVars, LockCore, LockIsSound
<1> QED BY <1>2, <1>3, <1>4, <1>5, <1>6 DEF RangeNext

LEMMA RangeInvariant == RangeSpec => [](RangeCore /\ LockCore)
<1>1. RangeInit => RangeCore /\ LockCore
  BY RangeStart, LockStart DEF RangeInit
<1> QED BY <1>1, RangeStep, PTL DEF RangeSpec

\* AllocatableRange: no index is granted to two clients, the bitmap and the
\* count agree with the grants whenever no call runs, and an allocation is
\* refused only when every index is taken.
THEOREM RangeSafety == RangeSpec => []RangeIsSound
<1>1. RangeCore => RangeIsSound
  BY DEF RangeCore, RangeIsSound, KeysAgreeBetweenCalls, Taken
<1> QED BY <1>1, RangeInvariant, PTL

----
(* What is chosen from a sequence.                                         *)

\* Nothing is twice in s, save what is in X.
Once(s, X) == \A i, j \in DOMAIN s : s[i] = s[j] => i = j \/ s[i] \in X

\* Natural numbers: what holds at 0 and is handed on holds everywhere.
LEMMA SetInduction ==
    ASSUME NEW S \in SUBSET Nat, 0 \in S, \A n \in S : n + 1 \in S
    PROVE  S = Nat
<1> SUFFICES ASSUME Nat \ S # {} PROVE FALSE
  OBVIOUS
<1>1. PICK x \in Nat \ S : \A y \in Nat \ S : ~(<<y, x>> \in OpToRel(<, Nat))
  BY NatLessThanWellFounded, WFMin
<1>2. \A y \in Nat \ S : ~(y < x)
  BY <1>1 DEF OpToRel
<1>3. x # 0 /\ x - 1 \in Nat /\ x - 1 < x /\ (x - 1) + 1 = x
  OBVIOUS
<1> QED BY <1>2, <1>3

\* f is what Those computes, up to n.
Chooses(f, s, w, n) ==
    f = [i \in 0 .. n |-> IF i = 0 THEN <<>>
                          ELSE IF s[i] \in w THEN Append(f[i - 1], s[i]) ELSE f[i - 1]]

LEMMA ChoicesAre ==
    ASSUME NEW f, NEW s, NEW w, NEW n, Chooses(f, s, w, n), NEW i \in 0 .. n
    PROVE  f[i] = (IF i = 0 THEN <<>>
                   ELSE IF s[i] \in w THEN Append(f[i - 1], s[i]) ELSE f[i - 1])
<1> DEFINE e(g, j) == IF j = 0 THEN <<>>
                      ELSE IF s[j] \in w THEN Append(g[j - 1], s[j]) ELSE g[j - 1]
<1>1. f = [j \in 0 .. n |-> e(f, j)]
  BY DEF Chooses
<1> HIDE DEF e
<1>2. f[i] = e(f, i)
  BY <1>1
<1> QED BY <1>2 DEF e

LEMMA ChoiceExists ==
    ASSUME NEW s, Len(s) \in Nat, NEW w
    PROVE  \E f : Chooses(f, s, w, Len(s))
<1> DEFINE S == {n \in Nat : \E f : Chooses(f, s, w, n)}
<1>1. 0 \in S
  <2>1. Chooses([i \in 0 .. 0 |-> <<>>], s, w, 0)
    BY DEF Chooses
  <2> QED BY <2>1
<1>2. ASSUME NEW n \in S PROVE n + 1 \in S
  <2>1. PICK f : Chooses(f, s, w, n)
    OBVIOUS
  <2> DEFINE g == [i \in 0 .. n + 1 |->
                     IF i = 0 THEN <<>>
                     ELSE IF s[i] \in w THEN Append(f[i - 1], s[i]) ELSE f[i - 1]]
  <2>2. ASSUME NEW i \in 0 .. n PROVE g[i] = f[i]
    <3>1. f[i] = (IF i = 0 THEN <<>>
                  ELSE IF s[i] \in w THEN Append(f[i - 1], s[i]) ELSE f[i - 1])
      BY <2>1, ChoicesAre
    <3> QED BY <3>1
  <2>3. ASSUME NEW i \in 0 .. n + 1
        PROVE  g[i] = (IF i = 0 THEN <<>>
                       ELSE IF s[i] \in w THEN Append(g[i - 1], s[i]) ELSE g[i - 1])
    <3>1. CASE i = 0
      BY <3>1
    <3>2. CASE i # 0
      <4>1. i - 1 \in 0 .. n
        BY <3>2
      <4>2. g[i - 1] = f[i - 1]
        BY <4>1, <2>2
      <4> HIDE DEF g
      <4>3. g[i] = (IF s[i] \in w THEN Append(f[i - 1], s[i]) ELSE f[i - 1])
        BY <3>2 DEF g
      <4> QED BY <3>2, <4>2, <4>3
    <3> QED BY <3>1, <3>2
  <2>4. g = [i \in 0 .. n + 1 |-> g[i]]
    OBVIOUS
  <2> HIDE DEF g
  <2>5. Chooses(g, s, w, n + 1)
    BY <2>3, <2>4 DEF Chooses
  <2> QED BY <2>5
<1>3. S = Nat
  <2>1. S \in SUBSET Nat
    OBVIOUS
  <2> HIDE DEF S
  <2> QED BY <1>1, <1>2, <2>1, SetInduction
<1> QED
  <2>1. Len(s) \in S
    BY <1>3
  <2> QED BY <2>1

LEMMA ThoseAre ==
    ASSUME NEW S, NEW s \in Seq(S), NEW w, NEW X
    PROVE  /\ Those(s, w) \in Seq(S \cap w)
           /\ ToSet(Those(s, w)) = ToSet(s) \cap w
           /\ (\A i, j \in DOMAIN s : i # j /\ s[i] = s[j] => s[i] \notin w \/ s[i] \in X)
                => Once(Those(s, w), X)
<1>1. Len(s) \in Nat /\ DOMAIN s = 1 .. Len(s) /\ \A i \in 1 .. Len(s) : s[i] \in S
  OBVIOUS
<1> DEFINE f == CHOOSE f : Chooses(f, s, w, Len(s))
<1>2. Chooses(f, s, w, Len(s))
  BY <1>1, ChoiceExists
<1>3. Those(s, w) = f[Len(s)]
  BY DEF Those, Chooses
<1> HIDE DEF f
<1>4. /\ f[0] = <<>>
      /\ \A i \in 1 .. Len(s) : f[i] = (IF s[i] \in w THEN Append(f[i - 1], s[i]) ELSE f[i - 1])
  <2>1. \A i \in 0 .. Len(s) :
          f[i] = (IF i = 0 THEN <<>>
                  ELSE IF s[i] \in w THEN Append(f[i - 1], s[i]) ELSE f[i - 1])
    BY <1>2, ChoicesAre
  <2> QED BY <1>1, <2>1
<1> DEFINE Single == \A i, j \in DOMAIN s : i # j /\ s[i] = s[j] => s[i] \notin w \/ s[i] \in X
           Right(n) == /\ f[n] \in Seq(S \cap w)
                       /\ \A v : (\E i \in 1 .. Len(f[n]) : f[n][i] = v)
                                    <=> (\E i \in 1 .. n : s[i] = v /\ v \in w)
                       /\ Single => \A i, j \in 1 .. Len(f[n]) :
                                  f[n][i] = f[n][j] => i = j \/ f[n][i] \in X
           T == {n \in Nat : n <= Len(s) => Right(n)}
<1>5. 0 \in T
  <2>1. f[0] \in Seq(S \cap w) /\ Len(f[0]) = 0
    BY <1>4
  <2> QED BY <2>1
<1>6. ASSUME NEW n \in T PROVE n + 1 \in T
  <2> SUFFICES ASSUME n + 1 <= Len(s) PROVE Right(n + 1)
    OBVIOUS
  <2>1. n \in Nat /\ n + 1 \in 1 .. Len(s) /\ Right(n)
    BY <1>1
  <2> DEFINE x == s[n + 1]
             old == f[n]
             new == f[n + 1]
  <2>2. new = IF x \in w THEN Append(old, x) ELSE old
    BY <1>4, <2>1
  <2>3. x \in S
    BY <1>1, <2>1
  <2>4. CASE x \notin w
    <3>1. new = old /\ \A v : (\E i \in 1 .. n : s[i] = v /\ v \in w) <=> (\E i \in 1 .. n + 1 : s[i] = v /\ v \in w)
      BY <2>1, <2>2, <2>4
    <3> QED BY <2>1, <3>1
  <2>5. CASE x \in w
    <3> HIDE DEF x, old, new
    <3>1. old \in Seq(S \cap w) /\ Len(old) \in Nat
      BY <2>1 DEF old
    <3>2. /\ new \in Seq(S \cap w) /\ Len(new) = Len(old) + 1 /\ new[Len(old) + 1] = x
          /\ \A i \in 1 .. Len(old) : new[i] = old[i]
      BY <2>2, <2>3, <2>5, <3>1
    <3>3. \A v : (\E i \in 1 .. Len(old) : old[i] = v) <=> (\E i \in 1 .. n : s[i] = v /\ v \in w)
      BY <2>1 DEF old
    <3>4. ASSUME NEW v
          PROVE (\E i \in 1 .. Len(new) : new[i] = v) <=> (\E i \in 1 .. n + 1 : s[i] = v /\ v \in w)
      <4>1. (\E i \in 1 .. Len(new) : new[i] = v) <=> ((\E i \in 1 .. Len(old) : old[i] = v) \/ v = x)
        <5>1. ASSUME NEW i \in 1 .. Len(new), new[i] = v PROVE (\E j \in 1 .. Len(old) : old[j] = v) \/ v = x
          <6>1. i \in 1 .. Len(old) \/ i = Len(old) + 1
            BY <3>1, <3>2
          <6> QED BY <3>2, <5>1, <6>1
        <5>2. ASSUME NEW i \in 1 .. Len(old), old[i] = v PROVE \E j \in 1 .. Len(new) : new[j] = v
          BY <3>1, <3>2, <5>2
        <5>3. ASSUME v = x PROVE \E j \in 1 .. Len(new) : new[j] = v
          BY <3>1, <3>2, <5>3
        <5> QED BY <5>1, <5>2, <5>3
      <4>2. (\E i \in 1 .. n + 1 : s[i] = v /\ v \in w) <=> ((\E i \in 1 .. n : s[i] = v /\ v \in w) \/ v = x)
        BY <2>1, <2>5 DEF x
      <4> QED BY <3>3, <4>1, <4>2
    <3>5. ASSUME Single PROVE \A i, j \in 1 .. Len(new) : new[i] = new[j] => i = j \/ new[i] \in X
      <4>1. x \notin X => \A i \in 1 .. n : s[i] # x
        BY <1>1, <2>1, <2>5, <3>5 DEF x
      <4>2. x \notin X => \A i \in 1 .. Len(old) : old[i] # x
        BY <3>3, <4>1
      <4>3. \A i, j \in 1 .. Len(old) : old[i] = old[j] => i = j \/ old[i] \in X
        BY <2>1, <3>5 DEF old
      <4> QED BY <3>1, <3>2, <4>2, <4>3
    <3> QED BY <3>2, <3>4, <3>5 DEF new
  <2> QED BY <2>4, <2>5
<1>7. Right(Len(s))
  <2>1. T \in SUBSET Nat
    OBVIOUS
  <2> HIDE DEF T, Right
  <2>2. T = Nat
    BY <1>5, <1>6, <2>1, SetInduction
  <2>3. Len(s) \in T
    BY <1>1, <2>2
  <2> QED BY <1>1, <2>3 DEF T
<1> DEFINE r == Those(s, w)
<1>8. r = f[Len(s)]
  BY <1>3
<1> HIDE DEF r
<1>9. /\ r \in Seq(S \cap w) /\ DOMAIN r = 1 .. Len(r)
      /\ \A v : (\E i \in 1 .. Len(r) : r[i] = v) <=> (\E i \in 1 .. Len(s) : s[i] = v /\ v \in w)
      /\ Single => \A i, j \in 1 .. Len(r) : r[i] = r[j] => i = j \/ r[i] \in X
  BY <1>7, <1>8
<1>10. ToSet(r) = ToSet(s) \cap w
  <2>1. \A v : v \in ToSet(r) <=> \E i \in 1 .. Len(r) : r[i] = v
    BY <1>9 DEF ToSet
  <2>2. \A v : v \in ToSet(s) <=> \E i \in 1 .. Len(s) : s[i] = v
    BY <1>1 DEF ToSet
  <2> QED BY <1>9, <2>1, <2>2
<1>11. Single => Once(r, X)
  BY <1>9 DEF Once
<1> QED BY <1>9, <1>10, <1>11 DEF r

LEMMA OneMore ==
    ASSUME NEW S, NEW s \in Seq(S), NEW v \in S, NEW X
    PROVE  /\ Append(s, v) \in Seq(S) /\ ToSet(Append(s, v)) = ToSet(s) \cup {v}
           /\ Once(s, X) /\ (v \notin ToSet(s) \/ v \in X) => Once(Append(s, v), X)
<1> DEFINE t == Append(s, v)
<1>1. /\ t \in Seq(S) /\ Len(s) \in Nat /\ DOMAIN s = 1 .. Len(s) /\ DOMAIN t = 1 .. Len(s) + 1
      /\ t[Len(s) + 1] = v /\ \A i \in 1 .. Len(s) : t[i] = s[i]
  OBVIOUS
<1> HIDE DEF t
<1>2. \A i \in DOMAIN t : i \in DOMAIN s \/ i = Len(s) + 1
  BY <1>1
<1>3. ToSet(t) = ToSet(s) \cup {v}
  <2>1. \A x \in ToSet(t) : x \in ToSet(s) \/ x = v
    BY <1>1, <1>2 DEF ToSet
  <2>2. \A x \in ToSet(s) : x \in ToSet(t)
    <3>1. \A i \in DOMAIN s : i \in DOMAIN t /\ t[i] = s[i]
      BY <1>1
    <3> QED BY <3>1 DEF ToSet
  <2>3. v \in ToSet(t)
    BY <1>1 DEF ToSet
  <2> QED BY <2>1, <2>2, <2>3
<1>4. ASSUME Once(s, X), v \notin ToSet(s) \/ v \in X PROVE Once(t, X)
  <2>1. v \notin X => \A i \in DOMAIN s : s[i] # v
    BY <1>4 DEF ToSet
  <2> QED BY <1>1, <1>2, <1>4, <2>1 DEF Once
<1> QED BY <1>1, <1>3, <1>4 DEF t

LEMMA OneAfterAnother ==
    ASSUME NEW S, NEW s \in Seq(S), NEW t \in Seq(S), NEW X, Once(s, X), Once(t, X),
           ToSet(s) \cap ToSet(t) = {}
    PROVE  s \o t \in Seq(S) /\ ToSet(s \o t) = ToSet(s) \cup ToSet(t) /\ Once(s \o t, X)
<1> DEFINE u == s \o t
           m == Len(s)
           n == Len(t)
<1>1. /\ u \in Seq(S) /\ m \in Nat /\ n \in Nat /\ Len(u) = m + n
      /\ DOMAIN s = 1 .. m /\ DOMAIN t = 1 .. n /\ DOMAIN u = 1 .. m + n
      /\ \A i \in 1 .. m : u[i] = s[i]
      /\ \A i \in 1 .. n : u[m + i] = t[i]
  OBVIOUS
<1> HIDE DEF u, m, n
<1>2. \A i \in DOMAIN u : i \in DOMAIN s \/ (i - m \in DOMAIN t /\ m + (i - m) = i /\ i \in Nat)
  BY <1>1
<1>3. \A i \in DOMAIN u : \/ i \in DOMAIN s /\ u[i] = s[i] /\ u[i] \in ToSet(s)
                          \/ i - m \in DOMAIN t /\ u[i] = t[i - m] /\ u[i] \in ToSet(t)
  <2>1. ASSUME NEW i \in DOMAIN u, i - m \in DOMAIN t, m + (i - m) = i PROVE u[i] = t[i - m]
    <3> DEFINE k == i - m
    <3>1. k \in 1 .. n /\ m + k = i
      BY <1>1, <2>1
    <3> HIDE DEF k
    <3>2. u[i] = t[k]
      BY <1>1, <3>1
    <3> QED BY <3>2 DEF k
  <2> QED BY <1>1, <1>2, <2>1 DEF ToSet
<1>4. ToSet(u) = ToSet(s) \cup ToSet(t)
  <2>1. ASSUME NEW i \in DOMAIN s PROVE s[i] \in ToSet(u)
    BY <1>1 DEF ToSet
  <2>2. ASSUME NEW i \in DOMAIN t PROVE t[i] \in ToSet(u)
    <3>1. m + i \in DOMAIN u /\ u[m + i] = t[i]
      BY <1>1
    <3> QED BY <3>1 DEF ToSet
  <2> QED BY <1>3, <2>1, <2>2 DEF ToSet
<1>5. Once(u, X)
  <2>1. ASSUME NEW i \in DOMAIN u, NEW j \in DOMAIN u, u[i] = u[j] PROVE i = j \/ u[i] \in X
    <3>1. CASE i \in DOMAIN s /\ u[i] = s[i] /\ u[i] \in ToSet(s)
      <4>1. j \in DOMAIN s /\ u[j] = s[j]
        BY <1>3, <2>1, <3>1
      <4> QED BY <2>1, <3>1, <4>1 DEF Once
    <3>2. CASE i - m \in DOMAIN t /\ u[i] = t[i - m] /\ u[i] \in ToSet(t)
      <4>1. j - m \in DOMAIN t /\ u[j] = t[j - m]
        BY <1>3, <2>1, <3>2
      <4>2. i - m = j - m \/ u[i] \in X
        BY <2>1, <3>2, <4>1 DEF Once
      <4> QED BY <1>1, <4>2
    <3> QED BY <1>3, <3>1, <3>2
  <2> QED BY <2>1 DEF Once
<1> QED BY <1>1, <1>4, <1>5 DEF u

----
(* What a service uses.                                                    *)

\* No port is twice in a list, save those in X.
EachOnce(ports, X) ==
    \A i, j \in DOMAIN ports : i # j /\ ports[i] = ports[j] => ports[i] \in X \cup {NotSet}

Uses(s) == ({s.ip} \cup {s.ports[i] : i \in DOMAIN s.ports}) \ {NotSet}

LEMMA PortsAre ==
    ASSUME ServiceAssumption, NEW ports \in PortLists
    PROVE  /\ Len(ports) \in 0 .. MaxPorts /\ DOMAIN ports = 1 .. Len(ports)
           /\ ports \in Seq(NodePorts \cup {NotSet})
<1>1. PICK n \in 0 .. MaxPorts : ports \in [1 .. n -> NodePorts \cup {NotSet}]
  BY DEF PortLists
<1>2. n \in Nat /\ n \in 0 .. MaxPorts
  BY DEF ServiceAssumption
<1>3. ports \in Seq(NodePorts \cup {NotSet}) /\ Len(ports) = n
  BY <1>1, <1>2
<1> QED BY <1>1, <1>2, <1>3

LEMMA AllocationsAre ==
    ASSUME ServiceAssumption, NEW s, s.ip \in Addresses, s.ports \in PortLists, NEW X
    PROVE  /\ Allocations(s) \in Seq(Values) /\ ToSet(Allocations(s)) = Uses(s)
           /\ EachOnce(s.ports, X) => Once(Allocations(s), X)
<1> DEFINE ip == s.ip
           ports == s.ports
           all == <<ip>> \o ports
<1>1. Len(ports) \in Nat /\ DOMAIN ports = 1 .. Len(ports) /\ ports \in Seq(NodePorts \cup {NotSet})
  BY PortsAre
<1>2. ip \in Addresses
  OBVIOUS
<1>3. ports \in Seq(Values \cup {NotSet}) /\ <<ip>> \in Seq(Values \cup {NotSet})
  <2>1. NodePorts \cup {NotSet} \subseteq Values \cup {NotSet}
    BY DEF Values, Ranges
  <2>2. ip \in Values \cup {NotSet}
    BY <1>2 DEF Values, Ranges, Addresses
  <2> HIDE DEF ip, ports
  <2> QED BY <1>1, <2>1, <2>2
<1>4. Allocations(s) = Those(all, Values)
  BY DEF Allocations
<1> HIDE DEF ip, ports
<1>5. /\ all \in Seq(Values \cup {NotSet}) /\ Len(all) = Len(ports) + 1 /\ all[1] = ip
      /\ \A i \in 1 .. Len(ports) : all[i + 1] = ports[i]
  BY <1>1, <1>3
<1> HIDE DEF all
<1>6. DOMAIN all = 1 .. Len(ports) + 1
  BY <1>5
<1>7. ToSet(all) = {ip} \cup {ports[i] : i \in DOMAIN ports}
  <2>1. ASSUME NEW v \in ToSet(all) PROVE v = ip \/ \E i \in DOMAIN ports : v = ports[i]
    <3>1. PICK j \in 1 .. Len(ports) + 1 : v = all[j]
      BY <1>6, <2>1 DEF ToSet
    <3>2. CASE j = 1
      BY <1>5, <3>1, <3>2
    <3>3. CASE j # 1
      <4>1. j - 1 \in 1 .. Len(ports) /\ (j - 1) + 1 = j
        BY <1>1, <3>3
      <4>2. all[j] = ports[j - 1]
        BY <1>5, <4>1
      <4> QED BY <1>1, <3>1, <4>1, <4>2
    <3> QED BY <3>2, <3>3
  <2>2. ip \in ToSet(all)
    BY <1>1, <1>5, <1>6 DEF ToSet
  <2>3. ASSUME NEW i \in DOMAIN ports PROVE ports[i] \in ToSet(all)
    <3>1. i \in 1 .. Len(ports) /\ i + 1 \in 1 .. Len(ports) + 1
      BY <1>1
    <3>2. ports[i] = all[i + 1]
      BY <1>5, <3>1
    <3> QED BY <1>6, <3>1, <3>2 DEF ToSet
  <2> QED BY <2>1, <2>2, <2>3
<1>8. Those(all, Values) \in Seq(Values) /\ ToSet(Those(all, Values)) = Uses(s)
  <2>1. Those(all, Values) \in Seq((Values \cup {NotSet}) \cap Values)
    BY <1>5, ThoseAre
  <2>2. (Values \cup {NotSet}) \cap Values = Values
    OBVIOUS
  <2>3. ToSet(Those(all, Values)) = ToSet(all) \cap Values
    BY <1>5, ThoseAre
  <2>4. ToSet(all) \subseteq Values \cup {NotSet}
    BY <1>5 DEF ToSet
  <2>5. NotSet \notin Values
    BY DEF ServiceAssumption, Values, Ranges, NotSet, Elsewhere
  <2>6. Uses(s) = ToSet(all) \ {NotSet}
    BY <1>7 DEF Uses, ip, ports
  <2>7. ToSet(all) \cap Values = ToSet(all) \ {NotSet}
    BY <2>4, <2>5
  <2> QED BY <2>1, <2>2, <2>3, <2>6, <2>7
<1>9. ASSUME EachOnce(ports, X) PROVE Once(Those(all, Values), X)
  <2>1. ASSUME NEW i \in DOMAIN all, NEW j \in DOMAIN all, i < j, all[i] = all[j]
        PROVE  all[i] \notin Values \/ all[i] \in X
    <3>1. j - 1 \in 1 .. Len(ports) /\ (j - 1) + 1 = j /\ all[j] = ports[j - 1]
      BY <1>1, <1>5, <1>6, <2>1
    <3>2. ports[j - 1] \in NodePorts \cup {NotSet}
      BY <1>1, <3>1
    <3>3. CASE i = 1
      <4>1. ip = ports[j - 1] /\ all[i] = ip
        BY <1>5, <2>1, <3>1, <3>3
      <4> QED BY <1>2, <3>2, <4>1 DEF ServiceAssumption, Values, Ranges, Addresses, NotSet, Elsewhere
    <3>4. CASE i # 1
      <4>1. i - 1 \in 1 .. Len(ports) /\ (i - 1) + 1 = i /\ all[i] = ports[i - 1] /\ i - 1 # j - 1
        BY <1>1, <1>5, <1>6, <2>1, <3>4
      <4>2. ports[i - 1] \in X \cup {NotSet}
        BY <1>1, <1>9, <2>1, <3>1, <4>1 DEF EachOnce
      <4> QED BY <4>1, <4>2 DEF ServiceAssumption, Values, Ranges, NotSet, Elsewhere
    <3> QED BY <3>3, <3>4
  <2>2. \A i, j \in DOMAIN all :
            i # j /\ all[i] = all[j] => all[i] \notin Values \/ all[i] \in X
    <3>1. \A i, j \in DOMAIN all : i # j => i < j \/ j < i
      BY <1>1, <1>6
    <3> QED BY <2>1, <3>1
  <2> QED BY <1>5, <2>2, ThoseAre
<1> QED BY <1>4, <1>8, <1>9 DEF ports

LEMMA DifferenceIs ==
    ASSUME NEW old \in Seq(Values), NEW new, NEW X
    PROVE  /\ Difference(old, new) \in Seq(Values)
           /\ ToSet(Difference(old, new)) = ToSet(old) \ ToSet(new)
           /\ Once(old, X) => Once(Difference(old, new), X)
<1> DEFINE w == Values \ ToSet(new)
           r == Those(old, w)
<1>1. r \in Seq(Values \cap w) /\ ToSet(r) = ToSet(old) \cap w
  BY ThoseAre
<1>2. Once(old, X) => Once(r, X)
  BY ThoseAre DEF Once
<1>3. ToSet(old) \subseteq Values
  BY DEF ToSet
<1>4. Difference(old, new) = r
  BY DEF Difference
<1> HIDE DEF r
<1>5. r \in Seq(Values)
  BY <1>1
<1>6. ToSet(r) = ToSet(old) \ ToSet(new)
  BY <1>1, <1>3
<1> QED BY <1>2, <1>4, <1>5, <1>6

----
(* Owners.  Each value that is taken belongs to one stored service or to   *)
(* one request, or is lost: U is what services use, H what requests hold,  *)
(* A what is taken and L what is lost.                                     *)

Owners(U, H, A, L) ==
    /\ \A n, m \in ServiceNames : n # m => U[n] \cap U[m] = {}
    /\ \A c, d \in Requesters : c # d => H[c] \cap H[d] = {}
    /\ \A n \in ServiceNames, c \in Requesters : U[n] \cap H[c] = {}
    /\ \A v : (\E n \in ServiceNames : v \in U[n]) \/ (\E c \in Requesters : v \in H[c]) => v \in A
    /\ \A v \in A :
           (\E n \in ServiceNames : v \in U[n]) \/ (\E c \in Requesters : v \in H[c]) \/ v \in L

LEMMA TakenByOne ==
    ASSUME NEW U, NEW H, DOMAIN H = Requesters, NEW A, NEW L, Owners(U, H, A, L),
           NEW c \in Requesters, NEW v, v \notin A
    PROVE  Owners(U, [H EXCEPT ![c] = H[c] \cup {v}], A \cup {v}, L)
<1> DEFINE G == [H EXCEPT ![c] = H[c] \cup {v}]
<1>1. /\ \A n \in ServiceNames : v \notin U[n]
      /\ \A d \in Requesters : v \notin H[d]
  BY DEF Owners
<1>2. G[c] = H[c] \cup {v} /\ \A d \in Requesters : d # c => G[d] = H[d]
  OBVIOUS
<1> HIDE DEF G
<1>3. \A d, e \in Requesters : d # e => G[d] \cap G[e] = {}
  BY <1>1, <1>2 DEF Owners
<1>4. \A n \in ServiceNames, d \in Requesters : U[n] \cap G[d] = {}
  BY <1>1, <1>2 DEF Owners
<1>5. \A d \in Requesters : H[d] \subseteq G[d] /\ G[d] \subseteq H[d] \cup {v}
  BY <1>2
<1>6. Owners(U, G, A \cup {v}, L)
  BY <1>2, <1>3, <1>4, <1>5 DEF Owners
<1> QED BY <1>6 DEF G

LEMMA GivenBack ==
    ASSUME NEW U, NEW H, DOMAIN H = Requesters, NEW A, NEW L, Owners(U, H, A, L),
           NEW c \in Requesters, NEW v \in H[c]
    PROVE  Owners(U, [H EXCEPT ![c] = H[c] \ {v}], A \ {v}, L)
<1> DEFINE G == [H EXCEPT ![c] = H[c] \ {v}]
<1>1. /\ \A n \in ServiceNames : v \notin U[n]
      /\ \A d \in Requesters : d # c => v \notin H[d]
  BY DEF Owners
<1>2. G[c] = H[c] \ {v} /\ \A d \in Requesters : d # c => G[d] = H[d]
  OBVIOUS
<1> HIDE DEF G
<1>3. \A d, e \in Requesters : d # e => G[d] \cap G[e] = {}
  BY <1>2 DEF Owners
<1>4. \A n \in ServiceNames, d \in Requesters : U[n] \cap G[d] = {}
  BY <1>2 DEF Owners
<1>5. \A d \in Requesters : G[d] \subseteq H[d] \ {v} /\ H[d] \subseteq G[d] \cup {v}
  BY <1>1, <1>2
<1>6. Owners(U, G, A \ {v}, L)
  BY <1>1, <1>3, <1>4, <1>5 DEF Owners
<1> QED BY <1>6 DEF G

\* What a request lets go of without releasing it is lost.
LEMMA LetGo ==
    ASSUME NEW U, NEW H, DOMAIN H = Requesters, NEW A, NEW L, Owners(U, H, A, L),
           NEW c \in Requesters, NEW held, held \subseteq H[c],
           NEW M, L \subseteq M, H[c] \ held \subseteq M
    PROVE  Owners(U, [H EXCEPT ![c] = held], A, M)
<1> DEFINE G == [H EXCEPT ![c] = held]
<1>1. G[c] = held /\ \A d \in Requesters : d # c => G[d] = H[d]
  OBVIOUS
<1> HIDE DEF G
<1>2. \A d \in Requesters : G[d] \subseteq H[d] /\ H[d] \subseteq G[d] \cup M
  BY <1>1
<1>3. Owners(U, G, A, M)
  BY <1>2 DEF Owners
<1> QED BY <1>3 DEF G

\* Less is claimed of fewer values.
LEMMA Narrowed ==
    ASSUME NEW U, NEW H, NEW A, NEW L, Owners(U, H, A, L), NEW X
    PROVE  Owners([n \in ServiceNames |-> U[n] \ X], [c \in Requesters |-> H[c] \ X], A \ X, L)
BY DEF Owners

LEMMA HandedOver ==
    ASSUME NEW U, DOMAIN U = ServiceNames, NEW H, DOMAIN H = Requesters, NEW A, NEW L,
           Owners(U, H, A, L), NEW n \in ServiceNames, NEW c \in Requesters, NEW taken, NEW held,
           taken \cup held = U[n] \cup H[c], taken \cap held = {}
    PROVE  Owners([U EXCEPT ![n] = taken], [H EXCEPT ![c] = held], A, L)
<1> DEFINE V == [U EXCEPT ![n] = taken]
           G == [H EXCEPT ![c] = held]
<1>1. V[n] = taken /\ \A m \in ServiceNames : m # n => V[m] = U[m]
  OBVIOUS
<1>2. G[c] = held /\ \A d \in Requesters : d # c => G[d] = H[d]
  OBVIOUS
<1> HIDE DEF V, G
<1>3. \A x : x \in taken \/ x \in held <=> x \in U[n] \/ x \in H[c]
  OBVIOUS
<1>4. Owners(V, G, A, L)
  <2>1. \A m, k \in ServiceNames : m # k => V[m] \cap V[k] = {}
    BY <1>1, <1>3 DEF Owners
  <2>2. \A d, e \in Requesters : d # e => G[d] \cap G[e] = {}
    BY <1>2, <1>3 DEF Owners
  <2>3. \A m \in ServiceNames, d \in Requesters : V[m] \cap G[d] = {}
    BY <1>1, <1>2, <1>3 DEF Owners
  <2>4. ASSUME NEW x
        PROVE (\E m \in ServiceNames : x \in V[m]) \/ (\E d \in Requesters : x \in G[d])
              <=> (\E m \in ServiceNames : x \in U[m]) \/ (\E d \in Requesters : x \in H[d])
    <3>1. (\E m \in ServiceNames : x \in V[m]) <=> (x \in taken \/ \E m \in ServiceNames : m # n /\ x \in U[m])
      BY <1>1
    <3>2. (\E d \in Requesters : x \in G[d]) <=> (x \in held \/ \E d \in Requesters : d # c /\ x \in H[d])
      BY <1>2
    <3>3. (\E m \in ServiceNames : x \in U[m]) <=> (x \in U[n] \/ \E m \in ServiceNames : m # n /\ x \in U[m])
      OBVIOUS
    <3>4. (\E d \in Requesters : x \in H[d]) <=> (x \in H[c] \/ \E d \in Requesters : d # c /\ x \in H[d])
      OBVIOUS
    <3> QED BY <1>3, <3>1, <3>2, <3>3, <3>4
  <2> QED BY <2>1, <2>2, <2>3, <2>4 DEF Owners
<1> QED BY <1>4 DEF V, G

----
(* The invariant.                                                          *)

HeldBy(f) == ToSet(f.took) \cup ToSet(f.todo)

Use   == [n \in ServiceNames |-> Uses(services[n]) \ stray]
Hold  == [c \in Requesters |-> HeldBy(request[c]) \ stray]
Granted == allocated \ stray

Working == {"clusterIP", "nodePorts", "commit"}

\* A stored service has a revision of its own, and no port twice that is not stray.
GoodService(s, r, X) == (s = NoService \/ s.mod \in 1 .. r) /\ EachOnce(s.ports, X)

\* What was handled was the service's before or was taken for it, but for an address
\* that nobody claims, and what was taken is in the new service.
GoodWork(f) ==
    /\ f.pc = "clusterIP" => f.took = <<>> /\ f.next = 1
    /\ f.pc # "clusterIP" /\ RequiresClusterIP(f.type) => f.spec.ip \in Uses(f.seen) \cup ToSet(f.took)
    /\ \A i \in DOMAIN f.spec.ports :
           i < f.next => f.spec.ports[i] \in Uses(f.seen) \cup ToSet(f.took)
    /\ \A v \in ToSet(f.took) :
           v = f.spec.ip \/ \E i \in DOMAIN f.spec.ports : i < f.next /\ f.spec.ports[i] = v
    /\ f.pc = "commit" => \A i \in DOMAIN f.spec.ports : i < f.next \/ f.spec.ports[i] = NotSet

IsCurrent(f, stored) == stored[f.name].mod = f.seen.mod

\* The service a request has seen is the one that is stored, if its revision is.
GoodFrame(f, stored, r, X) ==
    /\ f.seen = NoService \/ f.seen.mod \in 1 .. r
    /\ f.pc \in Working \cup {"delete"} =>
           f.name \in ServiceNames /\ (IsCurrent(f, stored) => f.seen = stored[f.name])
    /\ f.pc \notin Working => f.took = <<>>
    /\ f.pc # "release" <=> f.todo = <<>>
    /\ Once(f.took, X) /\ Once(f.todo, X)
    /\ f.pc \in Working => GoodWork(f)

IsGood(f) == GoodFrame(f, services, serviceRev, stray)

ServiceInv ==
    /\ ServiceTypeOK /\ Owners(Use, Hold, Granted, lost)
    /\ \A n \in ServiceNames : GoodService(services[n], serviceRev, stray)
    /\ \A c \in Requesters : IsGood(request[c])

----
(* Frames.                                                                 *)

\* What Releasing makes of the request.
ReleaseFrame(values) ==
    IF values = <<>> THEN AtEase ELSE [AtEase EXCEPT !.pc = "release", !.todo = values]

LEMMA AbsentIsService ==
    ASSUME ServiceAssumption, NEW X
    PROVE  NoService \in Services /\ EachOnce(NoService.ports, X) /\ Uses(NoService) = {}
<1>1. <<>> \in [1 .. 0 -> NodePorts \cup {NotSet}]
  OBVIOUS
<1>2. <<>> \in PortLists
  BY <1>1 DEF PortLists, ServiceAssumption
<1> QED BY <1>2 DEF NoService, Asked, Services, Addresses, EachOnce, Uses

LEMMA IdleIsGood ==
    ASSUME ServiceAssumption, NEW stored, NEW r, NEW X
    PROVE  AtEase \in ServiceFrames /\ GoodFrame(AtEase, stored, r, X) /\ HeldBy(AtEase) = {}
<1>1. /\ AtEase.pc = "idle" /\ AtEase.seen = NoService /\ AtEase.took = <<>> /\ AtEase.todo = <<>>
      /\ AtEase.name = NotSet /\ AtEase.type = "ClusterIP" /\ AtEase.spec = NoService /\ AtEase.next = 1
  BY DEF AtEase
<1>2. NoService \in Services /\ 1 \in 1 .. MaxPorts + 1
  BY AbsentIsService DEF ServiceAssumption
<1>3. AtEase \in ServiceFrames
  BY <1>2, EmptySeq DEF AtEase, ServiceFrames, Types
<1>4. ToSet(<<>>) = {} /\ Once(<<>>, X)
  BY DEF ToSet, Once
<1>5. GoodFrame(AtEase, stored, r, X)
  BY <1>1, <1>4 DEF GoodFrame, Working
<1> QED BY <1>1, <1>3, <1>4, <1>5 DEF HeldBy

LEMMA ReleaseIsGood ==
    ASSUME ServiceAssumption, NEW stored, NEW r, NEW X, NEW values \in Seq(Values), Once(values, X)
    PROVE  /\ ReleaseFrame(values) \in ServiceFrames /\ GoodFrame(ReleaseFrame(values), stored, r, X)
           /\ HeldBy(ReleaseFrame(values)) = ToSet(values)
           /\ ReleaseFrame(values).pc \in {"idle", "release"}
<1>1. CASE values = <<>>
  <2>1. ReleaseFrame(values) = AtEase /\ ToSet(values) = {} /\ AtEase.pc = "idle"
    BY <1>1 DEF ReleaseFrame, ToSet, AtEase
  <2> QED BY <2>1, IdleIsGood
<1>2. CASE values # <<>>
  <2> DEFINE g == [AtEase EXCEPT !.pc = "release", !.todo = values]
  <2>1. /\ g.pc = "release" /\ g.seen = NoService /\ g.took = <<>> /\ g.todo = values
        /\ g.name = NotSet /\ g.type = "ClusterIP" /\ g.spec = NoService /\ g.next = 1
    BY DEF AtEase
  <2>2. NoService \in Services /\ 1 \in 1 .. MaxPorts + 1
    BY AbsentIsService DEF ServiceAssumption
  <2>3. g \in ServiceFrames
    BY <2>2, EmptySeq DEF AtEase, ServiceFrames, Types
  <2>4. ReleaseFrame(values) = g
    BY <1>2 DEF ReleaseFrame
  <2> HIDE DEF g
  <2>5. ToSet(<<>>) = {} /\ Once(<<>>, X)
    BY DEF ToSet, Once
  <2>6. GoodFrame(g, stored, r, X)
    BY <1>2, <2>1, <2>5 DEF GoodFrame, Working
  <2>7. HeldBy(g) = ToSet(values)
    BY <2>1, <2>5 DEF HeldBy
  <2> QED BY <2>1, <2>3, <2>4, <2>6, <2>7
<1> QED BY <1>1, <1>2

LEMMA FrameOnly ==
    ASSUME ServiceInv, NEW c \in Requesters, NEW g \in ServiceFrames, IsGood(g), Continues(c, g),
           UNCHANGED <<serviceRev, services, stray>>, allocated' \subseteq Ranges, lost' \subseteq Values,
           Owners(Use, [Hold EXCEPT ![c] = HeldBy(g) \ stray], allocated' \ stray, lost')
    PROVE  ServiceInv'
<1>1. /\ serviceRev \in Nat /\ services \in [ServiceNames -> Services] /\ request \in [Requesters -> ServiceFrames]
      /\ stray \subseteq Values
  BY DEF ServiceInv, ServiceTypeOK
<1>2. request' = [request EXCEPT ![c] = g]
  BY DEF Continues
<1>3. request'[c] = g /\ \A d \in Requesters : d # c => request'[d] = request[d]
  BY <1>1, <1>2
<1>4. ServiceTypeOK'
  BY <1>1, <1>2 DEF ServiceTypeOK
<1>5. Hold' = [Hold EXCEPT ![c] = HeldBy(g) \ stray]
  <2>1. \A d \in Requesters : HeldBy(request'[d]) = (IF d = c THEN HeldBy(g) ELSE HeldBy(request[d]))
    BY <1>3
  <2>2. Hold' = [d \in Requesters |-> HeldBy(request'[d]) \ stray]
    BY DEF Hold, HeldBy
  <2> HIDE DEF HeldBy
  <2> QED BY <2>1, <2>2 DEF Hold
<1>6. Use' = Use /\ Granted' = allocated' \ stray
  BY DEF Use, Granted
<1>7. Owners(Use, Hold, Granted, lost)'
  BY <1>5, <1>6 DEF Owners
<1>8. \A d \in Requesters : GoodFrame(request'[d], services, serviceRev, stray)
  BY <1>3 DEF ServiceInv, IsGood
<1>9. \A n \in ServiceNames : GoodService(services[n], serviceRev, stray)
  BY DEF ServiceInv
<1>10. /\ \A d \in Requesters : IsGood(request[d])'
       /\ \A n \in ServiceNames : GoodService(services[n], serviceRev, stray)'
  BY <1>8, <1>9 DEF IsGood, GoodFrame, GoodService, IsCurrent
<1> QED BY <1>4, <1>7, <1>10 DEF ServiceInv

\* A commit makes the frames of the other requests on that service out of date.
LEMMA OthersStayGood ==
    ASSUME NEW r \in Nat, NEW stored, DOMAIN stored = ServiceNames, NEW n \in ServiceNames,
           NEW s, s = NoService \/ s.mod = r + 1, NEW f, f.seen = NoService => f.seen.mod = 0,
           NEW X, NEW Y, X \subseteq Y, GoodFrame(f, stored, r, X)
    PROVE  GoodFrame(f, [stored EXCEPT ![n] = s], r + 1, Y)
<1> DEFINE next == [stored EXCEPT ![n] = s]
<1>1. next[n] = s /\ \A m \in ServiceNames : m # n => next[m] = stored[m]
  OBVIOUS
<1>2. NoService.mod = 0
  BY DEF NoService, Asked
<1> HIDE DEF next
<1>3. f.seen = NoService \/ f.seen.mod \in 1 .. r
  BY DEF GoodFrame
<1>4. f.seen = NoService \/ f.seen.mod \in 1 .. r + 1
  BY <1>3
<1>5. ASSUME f.name \in ServiceNames, IsCurrent(f, stored) => f.seen = stored[f.name],
             IsCurrent(f, next)
      PROVE  f.seen = next[f.name]
  <2>1. CASE f.name # n
    BY <1>1, <1>5, <2>1 DEF IsCurrent
  <2>2. CASE f.name = n
    <3>1. s.mod = f.seen.mod
      BY <1>1, <1>5, <2>2 DEF IsCurrent
    <3>2. f.seen = NoService /\ s = NoService
      BY <1>2, <1>3, <3>1
    <3> QED BY <1>1, <2>2, <3>2
  <2> QED BY <2>1, <2>2
<1>6. f.pc \in Working \cup {"delete"} =>
        f.name \in ServiceNames /\ (IsCurrent(f, next) => f.seen = next[f.name])
  BY <1>5 DEF GoodFrame
<1>7. Once(f.took, Y) /\ Once(f.todo, Y)
  BY DEF GoodFrame, Once
<1>8. GoodFrame(f, next, r + 1, Y)
  BY <1>4, <1>6, <1>7 DEF GoodFrame
<1> QED BY <1>8 DEF next

\* A service is stored or removed; X is what that makes stray.
LEMMA Committed ==
    ASSUME ServiceInv, NEW c \in Requesters, NEW n \in ServiceNames, NEW s \in Services,
           s = NoService \/ s.mod = serviceRev + 1, NEW X \in SUBSET Values, EachOnce(s.ports, stray \cup X),
           serviceRev' = serviceRev + 1, services' = [services EXCEPT ![n] = s],
           stray' = stray \cup X, UNCHANGED <<allocated, lost>>,
           NEW g \in ServiceFrames, IsGood(g), g.pc \in {"idle", "release"}, Continues(c, g),
           (Uses(s) \cup HeldBy(g)) \ (stray \cup X)
               = (Uses(services[n]) \cup HeldBy(request[c])) \ (stray \cup X),
           Uses(s) \cap HeldBy(g) \subseteq stray \cup X
    PROVE  ServiceInv'
<1> DEFINE Y == stray \cup X
<1>1. /\ serviceRev \in Nat /\ services \in [ServiceNames -> Services] /\ request \in [Requesters -> ServiceFrames]
      /\ allocated \subseteq Ranges /\ stray \subseteq Values /\ lost \subseteq Values
  BY DEF ServiceInv, ServiceTypeOK
<1>2. request' = [request EXCEPT ![c] = g]
  BY DEF Continues
<1>3. /\ request'[c] = g /\ \A d \in Requesters : d # c => request'[d] = request[d]
      /\ services'[n] = s /\ \A m \in ServiceNames : m # n => services'[m] = services[m]
  BY <1>1, <1>2
<1>4. ServiceTypeOK'
  <2>1. serviceRev' \in Nat /\ services' \in [ServiceNames -> Services] /\ request' \in [Requesters -> ServiceFrames]
    BY <1>1, <1>2
  <2> QED BY <1>1, <2>1 DEF ServiceTypeOK
<1>5. Hold' = [[d \in Requesters |-> Hold[d] \ X] EXCEPT ![c] = HeldBy(g) \ Y]
  <2>1. \A d \in Requesters : HeldBy(request'[d]) = (IF d = c THEN HeldBy(g) ELSE HeldBy(request[d]))
    BY <1>3
  <2>2. Hold' = [d \in Requesters |-> HeldBy(request'[d]) \ Y]
    BY DEF Hold, HeldBy
  <2> HIDE DEF HeldBy
  <2> QED BY <2>1, <2>2 DEF Hold
<1>6. Use' = [[m \in ServiceNames |-> Use[m] \ X] EXCEPT ![n] = Uses(s) \ Y]
  <2>1. \A m \in ServiceNames : Uses(services'[m]) = (IF m = n THEN Uses(s) ELSE Uses(services[m]))
    BY <1>3
  <2>2. Use' = [m \in ServiceNames |-> Uses(services'[m]) \ Y]
    BY DEF Use, Uses
  <2> HIDE DEF Uses
  <2> QED BY <2>1, <2>2 DEF Use
<1>7. Granted' = Granted \ X
  BY DEF Granted
<1>8. Owners(Use', Hold', Granted', lost)
  <2> DEFINE U == [m \in ServiceNames |-> Use[m] \ X]
             H == [d \in Requesters |-> Hold[d] \ X]
             A == Granted \ X
             L == lost
             taken == Uses(s) \ Y
             held == HeldBy(g) \ Y
  <2>1. Owners(Use, Hold, Granted, lost)
    BY DEF ServiceInv
  <2>2. Owners(U, H, A, L)
    <3> DEFINE U0 == Use
               H0 == Hold
               A0 == Granted
    <3>1. Owners(U0, H0, A0, L)
      BY <2>1
    <3> HIDE DEF U0, H0, A0, L
    <3>2. Owners([m \in ServiceNames |-> U0[m] \ X], [d \in Requesters |-> H0[d] \ X], A0 \ X, L)
      BY <3>1, Narrowed
    <3> QED BY <3>2 DEF U0, H0, A0
  <2>3. /\ DOMAIN U = ServiceNames /\ DOMAIN H = Requesters
        /\ U[n] = Uses(services[n]) \ Y /\ H[c] = HeldBy(request[c]) \ Y
    BY DEF Use, Hold
  <2>4. taken \cup held = U[n] \cup H[c] /\ taken \cap held = {}
    BY <2>3
  <2> HIDE DEF U, H, A, L, taken, held
  <2>5. Owners([U EXCEPT ![n] = taken], [H EXCEPT ![c] = held], A, L)
    BY <2>2, <2>3, <2>4, HandedOver
  <2> QED BY <1>5, <1>6, <1>7, <2>5 DEF U, H, A, L, taken, held
<1>9. Owners(Use, Hold, Granted, lost)'
  BY <1>8 DEF Owners
<1>10. ASSUME NEW d \in Requesters PROVE GoodFrame(request'[d], services', serviceRev', stray')
  <2> DEFINE f == request'[d]
             r == serviceRev
             stored == services
             Z == stray
  <2>1. GoodFrame(f, stored, r, Z)
    BY <1>3 DEF ServiceInv, IsGood
  <2>2. DOMAIN stored = ServiceNames /\ r \in Nat /\ Z \subseteq Y
    BY <1>1
  <2>3. f.seen = NoService => f.seen.mod = 0
    BY DEF NoService, Asked
  <2>4. s = NoService \/ s.mod = r + 1
    OBVIOUS
  <2>5. serviceRev' = r + 1 /\ services' = [stored EXCEPT ![n] = s] /\ stray' = Y
    OBVIOUS
  <2> HIDE DEF f, r, stored, Z, Y
  <2>6. GoodFrame(f, [stored EXCEPT ![n] = s], r + 1, Y)
    BY <2>1, <2>2, <2>3, <2>4, OthersStayGood
  <2> QED BY <2>5, <2>6 DEF f
<1>11. ASSUME NEW m \in ServiceNames PROVE GoodService(services'[m], serviceRev', stray')
  <2>1. CASE m = n
    BY <1>1, <1>3, <2>1 DEF GoodService
  <2>2. CASE m # n
    <3>1. GoodService(services[m], serviceRev, stray)
      BY DEF ServiceInv
    <3>2. EachOnce(services[m].ports, stray \cup X)
      BY <3>1 DEF GoodService, EachOnce
    <3> QED BY <1>1, <1>3, <2>2, <3>1, <3>2 DEF GoodService
  <2> QED BY <2>1, <2>2
<1>12. /\ \A d \in Requesters : IsGood(request[d])'
       /\ \A m \in ServiceNames : GoodService(services[m], serviceRev, stray)'
  BY <1>10, <1>11 DEF IsGood, GoodFrame, GoodService, IsCurrent
<1> QED BY <1>4, <1>9, <1>12 DEF ServiceInv

----
(* One request's step, when nothing is committed.                          *)

LEMMA HeldIsTaken ==
    ASSUME ServiceInv, NEW c \in Requesters
    PROVE  /\ HeldBy(request[c]) \subseteq allocated \cup stray
           /\ DOMAIN Hold = Requesters /\ Hold[c] = HeldBy(request[c]) \ stray
           /\ Owners(Use, Hold, Granted, lost)
<1> DEFINE U == Use
           H == Hold
           A == Granted
<1>1. Owners(U, H, A, lost)
  BY DEF ServiceInv
<1>2. DOMAIN H = Requesters /\ H[c] = HeldBy(request[c]) \ stray /\ A = allocated \ stray
  BY DEF Hold, Granted
<1> HIDE DEF U, H, A
<1>3. H[c] \subseteq A
  BY <1>1 DEF Owners
<1>4. HeldBy(request[c]) \subseteq allocated \cup stray
  BY <1>2, <1>3
<1> QED BY <1>1, <1>2, <1>4 DEF U, H, A

LEMMA SameHolding ==
    ASSUME ServiceInv, NEW c \in Requesters, NEW g \in ServiceFrames, IsGood(g),
           HeldBy(g) = HeldBy(request[c]), Continues(c, g),
           UNCHANGED <<serviceRev, services, allocated, stray, lost>>
    PROVE  ServiceInv'
<1>1. DOMAIN Hold = Requesters /\ Hold[c] = HeldBy(g) \ stray /\ Owners(Use, Hold, Granted, lost)
  BY HeldIsTaken
<1> DEFINE H == Hold
           h == HeldBy(g) \ stray
<1>2. [H EXCEPT ![c] = h] = H
  <2>1. H = [d \in Requesters |-> H[d]] /\ H[c] = h
    BY <1>1 DEF Hold
  <2> HIDE DEF H, h
  <2> QED BY <2>1
<1>3. allocated' \subseteq Ranges /\ lost' \subseteq Values
  BY DEF ServiceInv, ServiceTypeOK
<1>4. allocated' \ stray = Granted /\ lost' = lost
  BY DEF Granted
<1>5. Owners(Use, [Hold EXCEPT ![c] = HeldBy(g) \ stray], allocated' \ stray, lost')
  BY <1>1, <1>2, <1>4
<1> QED BY <1>3, <1>5, FrameOnly

\* A request gives back everything it took, in some order.
LEMMA GivingBackKeeps ==
    ASSUME ServiceAssumption, ServiceInv, NEW c \in Requesters, request[c].pc \in Working,
           NEW back \in Seq(Values), Once(back, stray), ToSet(back) = ToSet(request[c].took),
           Releasing(c, back), UNCHANGED <<serviceRev, services, allocated, stray, lost>>
    PROVE  ServiceInv'
<1> DEFINE g == ReleaseFrame(back)
<1>1. request[c].todo = <<>>
  BY DEF ServiceInv, IsGood, GoodFrame, Working
<1>2. Continues(c, g)
  BY DEF Releasing, ReleaseFrame, Continues
<1>3. HeldBy(request[c]) = ToSet(back)
  <2>1. ToSet(<<>>) = {}
    BY DEF ToSet
  <2> QED BY <1>1, <2>1 DEF HeldBy
<1>4. g \in ServiceFrames /\ IsGood(g) /\ HeldBy(g) = ToSet(back)
  BY ReleaseIsGood DEF IsGood
<1> HIDE DEF g
<1> QED BY <1>2, <1>3, <1>4, SameHolding

LEMMA TookIs ==
    ASSUME ServiceInv, NEW c \in Requesters
    PROVE  /\ request[c].took \in Seq(Ranges) /\ request[c].took \in Seq(Values)
           /\ Once(request[c].took, stray)
<1> DEFINE took == request[c].took
<1>1. took \in Seq(Ranges) /\ Once(took, stray)
  BY DEF ServiceInv, ServiceTypeOK, ServiceFrames, IsGood, GoodFrame
<1>2. Ranges \subseteq Values
  BY DEF Values
<1> HIDE DEF took
<1>3. took \in Seq(Values)
  BY <1>1, <1>2
<1> QED BY <1>1, <1>3 DEF took

LEMMA UndoKeeps ==
    ASSUME ServiceAssumption, ServiceInv, NEW c \in Requesters, request[c].pc \in Working,
           Undo(c), UNCHANGED <<serviceRev, services, allocated, stray, lost>>
    PROVE  ServiceInv'
<1> DEFINE took == request[c].took
           ports == Those(took, NodePorts)
           ips == Those(took, IPs)
           back == ports \o ips
           X == stray
<1>1. took \in Seq(Ranges) /\ Once(took, X)
  BY TookIs
<1>2. Releasing(c, back)
  BY DEF Undo
<1> HIDE DEF took, X
<1>3. /\ ports \in Seq(Ranges \cap NodePorts) /\ ToSet(ports) = ToSet(took) \cap NodePorts
      /\ ips \in Seq(Ranges \cap IPs) /\ ToSet(ips) = ToSet(took) \cap IPs
      /\ Once(ports, X) /\ Once(ips, X)
  <2>1. \A i, j \in DOMAIN took : i # j /\ took[i] = took[j] => took[i] \in X
    BY <1>1 DEF Once
  <2> QED BY <1>1, <2>1, ThoseAre
<1> HIDE DEF ports, ips
<1>4. ports \in Seq(Values) /\ ips \in Seq(Values)
  <2>1. Ranges \cap NodePorts \subseteq Values /\ Ranges \cap IPs \subseteq Values
    BY DEF Values
  <2> QED BY <1>3, <2>1
<1>5. ToSet(ports) \cap ToSet(ips) = {}
  BY <1>3 DEF ServiceAssumption
<1>6. ToSet(took) \subseteq Ranges
  BY <1>1 DEF ToSet
<1>7. back \in Seq(Values) /\ ToSet(back) = ToSet(ports) \cup ToSet(ips) /\ Once(back, X)
  BY <1>3, <1>4, <1>5, OneAfterAnother
<1>8. ToSet(back) = ToSet(took)
  BY <1>3, <1>6, <1>7 DEF Ranges
<1> HIDE DEF back
<1> QED BY <1>2, <1>7, <1>8, GivingBackKeeps DEF took, X

LEMMA TakingKeeps ==
    ASSUME ServiceInv, NEW c \in Requesters, NEW kept, NEW v \in Ranges \ allocated,
           kept.took = request[c].took, kept.todo = request[c].todo,
           Taking(c, v, kept), UNCHANGED <<serviceRev, services, stray, lost>>,
           NEW g, g = [kept EXCEPT !.took = Append(@, v)], g \in ServiceFrames,
           g.took = Append(kept.took, v), g.todo = kept.todo, IsGood(g)
    PROVE  ServiceInv'
<1>1. allocated' = allocated \cup {v} /\ Continues(c, g)
  BY DEF Taking
<1>2. ToSet(g.took) = ToSet(request[c].took) \cup {v}
  BY TookIs, OneMore
<1>3. HeldBy(g) = HeldBy(request[c]) \cup {v}
  BY <1>2 DEF HeldBy
<1> DEFINE U == Use
           H == Hold
           A == Granted
<1>4. DOMAIN H = Requesters /\ H[c] = HeldBy(request[c]) \ stray /\ Owners(U, H, A, lost)
  BY HeldIsTaken
<1>5. A = allocated \ stray /\ H = [d \in Requesters |-> H[d]]
  BY DEF Granted, Hold
<1>6. allocated' \subseteq Ranges /\ lost' \subseteq Values
  BY <1>1 DEF ServiceInv, ServiceTypeOK
<1> HIDE DEF U, H, A
<1>7. Owners(U, [H EXCEPT ![c] = HeldBy(g) \ stray], allocated' \ stray, lost)
  <2>1. CASE v \in stray
    <3>1. HeldBy(g) \ stray = H[c] /\ allocated' \ stray = A
      BY <1>1, <1>3, <1>4, <1>5, <2>1
    <3>2. [H EXCEPT ![c] = H[c]] = H
      BY <1>5
    <3> QED BY <1>4, <3>1, <3>2
  <2>2. CASE v \notin stray
    <3>1. HeldBy(g) \ stray = H[c] \cup {v} /\ allocated' \ stray = A \cup {v} /\ v \notin A
      BY <1>1, <1>3, <1>4, <1>5, <2>2
    <3>2. Owners(U, [H EXCEPT ![c] = H[c] \cup {v}], A \cup {v}, lost)
      BY <1>4, <3>1, TakenByOne
    <3> QED BY <3>1, <3>2
  <2> QED BY <2>1, <2>2
<1>8. Owners(Use, [Hold EXCEPT ![c] = HeldBy(g) \ stray], allocated' \ stray, lost')
  BY <1>7 DEF U, H
<1> QED BY <1>1, <1>6, <1>8, FrameOnly

LEMMA ReleaseKeeps ==
    ASSUME ServiceAssumption, ServiceInv, NEW c \in Requesters, ReleaseOne(c)
    PROVE  ServiceInv'
<1> DEFINE todo == request[c].todo
           v == Head(todo)
           rest == Tail(todo)
           back == Reached(v, rest)
           X == stray
<1>1. IsGood(request[c]) /\ request[c] \in ServiceFrames /\ request[c].pc = "release"
  BY DEF ServiceInv, ServiceTypeOK, ReleaseOne, Does
<1>2. todo \in Seq(Values) /\ todo # <<>> /\ Once(todo, X) /\ request[c].took = <<>>
  BY <1>1 DEF ServiceFrames, IsGood, GoodFrame, Working
<1>3. ToSet(<<>>) = {} /\ Once(<<>>, X)
  BY DEF ToSet, Once
<1>4. HeldBy(request[c]) = ToSet(todo)
  BY <1>2, <1>3 DEF HeldBy
<1>5. /\ allocated' = allocated \ {v} /\ UNCHANGED <<serviceRev, services, stray>>
      /\ Continues(c, ReleaseFrame(back))
      /\ lost' = IF v \in X THEN lost \cup (ToSet(rest) \ ToSet(back)) ELSE lost
  BY DEF ReleaseOne, Releasing, ReleaseFrame, Continues
<1>6. v \notin allocated => back = (IF v \in NodePorts THEN Those(rest, IPs) ELSE <<>>)
  BY DEF Reached
<1>7. v \in allocated => back = rest
  BY DEF Reached
<1> HIDE DEF todo, X, back
<1>8. /\ rest \in Seq(Values) /\ Len(todo) \in Nat \ {0} /\ Len(rest) = Len(todo) - 1
      /\ v = todo[1] /\ \A i \in 1 .. Len(rest) : rest[i] = todo[i + 1]
  BY <1>2
<1> HIDE DEF v, rest
<1>9. DOMAIN todo = 1 .. Len(todo) /\ DOMAIN rest = 1 .. Len(todo) - 1
  BY <1>2, <1>8
<1>10. Once(rest, X) /\ ToSet(todo) = {v} \cup ToSet(rest) /\ (v \in ToSet(rest) => v \in X)
  <2>1. \A i \in DOMAIN rest : i \in Nat /\ i # 0 /\ i + 1 \in DOMAIN todo /\ rest[i] = todo[i + 1]
    BY <1>8, <1>9
  <2>2. 1 \in DOMAIN todo /\ todo[1] = v
    BY <1>8, <1>9
  <2>3. \A i \in DOMAIN todo : i = 1 \/ (i - 1 \in DOMAIN rest /\ rest[i - 1] = todo[i])
    <3>1. ASSUME NEW i \in DOMAIN todo, i # 1 PROVE i - 1 \in DOMAIN rest /\ rest[i - 1] = todo[i]
      <4>1. i - 1 \in 1 .. Len(rest) /\ (i - 1) + 1 = i /\ i - 1 \in DOMAIN rest
        BY <1>8, <1>9, <3>1
      <4> QED BY <1>8, <4>1
    <3> QED BY <3>1
  <2>4. ASSUME NEW i \in DOMAIN rest, NEW j \in DOMAIN rest, rest[i] = rest[j]
        PROVE  i = j \/ rest[i] \in X
    <3>1. i + 1 = j + 1 \/ rest[i] \in X
      BY <1>2, <2>1, <2>4 DEF Once
    <3> QED BY <2>1, <3>1
  <2>5. v \in ToSet(rest) => v \in X
    <3>1. ASSUME NEW i \in DOMAIN rest, rest[i] = v PROVE v \in X
      <4>1. 1 = i + 1 \/ v \in X
        BY <1>2, <2>1, <2>2, <3>1 DEF Once
      <4> QED BY <2>1, <4>1
    <3> QED BY <3>1 DEF ToSet
  <2>6. ToSet(todo) = {v} \cup ToSet(rest)
    BY <2>1, <2>2, <2>3 DEF ToSet
  <2> QED BY <2>4, <2>5, <2>6 DEF Once
<1>11. back \in Seq(Values) /\ Once(back, X) /\ ToSet(back) \subseteq ToSet(rest)
  <2>1. /\ Those(rest, IPs) \in Seq(Values \cap IPs) /\ ToSet(Those(rest, IPs)) = ToSet(rest) \cap IPs
        /\ Once(Those(rest, IPs), X)
    <3>1. \A i, j \in DOMAIN rest : i # j /\ rest[i] = rest[j] => rest[i] \in X
      BY <1>10 DEF Once
    <3> QED BY <1>8, <3>1, ThoseAre
  <2> DEFINE ips == Those(rest, IPs)
  <2> HIDE DEF ips
  <2>2. ips \in Seq(Values)
    <3>1. Values \cap IPs \subseteq Values
      OBVIOUS
    <3> QED BY <2>1, <3>1 DEF ips
  <2>3. back = rest \/ back = ips \/ back = <<>>
    BY <1>6, <1>7 DEF ips
  <2>4. ToSet(ips) \subseteq ToSet(rest) /\ Once(ips, X)
    BY <2>1 DEF ips
  <2>5. <<>> \in Seq(Values) /\ ToSet(<<>>) \subseteq ToSet(rest)
    BY <1>3
  <2> HIDE DEF back, rest
  <2>6. CASE back = <<>>
    BY <1>3, <2>5, <2>6
  <2> QED BY <1>8, <1>10, <2>2, <2>3, <2>4, <2>6
<1> DEFINE g == ReleaseFrame(back)
<1>12. g \in ServiceFrames /\ IsGood(g) /\ HeldBy(g) = ToSet(back)
  BY <1>11, ReleaseIsGood DEF IsGood, X
<1> DEFINE U == Use
           H == Hold
           A == Granted
<1>13. /\ DOMAIN H = Requesters /\ H[c] = ToSet(todo) \ X /\ Owners(U, H, A, lost)
       /\ ToSet(todo) \subseteq allocated \cup X
  BY <1>4, HeldIsTaken DEF X
<1>14. A = allocated \ X /\ H = [d \in Requesters |-> H[d]]
  BY DEF Granted, Hold, X
<1>15. Continues(c, g)
  BY <1>5
<1> HIDE DEF U, H, A, g
<1>16. Owners(U, [H EXCEPT ![c] = ToSet(back) \ X], allocated' \ X, lost')
  <2>1. CASE v \in allocated /\ v \in X
    <3>1. ToSet(back) \ X = H[c] /\ allocated' \ X = A /\ lost' = lost
      BY <1>5, <1>7, <1>10, <1>13, <1>14, <2>1
    <3>2. [H EXCEPT ![c] = H[c]] = H
      BY <1>14
    <3> QED BY <1>13, <3>1, <3>2
  <2>2. CASE v \in allocated /\ v \notin X
    <3>1. ToSet(back) \ X = H[c] \ {v} /\ allocated' \ X = A \ {v} /\ lost' = lost /\ v \in H[c]
      BY <1>5, <1>7, <1>10, <1>13, <1>14, <2>2
    <3>2. Owners(U, [H EXCEPT ![c] = H[c] \ {v}], A \ {v}, lost)
      BY <1>13, <3>1, GivenBack
    <3> QED BY <3>1, <3>2
  <2>3. CASE v \notin allocated
    <3> DEFINE held == ToSet(back) \ X
               M == lost \cup (ToSet(rest) \ ToSet(back))
    <3>1. v \in X
      BY <1>10, <1>13, <2>3
    <3>2. allocated' \ X = A /\ lost' = M /\ held \subseteq H[c] /\ H[c] \ held \subseteq M /\ lost \subseteq M
      BY <1>5, <1>10, <1>11, <1>13, <1>14, <2>3, <3>1
    <3> HIDE DEF held, M
    <3>3. Owners(U, [H EXCEPT ![c] = held], A, M)
      BY <1>13, <3>2, LetGo
    <3> QED BY <3>2, <3>3 DEF held
  <2> QED BY <2>1, <2>2, <2>3
<1>17. allocated' \subseteq Ranges /\ lost' \subseteq Values
  <2>1. ToSet(rest) \subseteq Values
    BY <1>8 DEF ToSet
  <2> QED BY <1>5, <2>1 DEF ServiceInv, ServiceTypeOK
<1>18. Owners(Use, [Hold EXCEPT ![c] = HeldBy(g) \ stray], allocated' \ stray, lost')
  BY <1>12, <1>16 DEF U, H, X
<1> QED BY <1>5, <1>12, <1>15, <1>17, <1>18, FrameOnly

----
(* Requests begin.                                                         *)

LEMMA IdleHolds ==
    ASSUME ServiceInv, NEW c \in Requesters, Does(c, "idle")
    PROVE  HeldBy(request[c]) = {}
<1>1. request[c].took = <<>> /\ request[c].todo = <<>>
  BY DEF ServiceInv, IsGood, GoodFrame, Working, Does
<1> QED BY <1>1 DEF HeldBy, ToSet

LEMMA BeginsWell ==
    ASSUME ServiceAssumption, ServiceInv, NEW c \in Requesters, Does(c, "idle"),
           NEW n \in ServiceNames, NEW spec \in Services, NEW g \in ServiceFrames,
           /\ g.pc = "clusterIP" /\ g.name = n /\ g.seen = services[n] /\ g.spec = spec
           /\ g.took = <<>> /\ g.todo = <<>> /\ g.next = 1,
           Continues(c, g), UNCHANGED <<serviceRev, services, allocated, stray, lost>>
    PROVE  ServiceInv'
<1>1. /\ g.pc = "clusterIP" /\ g.name = n /\ g.seen = services[n] /\ g.spec = spec
      /\ g.took = <<>> /\ g.todo = <<>> /\ g.next = 1
  OBVIOUS
<1>2. ToSet(<<>>) = {} /\ Once(<<>>, stray)
  BY DEF ToSet, Once
<1>3. HeldBy(g) = HeldBy(request[c])
  BY <1>1, <1>2, IdleHolds DEF HeldBy
<1>4. GoodService(services[n], serviceRev, stray)
  BY DEF ServiceInv
<1>5. \A i \in DOMAIN spec.ports : ~(i < 1)
  <2> DEFINE ports == spec.ports
  <2>1. ports \in PortLists
    BY DEF Services
  <2> HIDE DEF ports
  <2>2. DOMAIN ports = 1 .. Len(ports) /\ Len(ports) \in 0 .. MaxPorts /\ MaxPorts \in Nat
    BY <2>1, PortsAre DEF ServiceAssumption
  <2>3. \A i \in DOMAIN ports : ~(i < 1)
    BY <2>2
  <2> QED BY <2>3 DEF ports
<1>6. GoodWork(g)
  BY <1>1, <1>2, <1>5 DEF GoodWork
<1>7. IsGood(g)
  BY <1>1, <1>2, <1>4, <1>6 DEF IsGood, GoodFrame, GoodService, Working
<1> QED BY <1>3, <1>7, SameHolding

LEMMA CreateKeeps ==
    ASSUME ServiceAssumption, ServiceInv, NEW c \in Requesters, Create(c)
    PROVE  ServiceInv'
<1>1. PICK n \in ServiceNames, a \in Submissions :
           /\ services[n] = NoService
           /\ Continues(c, [AtEase EXCEPT !.pc = "clusterIP", !.name = n, !.type = a.type,
                                   !.spec = Asked(a.ip, a.ports)])
  BY DEF Create
<1>2. a.type \in Types /\ a.ip \in Addresses /\ a.ports \in PortLists
  BY DEF ServiceAssumption, Requested
<1> DEFINE spec == Asked(a.ip, a.ports)
<1>3. spec \in Services
  BY <1>2 DEF Services, Asked
<1> HIDE DEF spec
<1> DEFINE g == [AtEase EXCEPT !.pc = "clusterIP", !.name = n, !.type = a.type, !.spec = spec]
<1>4. /\ g.pc = "clusterIP" /\ g.name = n /\ g.type = a.type /\ g.seen = services[n] /\ g.spec = spec
      /\ g.took = <<>> /\ g.todo = <<>> /\ g.next = 1
  BY <1>1 DEF AtEase
<1>5. g \in ServiceFrames
  <2>1. 1 \in 1 .. MaxPorts + 1 /\ <<>> \in Seq(Values) /\ <<>> \in Seq(Ranges) /\ NoService \in Services
    BY EmptySeq, AbsentIsService DEF ServiceAssumption
  <2> QED BY <1>2, <1>3, <2>1 DEF AtEase, ServiceFrames
<1>6. Continues(c, g)
  BY <1>1 DEF spec
<1> HIDE DEF g
<1>7. Does(c, "idle") /\ UNCHANGED <<serviceRev, services, allocated, stray, lost>>
  BY DEF Create
<1> QED BY <1>3, <1>4, <1>5, <1>6, <1>7, BeginsWell

LEMMA PreservedAre ==
    ASSUME ServiceAssumption, NEW t, NEW ip \in Addresses, NEW ports \in PortLists,
           NEW old \in Services
    PROVE  /\ PreservedIP(t, ip, old) \in Addresses
           /\ PreservedPorts(t, ports, old) \in PortLists
<1>1. old.ip \in Addresses /\ old.ports \in PortLists
  BY DEF Services
<1>2. PreservedIP(t, ip, old) \in Addresses
  BY <1>1 DEF PreservedIP, Addresses
<1> DEFINE prior == old.ports
           kept == PreservedPorts(t, ports, old)
<1>3. prior \in PortLists
  BY <1>1
<1>4. \A i \in DOMAIN prior : prior[i] \in NodePorts \cup {NotSet}
  BY <1>3 DEF PortLists
<1>5. PICK n \in 0 .. MaxPorts : ports \in [1 .. n -> NodePorts \cup {NotSet}]
  BY DEF PortLists
<1>6. kept = [i \in DOMAIN ports |-> IF ~RequiresNodePorts(t) THEN NotSet
                                     ELSE IF ports[i] = NotSet /\ i \in DOMAIN prior THEN prior[i]
                                     ELSE ports[i]]
  BY DEF PreservedPorts
<1> HIDE DEF prior, kept
<1>7. kept \in [1 .. n -> NodePorts \cup {NotSet}]
  BY <1>4, <1>5, <1>6
<1>8. kept \in PortLists
  BY <1>7 DEF PortLists
<1> QED BY <1>2, <1>8 DEF kept

LEMMA UpdateKeeps ==
    ASSUME ServiceAssumption, ServiceInv, NEW c \in Requesters, Update(c)
    PROVE  ServiceInv'
<1>1. PICK n \in ServiceNames, a \in Submissions :
           Continues(c, [AtEase EXCEPT !.pc = "clusterIP", !.name = n, !.type = a.type,
                                   !.seen = services[n],
                                   !.spec = Asked(PreservedIP(a.type, a.ip, services[n]),
                                                  PreservedPorts(a.type, a.ports, services[n]))])
  BY DEF Update
<1>2. a.type \in Types /\ a.ip \in Addresses /\ a.ports \in PortLists
  BY DEF ServiceAssumption, Requested
<1> DEFINE old == services[n]
           addr == PreservedIP(a.type, a.ip, old)
           kept == PreservedPorts(a.type, a.ports, old)
           spec == Asked(addr, kept)
<1>3. old \in Services
  BY DEF ServiceInv, ServiceTypeOK
<1>4. addr \in Addresses /\ kept \in PortLists
  BY <1>2, <1>3, PreservedAre
<1> DEFINE g == [AtEase EXCEPT !.pc = "clusterIP", !.name = n, !.type = a.type, !.seen = old, !.spec = spec]
<1>5. Continues(c, g)
  BY <1>1
<1> HIDE DEF addr, kept
<1>6. spec \in Services
  BY <1>4 DEF Services, Asked
<1> HIDE DEF spec, old
<1>7. /\ g.pc = "clusterIP" /\ g.name = n /\ g.type = a.type /\ g.seen = old /\ g.spec = spec
      /\ g.took = <<>> /\ g.todo = <<>> /\ g.next = 1
  BY DEF AtEase
<1>8. g \in ServiceFrames
  <2>1. 1 \in 1 .. MaxPorts + 1 /\ <<>> \in Seq(Values) /\ <<>> \in Seq(Ranges)
    BY EmptySeq DEF ServiceAssumption
  <2> QED BY <1>2, <1>3, <1>6, <2>1 DEF AtEase, ServiceFrames
<1> HIDE DEF g
<1>9. Does(c, "idle") /\ UNCHANGED <<serviceRev, services, allocated, stray, lost>> /\ old = services[n]
  BY DEF Update, old
<1> QED BY <1>5, <1>6, <1>7, <1>8, <1>9, BeginsWell

LEMMA DeleteKeeps ==
    ASSUME ServiceAssumption, ServiceInv, NEW c \in Requesters, DeleteService(c)
    PROVE  ServiceInv'
<1>1. PICK n \in ServiceNames :
           Continues(c, [AtEase EXCEPT !.pc = "delete", !.name = n, !.seen = services[n]])
  BY DEF DeleteService
<1> DEFINE g == [AtEase EXCEPT !.pc = "delete", !.name = n, !.seen = services[n]]
<1>2. /\ g.pc = "delete" /\ g.name = n /\ g.seen = services[n] /\ g.took = <<>> /\ g.todo = <<>>
  BY DEF AtEase
<1>3. 1 \in 1 .. MaxPorts + 1 /\ <<>> \in Seq(Values) /\ <<>> \in Seq(Ranges) /\ NoService \in Services /\ services[n] \in Services
  BY EmptySeq, AbsentIsService DEF ServiceAssumption, ServiceInv, ServiceTypeOK
<1>4. g \in ServiceFrames
  BY <1>3 DEF AtEase, ServiceFrames, Types
<1>5. Continues(c, g)
  BY <1>1
<1> HIDE DEF g
<1>6. ToSet(<<>>) = {} /\ Once(<<>>, stray)
  BY DEF ToSet, Once
<1>7. Does(c, "idle") /\ UNCHANGED <<serviceRev, services, allocated, stray, lost>>
  BY DEF DeleteService
<1>8. HeldBy(g) = HeldBy(request[c])
  BY <1>2, <1>6, <1>7, IdleHolds DEF HeldBy
<1>9. GoodService(services[n], serviceRev, stray)
  BY DEF ServiceInv
<1>10. IsGood(g)
  BY <1>2, <1>6, <1>9 DEF IsGood, GoodFrame, GoodService, Working
<1> QED BY <1>4, <1>5, <1>7, <1>8, <1>10, SameHolding

----
(* Addresses and ports are claimed or allocated.                           *)

LEMMA SeenAllocations ==
    ASSUME ServiceAssumption, NEW f \in ServiceFrames, NEW X
    PROVE  /\ Allocations(f.seen) \in Seq(Values) /\ ToSet(Allocations(f.seen)) = Uses(f.seen)
           /\ EachOnce(f.seen.ports, X) => Once(Allocations(f.seen), X)
<1> DEFINE s == f.seen
<1>1. s.ip \in Addresses /\ s.ports \in PortLists
  BY DEF ServiceFrames, Services
<1> HIDE DEF s
<1>2. /\ Allocations(s) \in Seq(Values) /\ ToSet(Allocations(s)) = Uses(s)
      /\ EachOnce(s.ports, X) => Once(Allocations(s), X)
  BY <1>1, AllocationsAre
<1> QED BY <1>2 DEF s

LEMMA FramePorts ==
    ASSUME ServiceAssumption, NEW f \in ServiceFrames
    PROVE  /\ DOMAIN f.spec.ports = 1 .. Len(f.spec.ports) /\ Len(f.spec.ports) \in 0 .. MaxPorts
           /\ f.spec.ports \in [1 .. Len(f.spec.ports) -> NodePorts \cup {NotSet}]
<1> DEFINE ports == f.spec.ports
<1>1. ports \in PortLists
  BY DEF ServiceFrames, Services
<1> HIDE DEF ports
<1>2. DOMAIN ports = 1 .. Len(ports) /\ Len(ports) \in 0 .. MaxPorts
  BY <1>1, PortsAre
<1>3. ports \in [1 .. Len(ports) -> NodePorts \cup {NotSet}]
  <2>1. PICK n \in 0 .. MaxPorts : ports \in [1 .. n -> NodePorts \cup {NotSet}]
    BY <1>1 DEF PortLists
  <2>2. DOMAIN ports = 1 .. n
    BY <2>1
  <2> QED BY <1>2, <2>1, <2>2
<1> QED BY <1>2, <1>3 DEF ports

\* The address is settled: it is the old one, or the first value taken, or nobody's.
LEMMA AddressSettled ==
    ASSUME NEW stored, NEW r, NEW X, NEW f \in ServiceFrames, GoodFrame(f, stored, r, X), f.pc = "clusterIP",
           NEW g, g.pc = "nodePorts", g.name = f.name, g.type = f.type, g.seen = f.seen,
           g.next = f.next, g.todo = f.todo, g.spec.ports = f.spec.ports, Once(g.took, X),
           ServiceAssumption,
           RequiresClusterIP(g.type) => g.spec.ip \in Uses(g.seen) \cup ToSet(g.took),
           \A v \in ToSet(g.took) : v = g.spec.ip
    PROVE  GoodFrame(g, stored, r, X)
<1>1. f.next = 1 /\ \A i \in DOMAIN f.spec.ports : ~(i < 1)
  BY FramePorts DEF GoodFrame, GoodWork, Working
<1>2. GoodWork(g)
  BY <1>1 DEF GoodWork
<1> QED BY <1>2 DEF GoodFrame, Working, IsCurrent

LEMMA AddressKeeps ==
    ASSUME ServiceAssumption, ServiceInv, NEW c \in Requesters, AllocateClusterIP(c)
    PROVE  ServiceInv'
<1> DEFINE f == request[c]
           ip == f.spec.ip
           kept == [f EXCEPT !.pc = "nodePorts"]
<1>1. f \in ServiceFrames /\ IsGood(f) /\ f.pc = "clusterIP"
  BY DEF ServiceInv, ServiceTypeOK, AllocateClusterIP, Does
<1>2. /\ f.took = <<>> /\ f.todo = <<>> /\ f.took \in Seq(Ranges) /\ ip \in Addresses
  BY <1>1 DEF IsGood, GoodFrame, GoodWork, Working, ServiceFrames, Services
<1>3. ToSet(<<>>) = {} /\ Once(<<>>, stray)
  BY DEF ToSet, Once
<1>4. UNCHANGED <<serviceRev, services, stray, lost>>
  BY DEF AllocateClusterIP
<1>5. /\ kept.pc = "nodePorts" /\ kept.name = f.name /\ kept.type = f.type /\ kept.seen = f.seen
      /\ kept.next = f.next /\ kept.todo = f.todo /\ kept.spec = f.spec /\ kept.took = f.took
      /\ kept \in ServiceFrames
  BY <1>1 DEF ServiceFrames
<1>6. ASSUME Undo(c), UNCHANGED allocated PROVE ServiceInv'
  BY <1>1, <1>4, <1>6, UndoKeeps DEF Working
<1>7. ASSUME Continues(c, kept), UNCHANGED allocated, RequiresClusterIP(f.type) => ip \in Uses(f.seen)
      PROVE  ServiceInv'
  <2>1. IsGood(kept)
    <3> HIDE DEF kept, f
    <3> QED BY <1>1, <1>2, <1>3, <1>5, <1>7, AddressSettled DEF ip, IsGood
  <2>2. HeldBy(kept) = HeldBy(f)
    BY <1>5 DEF HeldBy
  <2> QED BY <1>4, <1>5, <1>7, <2>1, <2>2, SameHolding
<1>8. ASSUME NEW v \in IPs \ allocated, NEW taken, taken.took = f.took, taken.todo = f.todo,
             Taking(c, v, taken), taken \in ServiceFrames,
             /\ taken.pc = "nodePorts" /\ taken.name = f.name /\ taken.type = f.type
             /\ taken.seen = f.seen /\ taken.next = f.next /\ taken.spec.ports = f.spec.ports
             /\ taken.spec.ip = v
      PROVE  ServiceInv'
  <2> DEFINE g == [taken EXCEPT !.took = Append(@, v)]
  <2>1. v \in Ranges \ allocated
    BY DEF Ranges
  <2>2. Append(f.took, v) \in Seq(Ranges)
    BY <1>2, <2>1
  <2>3. /\ g.pc = taken.pc /\ g.name = taken.name /\ g.type = taken.type /\ g.seen = taken.seen
        /\ g.next = taken.next /\ g.todo = taken.todo /\ g.spec = taken.spec
        /\ g.took = Append(taken.took, v) /\ g \in ServiceFrames
    BY <1>8, <2>2 DEF ServiceFrames
  <2>4. ToSet(g.took) = {v} /\ Once(g.took, stray)
    <3> DEFINE none == f.took
    <3>1. g.took = Append(none, v) /\ none \in Seq(Ranges) /\ ToSet(none) = {} /\ Once(none, stray)
      BY <1>2, <1>3, <1>8, <2>3
    <3> HIDE DEF g, none
    <3>2. ToSet(Append(none, v)) = ToSet(none) \cup {v} /\ Once(Append(none, v), stray)
      BY <2>1, <3>1, OneMore
    <3> QED BY <3>1, <3>2
  <2>5. IsGood(g)
    <3> HIDE DEF g, f
    <3> QED BY <1>1, <1>8, <2>3, <2>4, AddressSettled DEF IsGood
  <2> HIDE DEF g
  <2>6. g = [taken EXCEPT !.took = Append(@, v)]
    BY DEF g
  <2> QED BY <1>4, <1>8, <2>1, <2>3, <2>5, <2>6, TakingKeeps
<1>9. CASE ~RequiresClusterIP(f.type)
  <2>1. Continues(c, kept) /\ UNCHANGED allocated
    BY <1>9 DEF AllocateClusterIP
  <2> QED BY <1>7, <1>9, <2>1
<1>10. CASE RequiresClusterIP(f.type) /\ ip = Elsewhere
  <2>1. Undo(c) /\ UNCHANGED allocated
    BY <1>10 DEF AllocateClusterIP
  <2> QED BY <1>6, <2>1
<1>11. CASE RequiresClusterIP(f.type) /\ ip # Elsewhere /\ ip # NotSet
  <2>1. Claim(c, ip, kept)
    BY <1>11 DEF AllocateClusterIP
  <2>2. CASE ip \in ToSet(Allocations(f.seen))
    <3>1. Continues(c, kept) /\ UNCHANGED allocated
      BY <2>1, <2>2 DEF Claim
    <3>2. ip \in Uses(f.seen)
      <4> HIDE DEF f
      <4> QED BY <1>1, <2>2, SeenAllocations
    <3> QED BY <1>7, <3>1, <3>2
  <2>3. CASE ip \notin ToSet(Allocations(f.seen)) /\ Free(ip)
    <3>1. Taking(c, ip, kept)
      BY <2>1, <2>3 DEF Claim
    <3>2. ip \in IPs \ allocated
      BY <1>2, <1>11, <2>3 DEF Free, Addresses
    <3> HIDE DEF kept, f
    <3> QED BY <1>5, <1>8, <3>1, <3>2 DEF ip
  <2>4. CASE ip \notin ToSet(Allocations(f.seen)) /\ ~Free(ip)
    BY <1>6, <2>1, <2>4 DEF Claim
  <2> QED BY <2>2, <2>3, <2>4
<1>12. CASE RequiresClusterIP(f.type) /\ ip = NotSet
  <2>1. NotSet # Elsewhere
    BY DEF NotSet, Elsewhere
  <2>2. CASE IPs \subseteq allocated
    <3>1. Undo(c) /\ UNCHANGED allocated
      BY <1>12, <2>1, <2>2 DEF AllocateClusterIP
    <3> QED BY <1>6, <3>1
  <2>3. CASE ~(IPs \subseteq allocated)
    <3>1. PICK v \in IPs \ allocated : Taking(c, v, [kept EXCEPT !.spec.ip = v])
      BY <1>12, <2>1, <2>3 DEF AllocateClusterIP
    <3> DEFINE taken == [kept EXCEPT !.spec.ip = v]
    <3>2. /\ taken.pc = kept.pc /\ taken.name = kept.name /\ taken.type = kept.type
          /\ taken.seen = kept.seen /\ taken.next = kept.next /\ taken.took = kept.took
          /\ taken.todo = kept.todo /\ taken.spec.ports = kept.spec.ports /\ taken.spec.ip = v
          /\ taken \in ServiceFrames
      BY <1>5 DEF ServiceFrames, Services, Addresses
    <3>3. Taking(c, v, taken)
      BY <3>1
    <3> HIDE DEF taken, kept, f
    <3> QED BY <1>5, <1>8, <3>2, <3>3
  <2> QED BY <2>2, <2>3
<1> QED BY <1>9, <1>10, <1>11, <1>12

\* The port whose turn it is is settled, as the old one or one more value taken.
LEMMA PortSettled ==
    ASSUME ServiceAssumption, NEW stored, NEW r, NEW X, NEW f \in ServiceFrames, GoodFrame(f, stored, r, X),
           f.pc = "nodePorts", NEW i \in 1 .. Len(f.spec.ports), i = f.next,
           NEW g, g.pc = "nodePorts", g.name = f.name, g.type = f.type, g.seen = f.seen,
           g.next = i + 1, g.todo = f.todo, Once(g.took, X),
           NEW v, v # NotSet, g.spec.ip = f.spec.ip, g.spec.ports = [f.spec.ports EXCEPT ![i] = v],
           v \in Uses(f.seen) \cup ToSet(g.took), ToSet(f.took) \subseteq ToSet(g.took),
           ToSet(g.took) \subseteq ToSet(f.took) \cup {v}
    PROVE  GoodFrame(g, stored, r, X)
<1> DEFINE ports == f.spec.ports
           new == g.spec.ports
<1>1. /\ DOMAIN ports = 1 .. Len(ports) /\ Len(ports) \in Nat /\ i \in DOMAIN ports
  BY FramePorts DEF ServiceAssumption
<1>2. DOMAIN new = DOMAIN ports /\ new[i] = v /\ \A j \in DOMAIN ports : j # i => new[j] = ports[j]
  BY <1>1
<1>3. GoodWork(f)
  BY DEF GoodFrame, Working
<1>4. /\ \A j \in DOMAIN ports : j < i => ports[j] \in Uses(f.seen) \cup ToSet(f.took)
      /\ \A x \in ToSet(f.took) : x = f.spec.ip \/ \E j \in DOMAIN ports : j < i /\ ports[j] = x
      /\ RequiresClusterIP(f.type) => f.spec.ip \in Uses(f.seen) \cup ToSet(f.took)
  BY <1>3 DEF GoodWork
<1> HIDE DEF ports, new
<1>5. \A j \in DOMAIN new : j < i + 1 => j = i \/ (j # i /\ j \in DOMAIN ports /\ j < i)
  BY <1>1, <1>2
<1>6. \A j \in DOMAIN new : j < i + 1 => new[j] \in Uses(g.seen) \cup ToSet(g.took)
  BY <1>2, <1>4, <1>5
<1>7. \A x \in ToSet(g.took) : x = g.spec.ip \/ \E j \in DOMAIN new : j < i + 1 /\ new[j] = x
  <2>1. ASSUME NEW x \in ToSet(f.took)
        PROVE  x = f.spec.ip \/ \E j \in DOMAIN new : j < i + 1 /\ new[j] = x
    <3>1. CASE x = f.spec.ip
      BY <3>1
    <3>2. CASE \E j \in DOMAIN ports : j < i /\ ports[j] = x
      <4>1. PICK j \in DOMAIN ports : j < i /\ ports[j] = x
        BY <3>2
      <4>2. j \in DOMAIN new /\ j < i + 1 /\ new[j] = x
        BY <1>1, <1>2, <4>1
      <4> QED BY <4>2
    <3> QED BY <1>4, <3>1, <3>2
  <2>2. i \in DOMAIN new /\ i < i + 1 /\ new[i] = v
    BY <1>1, <1>2
  <2> QED BY <2>1, <2>2
<1>8. GoodWork(g)
  BY <1>4, <1>6, <1>7 DEF GoodWork, new
<1> QED BY <1>8 DEF GoodFrame, Working, IsCurrent

LEMMA PortKeeps ==
    ASSUME ServiceAssumption, ServiceInv, NEW c \in Requesters, request[c].pc = "nodePorts",
           request[c].next <= Len(request[c].spec.ports), AllocateNodePort(c, request[c].next),
           UNCHANGED <<serviceRev, services, stray, lost>>
    PROVE  ServiceInv'
<1> DEFINE f == request[c]
           i == f.next
           ports == f.spec.ports
           port == ports[i]
           kept == [f EXCEPT !.next = i + 1]
<1>1. f \in ServiceFrames /\ IsGood(f) /\ f.pc = "nodePorts"
  BY DEF ServiceInv, ServiceTypeOK
<1>2. /\ f.todo = <<>> /\ f.took \in Seq(Ranges) /\ Once(f.took, stray)
  BY <1>1 DEF IsGood, GoodFrame, Working, ServiceFrames
<1>3. /\ DOMAIN ports = 1 .. Len(ports) /\ Len(ports) \in 0 .. MaxPorts /\ MaxPorts \in Nat
      /\ i \in 1 .. Len(ports) /\ ports \in [1 .. Len(ports) -> NodePorts \cup {NotSet}]
      /\ f.spec.ip \in Addresses
  <2>1. i \in 1 .. MaxPorts + 1 /\ f.spec.ip \in Addresses
    BY <1>1 DEF ServiceFrames, Services
  <2>2. i <= Len(ports)
    OBVIOUS
  <2> HIDE DEF f, i
  <2> QED BY <1>1, <2>1, <2>2, FramePorts DEF ServiceAssumption
<1>4. /\ kept.pc = "nodePorts" /\ kept.name = f.name /\ kept.type = f.type /\ kept.seen = f.seen
      /\ kept.next = i + 1 /\ kept.todo = f.todo /\ kept.spec = f.spec /\ kept.took = f.took
      /\ kept \in ServiceFrames
  <2>1. i + 1 \in 1 .. MaxPorts + 1
    BY <1>3
  <2> HIDE DEF i
  <2> QED BY <1>1, <2>1 DEF ServiceFrames
<1>5. ASSUME Undo(c), UNCHANGED allocated PROVE ServiceInv'
  BY <1>1, <1>5, UndoKeeps DEF Working
<1>6. ASSUME port \in Uses(f.seen), port # NotSet, Continues(c, kept), UNCHANGED allocated
      PROVE  ServiceInv'
  <2>1. ports = [ports EXCEPT ![i] = port]
    BY <1>3
  <2>2. IsGood(kept)
    <3> HIDE DEF f, i, kept, port
    <3>1. f.spec.ports[i] = port
      BY DEF port
    <3>2. kept.spec.ports = [f.spec.ports EXCEPT ![i] = port] /\ kept.spec.ip = f.spec.ip
      BY <1>4, <2>1
    <3>3. i \in 1 .. Len(f.spec.ports) /\ i = f.next
      BY <1>3 DEF i
    <3> QED BY <1>1, <1>2, <1>4, <1>6, <3>1, <3>2, <3>3, PortSettled DEF IsGood
  <2>3. HeldBy(kept) = HeldBy(f)
    BY <1>4 DEF HeldBy
  <2> QED BY <1>4, <1>6, <2>2, <2>3, SameHolding
<1>7. ASSUME NEW v \in NodePorts \ allocated, port \in {NotSet, v}, NEW taken,
             Taking(c, v, taken), taken \in ServiceFrames,
             /\ taken.pc = "nodePorts" /\ taken.name = f.name /\ taken.type = f.type
             /\ taken.seen = f.seen /\ taken.next = i + 1 /\ taken.took = f.took
             /\ taken.todo = f.todo /\ taken.spec.ip = f.spec.ip
             /\ taken.spec.ports = [ports EXCEPT ![i] = v]
      PROVE  ServiceInv'
  <2> DEFINE g == [taken EXCEPT !.took = Append(@, v)]
  <2>1. v \in Ranges \ allocated /\ v # NotSet
    BY DEF Ranges, ServiceAssumption
  <2>2. Append(f.took, v) \in Seq(Ranges)
    BY <1>2, <2>1
  <2>3. /\ g.pc = taken.pc /\ g.name = taken.name /\ g.type = taken.type /\ g.seen = taken.seen
        /\ g.next = taken.next /\ g.todo = taken.todo /\ g.spec = taken.spec
        /\ g.took = Append(taken.took, v) /\ g \in ServiceFrames
    BY <1>7, <2>2 DEF ServiceFrames
  <2>4. ToSet(f.took) \subseteq allocated \cup stray
    BY HeldIsTaken DEF HeldBy
  <2>5. ToSet(g.took) = ToSet(f.took) \cup {v} /\ Once(g.took, stray)
    <3> DEFINE took == f.took
    <3>1. /\ g.took = Append(took, v) /\ took \in Seq(Ranges) /\ Once(took, stray)
          /\ v \notin ToSet(took) \/ v \in stray
      BY <1>2, <1>7, <2>1, <2>3, <2>4
    <3> HIDE DEF g, took
    <3>2. ToSet(Append(took, v)) = ToSet(took) \cup {v} /\ Once(Append(took, v), stray)
      BY <2>1, <3>1, OneMore
    <3> QED BY <3>1, <3>2 DEF took
  <2>6. IsGood(g)
    <3> HIDE DEF g, f, i, port
    <3>1. g.spec.ports = [f.spec.ports EXCEPT ![i] = v] /\ g.spec.ip = f.spec.ip
      BY <1>7, <2>3
    <3>2. i \in 1 .. Len(f.spec.ports) /\ i = f.next
      BY <1>3 DEF i
    <3>3. /\ g.pc = "nodePorts" /\ g.name = f.name /\ g.type = f.type /\ g.seen = f.seen
          /\ g.next = i + 1 /\ g.todo = f.todo
      BY <1>7, <2>3
    <3> QED BY <1>1, <2>1, <2>5, <3>1, <3>2, <3>3, PortSettled DEF IsGood
  <2> HIDE DEF g
  <2>7. g = [taken EXCEPT !.took = Append(@, v)]
    BY DEF g
  <2> QED BY <1>7, <2>1, <2>3, <2>6, <2>7, TakingKeeps
<1>8. CASE port # NotSet
  <2>1. Claim(c, port, kept)
    BY <1>8 DEF AllocateNodePort
  <2>2. CASE port \in ToSet(Allocations(f.seen))
    <3>1. Continues(c, kept) /\ UNCHANGED allocated
      BY <2>1, <2>2 DEF Claim
    <3>2. port \in Uses(f.seen)
      <4> HIDE DEF f, port
      <4> QED BY <1>1, <2>2, SeenAllocations
    <3> QED BY <1>6, <1>8, <3>1, <3>2
  <2>3. CASE port \notin ToSet(Allocations(f.seen)) /\ Free(port)
    <3>1. Taking(c, port, kept)
      BY <2>1, <2>3 DEF Claim
    <3>2. port \in NodePorts \ allocated
      BY <1>3, <1>8, <2>3 DEF Free
    <3>3. ports = [ports EXCEPT ![i] = port]
      BY <1>3
    <3> HIDE DEF kept, f, i, port
    <3> QED BY <1>4, <1>7, <3>1, <3>2, <3>3
  <2>4. CASE port \notin ToSet(Allocations(f.seen)) /\ ~Free(port)
    BY <1>5, <2>1, <2>4 DEF Claim
  <2> QED BY <2>2, <2>3, <2>4
<1>9. CASE port = NotSet
  <2>1. CASE NodePorts \subseteq allocated
    <3>1. Undo(c) /\ UNCHANGED allocated
      BY <1>9, <2>1 DEF AllocateNodePort
    <3> QED BY <1>5, <3>1
  <2>2. CASE ~(NodePorts \subseteq allocated)
    <3>1. PICK v \in NodePorts \ allocated : Taking(c, v, [kept EXCEPT !.spec.ports[i] = v])
      BY <1>9, <2>2 DEF AllocateNodePort
    <3> DEFINE taken == [kept EXCEPT !.spec.ports[i] = v]
    <3>2. /\ taken.pc = kept.pc /\ taken.name = kept.name /\ taken.type = kept.type
          /\ taken.seen = kept.seen /\ taken.next = kept.next /\ taken.took = kept.took
          /\ taken.todo = kept.todo /\ taken.spec.ports = [kept.spec.ports EXCEPT ![i] = v]
          /\ taken.spec.ip = kept.spec.ip
      BY <1>4 DEF ServiceFrames, Services
    <3>3. [ports EXCEPT ![i] = v] \in PortLists
      <4>1. [ports EXCEPT ![i] = v] \in [1 .. Len(ports) -> NodePorts \cup {NotSet}]
        BY <1>3
      <4> QED BY <1>3, <4>1 DEF PortLists
    <3>4. taken \in ServiceFrames
      <4>1. kept.spec.ports = ports
        BY <1>4
      <4> HIDE DEF kept, i, ports
      <4> QED BY <1>4, <3>3, <4>1 DEF ServiceFrames, Services
    <3>5. Taking(c, v, taken)
      BY <3>1
    <3> HIDE DEF taken, kept, i, f, port
    <3> QED BY <1>4, <1>7, <1>9, <3>2, <3>4, <3>5
  <2> QED BY <2>1, <2>2
<1> QED BY <1>8, <1>9

LEMMA PortsKeep ==
    ASSUME ServiceAssumption, ServiceInv, NEW c \in Requesters, AllocateNodePorts(c)
    PROVE  ServiceInv'
<1> DEFINE f == request[c]
           g == [f EXCEPT !.pc = "commit"]
<1>1. f \in ServiceFrames /\ IsGood(f) /\ f.pc = "nodePorts" /\ UNCHANGED <<serviceRev, services, stray, lost>>
  BY DEF ServiceInv, ServiceTypeOK, AllocateNodePorts, Does
<1>2. ASSUME Continues(c, g), UNCHANGED allocated,
             \A i \in DOMAIN f.spec.ports : i < f.next \/ f.spec.ports[i] = NotSet
      PROVE  ServiceInv'
  <2>1. /\ g.pc = "commit" /\ g.name = f.name /\ g.type = f.type /\ g.seen = f.seen
        /\ g.next = f.next /\ g.todo = f.todo /\ g.spec = f.spec /\ g.took = f.took
        /\ g \in ServiceFrames
    BY <1>1 DEF ServiceFrames
  <2> HIDE DEF g, f
  <2>2. GoodWork(g)
    BY <1>1, <1>2, <2>1 DEF IsGood, GoodFrame, Working, GoodWork
  <2>3. IsGood(g)
    BY <1>1, <2>1, <2>2 DEF IsGood, GoodFrame, Working, IsCurrent
  <2>4. HeldBy(g) = HeldBy(f)
    BY <2>1 DEF HeldBy
  <2> QED BY <1>1, <1>2, <2>1, <2>3, <2>4, SameHolding DEF f
<1>3. CASE ~RequiresNodePorts(f.type) /\ \E i \in DOMAIN f.spec.ports : f.spec.ports[i] # NotSet
  <2>1. Undo(c) /\ UNCHANGED allocated
    BY <1>3 DEF AllocateNodePorts
  <2> QED BY <1>1, <2>1, UndoKeeps DEF Working
<1>4. CASE ~RequiresNodePorts(f.type) /\ ~\E i \in DOMAIN f.spec.ports : f.spec.ports[i] # NotSet
  <2>1. Continues(c, g) /\ UNCHANGED allocated
    BY <1>4 DEF AllocateNodePorts
  <2> QED BY <1>2, <1>4, <2>1
<1>5. CASE RequiresNodePorts(f.type) /\ f.next > Len(f.spec.ports)
  <2>1. Continues(c, g) /\ UNCHANGED allocated
    BY <1>5 DEF AllocateNodePorts
  <2>2. \A i \in DOMAIN f.spec.ports : i < f.next
    <3>1. f.next \in 1 .. MaxPorts + 1
      BY <1>1 DEF ServiceFrames
    <3> HIDE DEF f
    <3> QED BY <1>1, <1>5, <3>1, FramePorts DEF ServiceAssumption
  <2> QED BY <1>2, <2>1, <2>2
<1>6. CASE RequiresNodePorts(f.type) /\ ~(f.next > Len(f.spec.ports))
  <2>1. AllocateNodePort(c, f.next)
    BY <1>6 DEF AllocateNodePorts
  <2>2. f.next <= Len(f.spec.ports)
    <3>1. f.next \in 1 .. MaxPorts + 1
      BY <1>1 DEF ServiceFrames
    <3> HIDE DEF f
    <3> QED BY <1>1, <1>6, <3>1, FramePorts DEF ServiceAssumption
  <2> QED BY <1>1, <2>1, <2>2, PortKeeps
<1> QED BY <1>3, <1>4, <1>5, <1>6

----
(* Commits.                                                                *)

LEMMA CommitKeeps ==
    ASSUME ServiceAssumption, ServiceInv, NEW c \in Requesters, Commit(c)
    PROVE  ServiceInv'
<1> DEFINE f == request[c]
           n == f.name
<1>1. /\ f \in ServiceFrames /\ IsGood(f) /\ f.pc = "commit" /\ UNCHANGED <<allocated, lost>>
      /\ serviceRev \in Nat /\ services \in [ServiceNames -> Services]
  BY DEF ServiceInv, ServiceTypeOK, Commit, Does
<1>2. CASE ~Current(c)
  <2> DEFINE took == f.took
  <2>1. Releasing(c, took) /\ UNCHANGED <<serviceRev, services, allocated, stray, lost>>
    BY <1>1, <1>2 DEF Commit, Reverted
  <2>2. took \in Seq(Values) /\ Once(took, stray) /\ ToSet(took) = ToSet(request[c].took)
    BY TookIs
  <2> HIDE DEF took
  <2> QED BY <1>1, <2>1, <2>2, GivingBackKeeps DEF Working
<1>3. CASE Current(c)
  <2> DEFINE s == [f.spec EXCEPT !.mod = serviceRev + 1]
             todo == Difference(Allocations(f.seen), Allocations(f.spec))
             g == ReleaseFrame(todo)
             X == Astray(f.type, f.spec)
  <2>1. /\ serviceRev' = serviceRev + 1 /\ services' = [services EXCEPT ![n] = s] /\ Continues(c, g)
        /\ stray' = stray \cup X
    BY <1>3 DEF Commit, Finished, Releasing, ReleaseFrame, Continues
  <2>2. n \in ServiceNames /\ f.seen = services[n] /\ GoodWork(f) /\ f.todo = <<>>
    BY <1>1, <1>3 DEF IsGood, GoodFrame, Working, Current, IsCurrent
  <2>3. EachOnce(f.seen.ports, stray)
    BY <2>2 DEF ServiceInv, GoodService
  <2>4. /\ s \in Services /\ s.mod = serviceRev + 1 /\ s.ip = f.spec.ip /\ s.ports = f.spec.ports
    <3>1. f.spec \in Services
      BY <1>1 DEF ServiceFrames
    <3> HIDE DEF f
    <3> QED BY <1>1, <3>1 DEF Services
  <2> HIDE DEF f, n, s, todo, g
  <2>5. X \in SUBSET Values
    BY DEF Astray
  <2>6. \A i \in DOMAIN f.spec.ports : i < f.next \/ f.spec.ports[i] = NotSet
    BY <1>1, <2>2 DEF GoodWork
  <2>7. f.spec.ip \in Addresses /\ \A i \in DOMAIN f.spec.ports : f.spec.ports[i] \in NodePorts \cup {NotSet}
    <3>1. f.spec.ip \in Addresses
      BY <1>1 DEF ServiceFrames, Services
    <3>2. f.spec.ports \in [1 .. Len(f.spec.ports) -> NodePorts \cup {NotSet}]
      BY <1>1, FramePorts
    <3> DEFINE ports == f.spec.ports
    <3>3. ports \in [1 .. Len(ports) -> NodePorts \cup {NotSet}]
      BY <3>2
    <3> HIDE DEF ports
    <3>4. \A i \in DOMAIN ports : ports[i] \in NodePorts \cup {NotSet}
      BY <3>3
    <3> QED BY <3>1, <3>4 DEF ports
  <2>8. EachOnce(s.ports, stray \cup X)
    <3>1. \A i, j \in DOMAIN f.spec.ports :
              i # j /\ f.spec.ports[i] = f.spec.ports[j] => f.spec.ports[i] \in X \cup {NotSet}
      BY <2>7 DEF Astray, Values, Ranges
    <3> QED BY <2>4, <3>1 DEF EachOnce
  <2>9. Uses(s) = Uses(f.spec)
    BY <2>4 DEF Uses
  <2>10. /\ ToSet(f.took) \subseteq Uses(f.spec)
         /\ Uses(f.spec) \subseteq Uses(f.seen) \cup ToSet(f.took) \cup X
    <3>1. \A x \in ToSet(f.took) : x # NotSet
      BY <1>1 DEF ServiceFrames, ToSet, ServiceAssumption
    <3>2. ToSet(f.took) \subseteq Uses(f.spec)
      BY <2>2, <3>1 DEF GoodWork, Uses
    <3>3. f.spec.ip = NotSet \/ f.spec.ip \in Uses(f.seen) \cup ToSet(f.took) \cup X
      <4>1. CASE RequiresClusterIP(f.type)
        BY <1>1, <2>2, <4>1 DEF GoodWork
      <4>2. CASE ~RequiresClusterIP(f.type)
        BY <2>7, <4>2 DEF Astray, Values, Ranges, Addresses
      <4> QED BY <4>1, <4>2
    <3>4. \A i \in DOMAIN f.spec.ports :
              f.spec.ports[i] = NotSet \/ f.spec.ports[i] \in Uses(f.seen) \cup ToSet(f.took)
      BY <2>2, <2>6 DEF GoodWork
    <3> HIDE DEF X
    <3> QED BY <3>2, <3>3, <3>4 DEF Uses
  <2> HIDE DEF X
  <2>11. Allocations(f.spec) \in Seq(Values) /\ ToSet(Allocations(f.spec)) = Uses(f.spec)
    <3> DEFINE spec == f.spec
    <3>1. spec.ip \in Addresses /\ spec.ports \in PortLists
      BY <1>1 DEF ServiceFrames, Services
    <3> HIDE DEF spec
    <3>2. Allocations(spec) \in Seq(Values) /\ ToSet(Allocations(spec)) = Uses(spec)
      BY <3>1, AllocationsAre
    <3> QED BY <3>2 DEF spec
  <2>12. /\ Allocations(f.seen) \in Seq(Values) /\ ToSet(Allocations(f.seen)) = Uses(f.seen)
         /\ Once(Allocations(f.seen), stray)
    BY <1>1, <2>3, SeenAllocations
  <2>13. todo \in Seq(Values) /\ Once(todo, stray) /\ ToSet(todo) = Uses(f.seen) \ Uses(f.spec)
    BY <2>11, <2>12, DifferenceIs DEF todo
  <2>14. /\ g \in ServiceFrames /\ IsGood(g) /\ HeldBy(g) = ToSet(todo)
         /\ g.pc \in {"idle", "release"}
    BY <2>13, ReleaseIsGood DEF g, IsGood
  <2>15. HeldBy(f) = ToSet(f.took)
    BY <2>2 DEF HeldBy, ToSet
  <2>16. /\ (Uses(s) \cup HeldBy(g)) \ (stray \cup X)
               = (Uses(services[n]) \cup HeldBy(f)) \ (stray \cup X)
         /\ Uses(s) \cap HeldBy(g) \subseteq stray \cup X
    <3>1. Uses(f.seen) = Uses(services[n])
      BY <2>2
    <3> QED BY <2>9, <2>10, <2>13, <2>14, <2>15, <3>1
  <2>17. f = request[c]
    BY DEF f
  <2> QED BY <1>1, <2>1, <2>2, <2>4, <2>5, <2>8, <2>14, <2>16, <2>17, Committed
<1> QED BY <1>2, <1>3

LEMMA CommitDeleteKeeps ==
    ASSUME ServiceAssumption, ServiceInv, NEW c \in Requesters, CommitDelete(c)
    PROVE  ServiceInv'
<1> DEFINE f == request[c]
           n == f.name
<1>1. /\ f \in ServiceFrames /\ IsGood(f) /\ f.pc = "delete" /\ UNCHANGED <<allocated, stray, lost>>
      /\ serviceRev \in Nat /\ services \in [ServiceNames -> Services]
  BY DEF ServiceInv, ServiceTypeOK, CommitDelete, Does
<1>2. n \in ServiceNames /\ f.took = <<>> /\ f.todo = <<>>
  BY <1>1 DEF IsGood, GoodFrame, Working
<1>3. HeldBy(f) = {}
  BY <1>2 DEF HeldBy, ToSet
<1>4. NoService \in Services /\ EachOnce(NoService.ports, stray) /\ Uses(NoService) = {}
  BY AbsentIsService
<1>5. CASE Current(c)
  <2> DEFINE todo == Allocations(f.seen)
             g == ReleaseFrame(todo)
  <2>1. serviceRev' = serviceRev + 1 /\ services' = [services EXCEPT ![n] = NoService] /\ Continues(c, g)
    BY <1>5 DEF CommitDelete, Releasing, ReleaseFrame, Continues
  <2>2. f.seen = services[n]
    BY <1>1, <1>5 DEF IsGood, GoodFrame, Current, IsCurrent
  <2>3. EachOnce(f.seen.ports, stray)
    BY <1>2, <2>2 DEF ServiceInv, GoodService
  <2> HIDE DEF f, n, g, todo
  <2>4. todo \in Seq(Values) /\ Once(todo, stray) /\ ToSet(todo) = Uses(f.seen)
    BY <1>1, <2>3, SeenAllocations DEF todo
  <2>5. /\ g \in ServiceFrames /\ IsGood(g) /\ HeldBy(g) = ToSet(todo)
        /\ g.pc \in {"idle", "release"}
    BY <2>4, ReleaseIsGood DEF g, IsGood
  <2> DEFINE none == {}
  <2>6. /\ (Uses(NoService) \cup HeldBy(g)) \ (stray \cup none)
             = (Uses(services[n]) \cup HeldBy(f)) \ (stray \cup none)
        /\ Uses(NoService) \cap HeldBy(g) \subseteq stray \cup none
    BY <1>3, <1>4, <2>2, <2>4, <2>5
  <2>7. f = request[c]
    BY DEF f
  <2>8. none \in SUBSET Values /\ stray' = stray \cup none /\ EachOnce(NoService.ports, stray \cup none)
    BY <1>1, AbsentIsService
  <2> HIDE DEF none
  <2> QED BY <1>1, <1>2, <1>4, <2>1, <2>5, <2>6, <2>7, <2>8, Committed
<1>6. CASE ~Current(c)
  <2>1. CASE services[n] = NoService
    <3>1. Continues(c, AtEase) /\ UNCHANGED <<serviceRev, services>>
      BY <1>6, <2>1 DEF CommitDelete
    <3>2. AtEase \in ServiceFrames /\ IsGood(AtEase) /\ HeldBy(AtEase) = {}
      BY IdleIsGood DEF IsGood
    <3> QED BY <1>1, <1>3, <3>1, <3>2, SameHolding
  <2>2. CASE services[n] # NoService
    <3> DEFINE g == [f EXCEPT !.seen = services[n]]
    <3>1. Continues(c, g) /\ UNCHANGED <<serviceRev, services>>
      BY <1>6, <2>2 DEF CommitDelete
    <3>2. services[n] \in Services /\ GoodService(services[n], serviceRev, stray)
      BY <1>1, <1>2 DEF ServiceInv
    <3>3. /\ g.pc = f.pc /\ g.name = f.name /\ g.seen = services[n] /\ g.took = f.took
          /\ g.todo = f.todo /\ g \in ServiceFrames
      BY <1>1, <3>2 DEF ServiceFrames
    <3> HIDE DEF g, f
    <3>4. IsGood(g)
      BY <1>1, <1>2, <3>2, <3>3 DEF IsGood, GoodFrame, GoodService, Working, n
    <3>5. HeldBy(g) = HeldBy(f)
      BY <3>3 DEF HeldBy
    <3> QED BY <1>1, <3>1, <3>3, <3>4, <3>5, SameHolding DEF f
  <2> QED BY <2>1, <2>2
<1> QED BY <1>5, <1>6

----
(* The theorem.                                                            *)

LEMMA ServiceStart == ServiceAssumption /\ ServiceInit => ServiceInv
<1> SUFFICES ASSUME ServiceAssumption, ServiceInit PROVE ServiceInv
  OBVIOUS
<1>1. \A c \in Requesters : request[c] = AtEase
  BY DEF ServiceInit
<1>2. \A n \in ServiceNames : services[n] = NoService
  BY DEF ServiceInit
<1>3. AtEase \in ServiceFrames /\ IsGood(AtEase) /\ HeldBy(AtEase) = {}
  BY IdleIsGood DEF IsGood
<1>4. NoService \in Services /\ EachOnce(NoService.ports, stray) /\ Uses(NoService) = {}
  BY AbsentIsService
<1>5. ServiceTypeOK
  BY <1>3, <1>4 DEF ServiceInit, ServiceTypeOK
<1>6. Owners(Use, Hold, Granted, lost)
  <2> DEFINE U == Use
             H == Hold
             A == Granted
  <2>1. (\A n \in ServiceNames : U[n] = {}) /\ (\A c \in Requesters : H[c] = {}) /\ A = {}
    BY <1>1, <1>2, <1>3, <1>4 DEF Use, Hold, Granted, ServiceInit
  <2> HIDE DEF U, H, A
  <2>2. Owners(U, H, A, lost)
    BY <2>1 DEF Owners
  <2> QED BY <2>2 DEF U, H, A
<1>7. \A n \in ServiceNames : GoodService(services[n], serviceRev, stray)
  BY <1>2, <1>4 DEF GoodService
<1> QED BY <1>1, <1>3, <1>5, <1>6, <1>7 DEF ServiceInv

LEMMA ServiceKept == ServiceAssumption /\ ServiceInv /\ [ServiceNext]_serviceVars => ServiceInv'
<1> SUFFICES ASSUME ServiceAssumption, ServiceInv, [ServiceNext]_serviceVars PROVE ServiceInv'
  OBVIOUS
<1>1. CASE UNCHANGED serviceVars
  BY <1>1, Zenon DEF serviceVars, ServiceInv, ServiceTypeOK, Owners, Use, Hold, Granted, IsGood
<1>2. ASSUME NEW c \in Requesters,
             \/ Create(c) \/ Update(c) \/ DeleteService(c)
             \/ AllocateClusterIP(c) \/ AllocateNodePorts(c)
             \/ Commit(c) \/ CommitDelete(c) \/ ReleaseOne(c)
      PROVE  ServiceInv'
  BY <1>2, CreateKeeps, UpdateKeeps, DeleteKeeps, AddressKeeps, PortsKeep, CommitKeeps,
     CommitDeleteKeeps, ReleaseKeeps
<1> QED BY <1>1, <1>2 DEF ServiceNext

LEMMA ServiceInvShows == ServiceAssumption /\ ServiceInv => AllocationsAreSound
<1> SUFFICES ASSUME ServiceAssumption, ServiceInv PROVE AllocationsAreSound
  OBVIOUS
<1>1. ServiceTypeOK
  BY DEF ServiceInv
<1>2. ASSUME NEW n \in ServiceNames PROVE ToSet(Allocations(services[n])) = Uses(services[n])
  <2> DEFINE s == services[n]
  <2>1. s.ip \in Addresses /\ s.ports \in PortLists
    BY <1>1 DEF ServiceTypeOK, Services
  <2> HIDE DEF s
  <2>2. ToSet(Allocations(s)) = Uses(s)
    BY <2>1, AllocationsAre
  <2> QED BY <2>2 DEF s
<1> DEFINE U == Use
           H == Hold
           A == Granted
<1>3. Owners(U, H, A, lost)
  BY DEF ServiceInv
<1>4. /\ \A n \in ServiceNames : U[n] = ToSet(Allocations(services[n])) \ stray
      /\ \A c \in Requesters : H[c] = HeldBy(request[c]) \ stray
      /\ A = allocated \ stray
  BY <1>2 DEF Use, Hold, Granted
<1> HIDE DEF U, H, A
<1>5. NothingShared
  BY <1>3, <1>4 DEF Owners, NothingShared
<1>6. \A v : v \notin stray => (v \in InUse <=> \E n \in ServiceNames : v \in U[n])
  BY <1>4 DEF InUse
<1>7. InUseIsAllocated
  <2>1. \A v \in InUse : v \notin stray => v \in A
    BY <1>3, <1>6 DEF Owners
  <2> QED BY <1>4, <2>1 DEF InUseIsAllocated
<1>8. ASSUME \A c \in Requesters : Does(c, "idle") PROVE allocated \subseteq InUse \cup stray \cup lost
  <2>1. \A c \in Requesters : H[c] = {}
    BY <1>4, <1>8, IdleHolds
  <2>2. \A v \in A : v \notin lost => \E n \in ServiceNames : v \in U[n]
    BY <1>3, <2>1 DEF Owners
  <2> QED BY <1>4, <1>6, <2>2
<1> QED BY <1>1, <1>5, <1>7, <1>8 DEF AllocationsAreSound, NothingLeaked

\* But for values stored unclaimed or twice, none serves two services, what is in use
\* is taken, and nothing is taken for ever save what came after such a value in a list
\* to release, whatever creates, updates and deletes race and fail
\* (ServiceStore.beginCreate, beginUpdate, afterDelete, releaseAllocations).
THEOREM AllocationSoundness == ServiceSpec => []AllocationsAreSound
<1>1. ServiceInit => ServiceInv
  BY ServicesAreGiven, ServiceStart
<1>2. ServiceInv /\ [ServiceNext]_serviceVars => ServiceInv'
  BY ServicesAreGiven, ServiceKept
<1>3. ServiceInv => AllocationsAreSound
  BY ServicesAreGiven, ServiceInvShows
<1> QED BY <1>1, <1>2, <1>3, PTL DEF ServiceSpec
=============================================================================

------------------------------ MODULE RWMutex ------------------------------
(***************************************************************************)
(* RWMutex of go/sync/mutex.ts: readers and writers queue in one line; an  *)
(* unlock hands the lock to the writer in front, or to the run of readers  *)
(* in front, before it returns.  A thread that is handed the lock holds it *)
(* from then on, although its promise continues later.                     *)
(***************************************************************************)
EXTENDS Naturals, Sequences, FiniteSets

CONSTANT Threads    \* the callers, each with at most one lock call at a time

VARIABLES
    activeReaders, writerActive, waitingWriters,
    waiters,    \* the queue of [kind, thread]
    at          \* out, waiting, reading or writing

rwVars == <<activeReaders, writerActive, waitingWriters, waiters, at>>

Kinds == {"read", "write"}

RWInit ==
    /\ activeReaders = 0 /\ writerActive = FALSE /\ waitingWriters = 0
    /\ waiters = <<>>
    /\ at = [t \in Threads |-> "out"]

(* tryLock and tryRLock *)
FreeForWriter == ~writerActive /\ activeReaders = 0
freeForReader == ~writerActive   \* mutant: past the writers in line
FreeForReader == ~writerActive /\ waitingWriters = 0

Lock(t) ==
    /\ at[t] = "out"
    /\ IF FreeForWriter
       THEN /\ writerActive' = TRUE
            /\ at' = [at EXCEPT ![t] = "writing"]
            /\ UNCHANGED <<waiters, waitingWriters>>
       ELSE /\ waitingWriters' = waitingWriters + 1
            /\ waiters' = Append(waiters, [kind |-> "write", thread |-> t])
            /\ at' = [at EXCEPT ![t] = "waiting"]
            /\ UNCHANGED writerActive
    /\ UNCHANGED activeReaders

RLock(t) ==
    /\ at[t] = "out"
    /\ IF FreeForReader
       THEN /\ activeReaders' = activeReaders + 1
            /\ at' = [at EXCEPT ![t] = "reading"]
            /\ UNCHANGED waiters
       ELSE /\ waiters' = Append(waiters, [kind |-> "read", thread |-> t])
            /\ at' = [at EXCEPT ![t] = "waiting"]
            /\ UNCHANGED activeReaders
    /\ UNCHANGED <<writerActive, waitingWriters>>

(* The readers in front of the queue, up to the first writer.               *)
frontReader(q) == IF q # <<>> /\ q[1].kind = "read" THEN 1 ELSE 0   \* mutant: only one
FrontReaders(q) == Cardinality({i \in DOMAIN q : \A j \in 1 .. i : q[j].kind = "read"})

(* dispatch(), for thread t leaving a lock nobody else holds.               *)
Dispatch(t) ==
    LET n       == FrontReaders(waiters)
        readers == {waiters[i].thread : i \in 1 .. n}
        left    == [at EXCEPT ![t] = "out"]
    IN  IF waiters = <<>>
        THEN /\ at' = left
             /\ activeReaders' = 0 /\ writerActive' = FALSE
             /\ UNCHANGED <<waiters, waitingWriters>>
        ELSE IF Head(waiters).kind = "write"
        THEN /\ at' = [left EXCEPT ![Head(waiters).thread] = "writing"]
             /\ activeReaders' = 0 /\ writerActive' = TRUE
             /\ waitingWriters' = waitingWriters - 1
             /\ waiters' = Tail(waiters)
        ELSE /\ at' = [u \in Threads |-> IF u \in readers THEN "reading" ELSE left[u]]
             /\ activeReaders' = n /\ writerActive' = FALSE
             /\ waiters' = SubSeq(waiters, n + 1, Len(waiters))
             /\ UNCHANGED waitingWriters

Unlock(t) == at[t] = "writing" /\ Dispatch(t)

RUnlock(t) ==
    /\ at[t] = "reading"
    /\ IF activeReaders = 1
       THEN Dispatch(t)
       ELSE /\ activeReaders' = activeReaders - 1
            /\ at' = [at EXCEPT ![t] = "out"]
            /\ UNCHANGED <<writerActive, waitingWriters, waiters>>

RWNext == \E t \in Threads : Lock(t) \/ RLock(t) \/ Unlock(t) \/ RUnlock(t)

RWSpec == RWInit /\ [][RWNext]_rwVars

(* Whoever holds the lock gives it back: withLock and withRLock unlock in a *)
(* finally block.                                                           *)
RWFairSpec == RWSpec /\ \A t \in Threads : WF_rwVars(Unlock(t)) /\ WF_rwVars(RUnlock(t))

----------------------------------------------------------------------------
(* Properties *)

In(state)   == {t \in Threads : at[t] = state}
Positions(t) == {i \in DOMAIN waiters : waiters[i].thread = t}

(* The variables have the shapes declared above.                            *)
RWTypeOK ==
    /\ activeReaders \in Nat /\ waitingWriters \in Nat /\ writerActive \in BOOLEAN
    /\ waiters \in Seq([kind : Kinds, thread : Threads])
    /\ at \in [Threads -> {"out", "waiting", "reading", "writing"}]

(* The point of the lock: a writer is alone, and the two counters and the   *)
(* flag say exactly who is inside, whichever way the lock was handed over.  *)
Exclusion ==
    /\ Cardinality(In("writing")) = IF writerActive THEN 1 ELSE 0
    /\ Cardinality(In("reading")) = activeReaders
    /\ writerActive => activeReaders = 0

(* Nobody waits for a lock that is free, and the readers in front do not    *)
(* wait for other readers: a hand-over wakes everybody it may.              *)
NobodyWaitsForNothing ==
    /\ waiters # <<>> => writerActive \/ activeReaders > 0
    /\ waiters # <<>> /\ Head(waiters).kind = "read" => writerActive

(* First come, first served: a thread that gets the lock leaves nobody      *)
(* waiting who was in front of it, queued readers and writers alike, so     *)
(* neither kind is starved by newcomers of the other.                       *)
GetsInInTurn ==
    \A t \in Threads :
        at[t] \in {"out", "waiting"} /\ at'[t] \in {"reading", "writing"} =>
            \A i \in DOMAIN waiters :
                (\A j \in Positions(t) : i < j) => at'[waiters[i].thread] # "waiting"
NoOvertaking == [][GetsInInTurn]_rwVars

(* A thread that waits gets the lock.                                       *)
EveryoneGetsIn == \A t \in Threads : at[t] = "waiting" ~> at[t] \in {"reading", "writing"}

(* What the counters, the flag and the line of waiters promise together.    *)
RWMutexIsSound == RWTypeOK /\ Exclusion /\ NobodyWaitsForNothing
=============================================================================

----------------------------- MODULE EtcdProofs -----------------------------
(***************************************************************************)
(* Theorems about Etcd for every set of keys, watchers, ranges and         *)
(* transactions and every bound.  Every write (put, touch, delete, txn) is *)
(* first shown to be a WriteStep, the one shape the invariants depend on:  *)
(* a fresh revision, its events, and whether they were published.  What a  *)
(* read returns comes last: the binary search of findRevisionAtOrBefore is *)
(* right on every sorted history, and the records a key retains follow the *)
(* log.                                                                    *)
(***************************************************************************)
EXTENDS Etcd, TLAPS, NaturalsInduction, WellFoundedInduction, SequenceTheorems

\* No transaction reads at an explicit revision, so none of its operations
\* throws; the program issues no other transaction.
NoHistoricalReads ==
  \A t \in Txns : \A ops \in {t.success, t.failure} :
    \A i \in DOMAIN ops : ops[i].op = "range" => ops[i].rev = 0

\* Nothing is logged at, and nothing emitted for, a revision yet to come.
NothingAhead ==
  \A r \in Revs : r > revision =>
    log[r] = {} /\ \A w \in Watchers : got[w][r] = 0

\* Until it connects, a watcher has emitted nothing and cannot fail.
QuietUntilConnected ==
  \A w \in Watchers :
    /\ "connect" \in watcher[w].tasks => fired[w] = {}
    /\ fired[w] = {} => /\ ~watcher[w].connected
                        /\ "fail" \notin watcher[w].tasks
                        /\ \A r \in Revs : got[w][r] = 0

\* An ended watcher never connects again.
EndedStaysDown ==
  \A w \in Watchers :
    watcher[w].ended => ~watcher[w].connected /\ "connect" \notin watcher[w].tasks

IInv ==
  /\ TypeOK
  /\ NothingAhead
  /\ QuietUntilConnected
  /\ EndedStaysDown
  /\ HistoryCoversUncompacted

\* A watcher is owed nothing older than the next revision at the latest.
OwedFromNextRevision ==
  \A w \in Watchers :
    /\ watcher[w].start <= revision + 1
    /\ watcher[w].connected => watcher[w].since <= revision + 1

DeliveryInv == IInv /\ OwedFromNextRevision /\ WatchExactlyOnce

WriteStep(E) ==
  /\ revision < MaxRevision
  /\ revision' = revision + 1
  /\ E \subseteq WatchEvent
  /\ log' = [log EXCEPT ![revision + 1] = E]
  /\ histories' \in [Keys -> Seq(StoredRevision)]
  /\ compactedRevision' \in 0..MaxRevision
  /\ compactedRevision' >= compactedRevision
  /\ history' = IF E = {} THEN history ELSE history \cup {revision + 1}
  /\ \/ publish(E, revision + 1)
     \/ UNCHANGED got /\ (NoHistoricalReads => E = {})
  /\ UNCHANGED <<watcher, fired>>

----
(* Arithmetic: least and greatest elements of bounded sets of numbers.     *)

LEMMA LeastElement ==
  ASSUME NEW T \in SUBSET Nat, T # {}
  PROVE  \E x \in T : \A y \in T : x <= y
  <1>1. \E x \in T : \A y \in T : ~(<<y, x>> \in OpToRel(<, Nat))
    BY NatLessThanWellFounded, WFMin
  <1>2. PICK x \in T : \A y \in T : ~(<<y, x>> \in OpToRel(<, Nat))
    BY <1>1
  <1>3. \A y \in T : ~(y < x)
    BY <1>2 DEF OpToRel
  <1> QED BY <1>3

LEMMA GreatestElement ==
  ASSUME NEW N \in Nat, NEW T, T \subseteq 0..N, T # {}
  PROVE  \E x \in T : \A y \in T : x >= y
  <1> DEFINE C == {c \in Nat : \E x \in T : c = N - x}
  <1>1. PICK y \in T : y \in 0..N
    OBVIOUS
  <1>2. N - y \in C
    BY <1>1
  <1>3. C \in SUBSET Nat /\ C # {}
    BY <1>2
  <1>4. PICK c \in C : \A d \in C : c <= d
    BY <1>3, LeastElement
  <1>5. PICK x \in T : c = N - x
    BY <1>4
  <1>6. \A z \in T : z \in 0..N /\ N - z \in C
    OBVIOUS
  <1>7. \A z \in T : N - x <= N - z
    BY <1>4, <1>5, <1>6
  <1> QED BY <1>5, <1>6, <1>7

LEMMA RaiseIsMaximum ==
  ASSUME NEW mark \in 0..MaxRevision, NEW S, S \subseteq 0..MaxRevision
  PROVE  /\ Raise(mark, S) \in 0..MaxRevision
         /\ Raise(mark, S) >= mark
         /\ \A x \in S : Raise(mark, S) >= x
  <1>1. S \cup {mark} \subseteq 0..MaxRevision /\ S \cup {mark} # {}
    OBVIOUS
  <1>2. MaxRevision \in Nat
    BY EtcdAssumptions
  <1>3. \E m \in S \cup {mark} : \A x \in S \cup {mark} : m >= x
    BY <1>1, <1>2, GreatestElement
  <1> QED BY <1>1, <1>3 DEF Raise
----
(* Records and events are well formed.                                     *)

LEMMA LastOfType ==
  ASSUME NEW s \in Seq(StoredRevision), s # <<>>
  PROVE  /\ Len(s) \in Nat \ {0}
         /\ LastOf(s) \in StoredRevision
         /\ s[1] \in StoredRevision
  BY EmptySeq, ElementOfSeq DEF LastOf

LEMMA PutRecordType ==
  ASSUME TypeOK, NEW k \in Keys, NEW v \in Values, NEW rev \in Revs
  PROVE  PutRecord(k, v, rev) \in StoredRevision /\ ~PutRecord(k, v, rev).deleted
  <1>1. histories[k] \in Seq(StoredRevision)
    BY DEF TypeOK
  <1>2. CASE IsCurrent(histories[k])
    <2>1. LastOf(histories[k]) \in StoredRevision
      BY <1>1, <1>2, LastOfType DEF IsCurrent
    <2> QED BY <1>2, <2>1, EtcdAssumptions DEF PutRecord, StoredRevision
  <1>3. CASE ~IsCurrent(histories[k])
    BY <1>3, EtcdAssumptions DEF PutRecord, StoredRevision
  <1> QED BY <1>2, <1>3

LEMMA DeleteRecordType ==
  ASSUME TypeOK, NEW k \in Keys, IsCurrent(histories[k]), NEW rev \in Revs
  PROVE  DeleteRecord(k, rev) \in StoredRevision
  <1>1. LastOf(histories[k]) \in StoredRevision
    BY LastOfType DEF TypeOK, IsCurrent
  <1> QED BY <1>1 DEF DeleteRecord, StoredRevision

LEMMA EventOfType ==
  ASSUME TypeOK, NEW k \in Keys, NEW rec \in StoredRevision,
         rec.deleted => IsCurrent(histories[k])
  PROVE  EventOf(k, rec) \in WatchEvent
  <1>1. IsCurrent(histories[k]) =>
          LastOf(histories[k]) \in StoredRevision /\ ~LastOf(histories[k]).deleted
    BY LastOfType DEF TypeOK, IsCurrent
  <1>2. IsCurrent(histories[k]) =>
          LastOf(histories[k]).value \in Values /\ LastOf(histories[k]).mod \in Revs
    BY <1>1 DEF StoredRevision
  <1>3. /\ rec.create \in Revs /\ rec.version \in Nat
        /\ rec.deleted \in BOOLEAN
        /\ ~rec.deleted => rec.value \in Values
    BY DEF StoredRevision
  <1> DEFINE e == EventOf(k, rec)
  <1>4. e.prev \in 0..MaxRevision
    BY <1>2, EtcdAssumptions DEF EventOf, Revs
  <1>5. e.value \in Values
    BY <1>2, <1>3 DEF EventOf
  <1>6. e.type \in {"Put", "Delete"}
    BY DEF EventOf
  <1>7. /\ e = [type |-> e.type, key |-> k, value |-> e.value,
                create |-> rec.create, version |-> rec.version, prev |-> e.prev]
    BY DEF EventOf
  <1> QED BY <1>3, <1>4, <1>5, <1>6, <1>7 DEF WatchEvent

LEMMA AppendRevisionType ==
  ASSUME NEW s \in Seq(StoredRevision), NEW rec \in StoredRevision
  PROVE  appendRevision(s, rec) \in Seq(StoredRevision)
  <1>1. Append(s, rec) \in Seq(StoredRevision) /\ Append(s, rec) # <<>>
    BY AppendProperties
  <1>2. Tail(Append(s, rec)) \in Seq(StoredRevision)
    BY <1>1, HeadTailProperties
  <1> QED BY <1>1, <1>2 DEF appendRevision

----
(* Every write is a WriteStep.                                             *)

LEMMA AppendIsWellFormed ==
  ASSUME TypeOK, NEW D, D \subseteq Keys, NEW writes \in [D -> StoredRevision],
         \A k \in D : writes[k].deleted => IsCurrent(histories[k]),
         NEW rev \in Revs, Append_(writes, rev)
  PROVE  /\ histories' \in [Keys -> Seq(StoredRevision)]
         /\ compactedRevision' \in 0..MaxRevision
         /\ compactedRevision' >= compactedRevision
         /\ log'[rev] \subseteq WatchEvent
         /\ log' = [log EXCEPT ![rev] = log'[rev]]
         /\ log'[rev] = {} <=> D = {}
         /\ history' = IF log'[rev] = {} THEN history ELSE history \cup {rev}
  <1>1. DOMAIN writes = D
    OBVIOUS
  <1>2. \A k \in D : writes[k] \in StoredRevision
    OBVIOUS
  <1>3. histories' \in [Keys -> Seq(StoredRevision)]
    <2>1. \A k \in Keys : histories[k] \in Seq(StoredRevision)
      BY DEF TypeOK
    <2>2. \A k \in D : appendRevision(histories[k], writes[k]) \in Seq(StoredRevision)
      BY <1>2, <2>1, AppendRevisionType
    <2> QED BY <1>1, <2>1, <2>2 DEF Append_
  <1>4. RemovedRevisions(D) \subseteq 0..MaxRevision
    <2> SUFFICES ASSUME NEW k \in D, Len(histories[k]) >= RetainedRevisions
                 PROVE  histories[k][1].mod \in 0..MaxRevision
      BY DEF RemovedRevisions
    <2>1. histories[k] \in Seq(StoredRevision)
      BY DEF TypeOK
    <2>2. histories[k] # <<>>
      BY <2>1, EmptySeq, EtcdAssumptions
    <2>3. histories[k][1] \in StoredRevision
      BY <2>1, <2>2, LastOfType
    <2> QED BY <2>3, EtcdAssumptions DEF StoredRevision, Revs
  <1>5. compactedRevision' \in 0..MaxRevision /\ compactedRevision' >= compactedRevision
    BY <1>1, <1>4, RaiseIsMaximum DEF Append_, TypeOK
  <1>6. log'[rev] = {EventOf(k, writes[k]) : k \in D}
    BY <1>1 DEF Append_, TypeOK
  <1>7. log'[rev] \subseteq WatchEvent
    BY <1>2, <1>6, EventOfType
  <1>8. log' = [log EXCEPT ![rev] = log'[rev]]
    BY <1>1, <1>6 DEF Append_
  <1>9. log'[rev] = {} <=> D = {}
    BY <1>6
  <1>10. history' = IF D = {} THEN history ELSE history \cup {rev}
    BY <1>1 DEF Append_
  <1> QED BY <1>3, <1>5, <1>7, <1>8, <1>9, <1>10

LEMMA PutIsWriteStep ==
  ASSUME TypeOK, NEW k \in Keys, NEW v \in Values, Put(k, v)
  PROVE  \E E : WriteStep(E)
  <1> DEFINE rev == revision + 1
             writes == [j \in {k} |-> PutRecord(j, v, rev)]
             D == {k}
  <1>1. rev \in Revs
    BY EtcdAssumptions DEF Put, TypeOK, Revs
  <1>2. PutRecord(k, v, rev) \in StoredRevision /\ ~PutRecord(k, v, rev).deleted
    BY <1>1, PutRecordType
  <1>3. /\ writes \in [D -> StoredRevision]
        /\ \A j \in D : ~writes[j].deleted
    BY <1>2
  <1>4. Append_(writes, rev)
    BY DEF Put
  <1> HIDE DEF writes, D
  <1>5. /\ histories' \in [Keys -> Seq(StoredRevision)]
        /\ compactedRevision' \in 0..MaxRevision
        /\ compactedRevision' >= compactedRevision
        /\ log'[rev] \subseteq WatchEvent
        /\ log' = [log EXCEPT ![rev] = log'[rev]]
        /\ history' = IF log'[rev] = {} THEN history ELSE history \cup {rev}
    <2>1. D \subseteq Keys
      BY DEF D
    <2> QED BY <2>1, <1>1, <1>3, <1>4, AppendIsWellFormed
  <1> QED BY <1>5 DEF Put, WriteStep

LEMMA TouchIsWriteStep ==
  ASSUME TypeOK, NothingAhead, NEW k \in Keys, Touch(k)
  PROVE  \E E : WriteStep(E)
  <1>1. CASE IsCurrent(histories[k])
    <2>1. LastOf(histories[k]) \in StoredRevision /\ ~LastOf(histories[k]).deleted
      BY <1>1, LastOfType DEF TypeOK, IsCurrent
    <2>2. LastOf(histories[k]).value \in Values
      BY <2>1 DEF StoredRevision
    <2> QED BY <1>1, <2>2, PutIsWriteStep DEF Touch
  <1>2. CASE ~IsCurrent(histories[k])
    <2>1. revision + 1 \in Revs /\ revision + 1 > revision
      BY EtcdAssumptions DEF Touch, TypeOK, Revs
    <2>2. log[revision + 1] = {}
      BY <2>1 DEF NothingAhead
    <2>3. log = [log EXCEPT ![revision + 1] = {}]
      BY <2>1, <2>2 DEF TypeOK
    <2>4. compactedRevision' >= compactedRevision
      BY <1>2, EtcdAssumptions DEF Touch, TypeOK
    <2>5. WriteStep({})
      BY <1>2, <2>3, <2>4 DEF Touch, WriteStep, TypeOK
    <2> QED BY <2>5
  <1> QED BY <1>1, <1>2

LEMMA DeleteIsWriteStep ==
  ASSUME TypeOK, NEW ks \in Ranges, Delete(ks)
  PROVE  \E E : WriteStep(E)
  <1> DEFINE rev == revision + 1
             D == {k \in ks : IsCurrent(histories[k])}
             writes == [k \in D |-> DeleteRecord(k, rev)]
  <1>1. rev \in Revs
    BY EtcdAssumptions DEF Delete, TypeOK, Revs
  <1>2. D \subseteq Keys
    BY EtcdAssumptions
  <1>3. \A k \in D : DeleteRecord(k, rev) \in StoredRevision /\ IsCurrent(histories[k])
    BY <1>1, <1>2, DeleteRecordType
  <1>4. writes \in [D -> StoredRevision]
    BY <1>3
  <1>5. Append_(writes, rev) /\ publish(log'[rev], rev)
    BY DEF Delete
  <1>6. revision < MaxRevision /\ revision' = rev /\ UNCHANGED <<watcher, fired>>
    BY DEF Delete
  <1>7. \A k \in D : writes[k].deleted => IsCurrent(histories[k])
    OBVIOUS
  <1> HIDE DEF D, writes
  <1>8. /\ histories' \in [Keys -> Seq(StoredRevision)]
        /\ compactedRevision' \in 0..MaxRevision
        /\ compactedRevision' >= compactedRevision
        /\ log'[rev] \subseteq WatchEvent
        /\ log' = [log EXCEPT ![rev] = log'[rev]]
        /\ history' = IF log'[rev] = {} THEN history ELSE history \cup {rev}
    BY <1>1, <1>2, <1>4, <1>5, <1>7, AppendIsWellFormed
  <1> QED BY <1>5, <1>6, <1>8 DEF WriteStep

\* Some number of operations runs, and all of them when none reads history.
LEMMA RunsUpToIsDefined ==
  ASSUME NEW ops \in Seq(Operation), NEW rev \in Nat
  PROVE  /\ RunsUpTo(ops, rev) \in 0..Len(ops)
         /\ (\A i \in DOMAIN ops : ops[i].op = "range" => ops[i].rev = 0)
              => RunsUpTo(ops, rev) = Len(ops)
  <1> DEFINE Stops(n) == /\ \A i \in 1..n : ~Throws(ops, i, rev)
                         /\ n < Len(ops) => Throws(ops, n + 1, rev)
  <1>1. Len(ops) \in Nat /\ DOMAIN ops = 1..Len(ops)
    BY LenProperties
  <1>2. \E n \in 0..Len(ops) : Stops(n)
    <2> DEFINE T == {i \in 1..Len(ops) : Throws(ops, i, rev)}
    <2>1. CASE T = {}
      BY <1>1, <2>1
    <2>2. CASE T # {}
      <3>1. T \in SUBSET Nat
        BY <1>1
      <3>2. PICK i \in T : \A j \in T : i <= j
        BY <2>2, <3>1, LeastElement
      <3>3. i \in 1..Len(ops) /\ Throws(ops, i, rev)
        BY <3>2
      <3>4. i - 1 \in 0..Len(ops) /\ (i - 1) + 1 = i
        BY <1>1, <3>3
      <3>5. \A j \in 1..(i - 1) : j \in 1..Len(ops) /\ ~(i <= j)
        BY <1>1, <3>3
      <3>6. \A j \in 1..(i - 1) : ~Throws(ops, j, rev)
        BY <3>2, <3>5
      <3>7. Stops(i - 1)
        BY <3>3, <3>4, <3>6
      <3> QED BY <3>4, <3>7
    <2> QED BY <2>1, <2>2
  <1>3. RunsUpTo(ops, rev) \in 0..Len(ops) /\ Stops(RunsUpTo(ops, rev))
    BY <1>2 DEF RunsUpTo
  <1>4. ASSUME \A i \in DOMAIN ops : ops[i].op = "range" => ops[i].rev = 0
        PROVE  RunsUpTo(ops, rev) = Len(ops)
    <2>1. \A i \in 1..Len(ops) : ~Throws(ops, i, rev)
      BY <1>1, <1>4 DEF Throws
    <2>2. ~(RunsUpTo(ops, rev) < Len(ops))
      BY <1>1, <1>3, <2>1
    <2> QED BY <1>1, <1>3, <2>2
  <1> QED BY <1>3, <1>4

\* The records a transaction writes: write ranges are disjoint, so the writer
\* of a deleted key is the delete that found it live.
LEMMA TxnWritesType ==
  ASSUME TypeOK, NEW ops \in Seq(Operation), WriteRangesValid(ops),
         NEW n \in 0..Len(ops), NEW rev \in Revs
  PROVE  /\ WrittenKeys(ops, n) \subseteq Keys
         /\ TxnWrites(ops, n, rev) \in [WrittenKeys(ops, n) -> StoredRevision]
         /\ \A k \in WrittenKeys(ops, n) :
              TxnWrites(ops, n, rev)[k].deleted => IsCurrent(histories[k])
  <1>1. Len(ops) \in Nat /\ DOMAIN ops = 1..Len(ops)
    BY LenProperties
  <1>2. \A i \in DOMAIN ops :
          /\ ops[i].keys \subseteq Keys
          /\ ops[i].op = "put" => ops[i].value \in Values
    BY <1>1, ElementOfSeq DEF Operation
  <1>3. \A k \in WrittenKeys(ops, n) :
          \E i \in 1..n :
            /\ IsWrite(ops[i])
            /\ k \in ops[i].keys
            /\ ops[i].op # "put" => IsCurrent(histories[k])
    BY DEF WrittenKeys
  <1>4. WrittenKeys(ops, n) \subseteq Keys
    <2> SUFFICES ASSUME NEW k \in WrittenKeys(ops, n)
                 PROVE  k \in Keys
      OBVIOUS
    <2>1. PICK i \in 1..n : k \in ops[i].keys
      BY <1>3
    <2>2. i \in DOMAIN ops
      BY <1>1
    <2> QED BY <1>2, <2>1, <2>2
  <1>5. ASSUME NEW k \in WrittenKeys(ops, n)
        PROVE  LET rec == IF ops[WriterOf(ops, k)].op = "put"
                          THEN PutRecord(k, ops[WriterOf(ops, k)].value, rev)
                          ELSE DeleteRecord(k, rev)
               IN  rec \in StoredRevision /\ (rec.deleted => IsCurrent(histories[k]))
    <2> DEFINE o == ops[WriterOf(ops, k)]
    <2>1. PICK i \in 1..n : /\ IsWrite(ops[i])
                            /\ k \in ops[i].keys
                            /\ ops[i].op # "put" => IsCurrent(histories[k])
      BY <1>3
    <2>2. i \in DOMAIN ops
      BY <1>1
    <2>3. /\ WriterOf(ops, k) \in DOMAIN ops
          /\ IsWrite(o) /\ k \in o.keys
      BY <2>1, <2>2 DEF WriterOf
    <2>4. WriterOf(ops, k) = i
      BY <2>1, <2>2, <2>3 DEF WriteRangesValid
    <2>5. k \in Keys
      BY <1>4
    <2>6. CASE o.op = "put"
      <3>1. o.value \in Values
        BY <1>2, <2>3, <2>6
      <3>2. PutRecord(k, o.value, rev) \in StoredRevision
              /\ ~PutRecord(k, o.value, rev).deleted
        BY <2>5, <3>1, PutRecordType
      <3> QED BY <2>6, <3>2
    <2>7. CASE o.op # "put"
      <3>1. IsCurrent(histories[k])
        BY <2>1, <2>4, <2>7
      <3>2. DeleteRecord(k, rev) \in StoredRevision
        BY <2>5, <3>1, DeleteRecordType
      <3> QED BY <2>7, <3>1, <3>2
    <2> QED BY <2>6, <2>7
  <1> QED BY <1>4, <1>5 DEF TxnWrites

LEMMA TxnIsWriteStep ==
  ASSUME TypeOK, NEW t \in Txns, Txn(t)
  PROVE  \E E : WriteStep(E)
  <1> DEFINE ops == IF \A c \in t.compare : evaluateCompare(c)
                    THEN t.success ELSE t.failure
             rev == revision + 1
             ran == RunsUpTo(ops, rev)
             D == WrittenKeys(ops, ran)
             writes == TxnWrites(ops, ran, rev)
  <1>1. /\ revision < MaxRevision
        /\ WriteRangesValid(ops)
        /\ revision' = rev
        /\ Append_(writes, rev)
        /\ IF ran = Len(ops) /\ DOMAIN writes # {} THEN publish(log'[rev], rev)
                                                 ELSE UNCHANGED got
        /\ UNCHANGED <<watcher, fired>>
    BY DEF Txn
  <1>2. ops \in Seq(Operation)
    BY TxnAssumption
  <1>3. ops \in {t.success, t.failure}
    OBVIOUS
  <1>4. NoHistoricalReads => \A i \in DOMAIN ops : ops[i].op = "range" => ops[i].rev = 0
    BY <1>3 DEF NoHistoricalReads
  <1> HIDE DEF ops
  <1>5. rev \in Revs /\ rev \in Nat
    BY <1>1, EtcdAssumptions DEF TypeOK, Revs
  <1> HIDE DEF rev
  <1>6. ran \in 0..Len(ops) /\ (NoHistoricalReads => ran = Len(ops))
    BY <1>2, <1>4, <1>5, RunsUpToIsDefined
  <1> HIDE DEF ran
  <1>7. /\ D \subseteq Keys
        /\ writes \in [D -> StoredRevision]
        /\ \A k \in D : writes[k].deleted => IsCurrent(histories[k])
    BY <1>1, <1>2, <1>5, <1>6, TxnWritesType
  <1> HIDE DEF D, writes
  <1>8. /\ histories' \in [Keys -> Seq(StoredRevision)]
        /\ compactedRevision' \in 0..MaxRevision
        /\ compactedRevision' >= compactedRevision
        /\ log'[rev] \subseteq WatchEvent
        /\ log' = [log EXCEPT ![rev] = log'[rev]]
        /\ log'[rev] = {} <=> D = {}
        /\ history' = IF log'[rev] = {} THEN history ELSE history \cup {rev}
    BY <1>1, <1>5, <1>7, AppendIsWellFormed
  <1>9. \/ publish(log'[rev], rev)
        \/ UNCHANGED got /\ (NoHistoricalReads => log'[rev] = {})
    BY <1>1, <1>6, <1>7, <1>8
  <1> QED BY <1>1, <1>8, <1>9 DEF WriteStep, rev

LEMMA WriteIsWriteStep ==
  ASSUME TypeOK, NothingAhead, Write
  PROVE  \E E : WriteStep(E)
  BY PutIsWriteStep, TouchIsWriteStep, DeleteIsWriteStep, TxnIsWriteStep DEF Write

----
(* The inductive invariant.                                                *)

LEMMA InitEstablishesIInv == Init => IInv
  <1> SUFFICES ASSUME Init PROVE IInv
    OBVIOUS
  <1>1. \A w \in Watchers : watcher[w] = Unopened /\ fired[w] = {}
    BY DEF Init
  <1>2. Unopened \in WatchState
    BY EtcdAssumptions DEF Unopened, WatchState
  <1>3. TypeOK
    <2>1. watcher \in [Watchers -> WatchState]
      BY <1>2 DEF Init
    <2>2. histories \in [Keys -> Seq(StoredRevision)]
      BY EmptySeq DEF Init
    <2>3. fired \in [Watchers -> SUBSET {"connected", "end", "error"}]
      BY DEF Init
    <2> QED BY <2>1, <2>2, <2>3, EtcdAssumptions DEF Init, TypeOK, Revs
  <1>4. NothingAhead
    BY DEF Init, NothingAhead
  <1>5. QuietUntilConnected
    BY <1>1 DEF Init, QuietUntilConnected, Unopened
  <1>6. EndedStaysDown
    BY <1>1 DEF EndedStaysDown, Unopened
  <1>7. HistoryCoversUncompacted
    BY DEF Init, HistoryCoversUncompacted
  <1> QED BY <1>3, <1>4, <1>5, <1>6, <1>7 DEF IInv

\* What a publication does to the counts of one watcher and one revision.
LEMMA PublishCounts ==
  ASSUME TypeOK, NEW E, NEW rev \in Revs, publish(E, rev),
         NEW w \in Watchers, NEW r \in Revs
  PROVE  got'[w][r] = IF /\ r = rev
                         /\ watcher[w].attached /\ watcher[w].connected
                         /\ ~watcher[w].ended
                         /\ Matches(w, E)
                      THEN got[w][r] + 1 ELSE got[w][r]
  BY DEF publish, TypeOK

LEMMA WriteKeepsIInv ==
  ASSUME IInv, NEW E, WriteStep(E)
  PROVE  IInv'
  <1> DEFINE rev == revision + 1
  <1>1. TypeOK
    BY DEF IInv
  <1>2. /\ rev \in Revs /\ revision' = rev /\ revision \in Nat /\ MaxRevision \in Nat
        /\ log \in [Revs -> SUBSET WatchEvent]
    BY <1>1, EtcdAssumptions DEF WriteStep, TypeOK, Revs
  <1>3. /\ log' \in [Revs -> SUBSET WatchEvent]
        /\ log'[rev] = E
        /\ \A r \in Revs : r # rev => log'[r] = log[r]
    BY <1>2 DEF WriteStep
  <1>4. \A w \in Watchers, r \in Revs :
          /\ got'[w][r] \in Nat
          /\ r # rev => got'[w][r] = got[w][r]
          /\ ~watcher[w].connected => got'[w][r] = got[w][r]
    <2> SUFFICES ASSUME NEW w \in Watchers, NEW r \in Revs
                 PROVE  /\ got'[w][r] \in Nat
                        /\ r # rev => got'[w][r] = got[w][r]
                        /\ ~watcher[w].connected => got'[w][r] = got[w][r]
      OBVIOUS
    <2>1. got[w][r] \in Nat
      BY <1>1 DEF TypeOK
    <2>2. CASE publish(E, rev)
      BY <1>1, <1>2, <2>1, <2>2, PublishCounts
    <2>3. CASE UNCHANGED got
      BY <2>1, <2>3
    <2> QED BY <2>2, <2>3 DEF WriteStep
  <1>5. TypeOK'
    <2>1. got' \in [Watchers -> [Revs -> Nat]]
      <3>1. CASE publish(E, rev)
        BY <1>1, <1>2, <3>1 DEF publish, TypeOK
      <3>2. CASE UNCHANGED got
        BY <1>1, <3>2 DEF TypeOK
      <3> QED BY <3>1, <3>2 DEF WriteStep
    <2>2. revision' \in 0..MaxRevision
      BY <1>2 DEF Revs
    <2>3. history' \subseteq Revs
      BY <1>1, <1>2 DEF WriteStep, TypeOK
    <2> QED BY <1>1, <1>3, <2>1, <2>2, <2>3 DEF WriteStep, TypeOK
  <1>6. NothingAhead'
    <2> SUFFICES ASSUME NEW r \in Revs, r > revision'
                 PROVE  log'[r] = {} /\ \A w \in Watchers : got'[w][r] = 0
      BY DEF NothingAhead
    <2>1. r > revision /\ r # rev
      BY <1>2 DEF Revs
    <2> QED BY <1>3, <1>4, <2>1 DEF IInv, NothingAhead
  <1>7. QuietUntilConnected'
    BY <1>4 DEF IInv, QuietUntilConnected, WriteStep
  <1>8. EndedStaysDown'
    BY DEF IInv, EndedStaysDown, WriteStep
  <1>9. HistoryCoversUncompacted'
    <2> SUFFICES ASSUME NEW r \in Revs, r > compactedRevision', log'[r] # {}
                 PROVE  r \in history'
      BY DEF HistoryCoversUncompacted
    <2>1. CASE r = rev
      BY <1>3, <2>1 DEF WriteStep
    <2>2. CASE r # rev
      <3>1. r > compactedRevision
        BY <1>1 DEF WriteStep, TypeOK, Revs
      <3> QED BY <1>3, <2>2, <3>1 DEF IInv, HistoryCoversUncompacted, WriteStep
    <2> QED BY <2>1, <2>2
  <1> QED BY <1>5, <1>6, <1>7, <1>8, <1>9 DEF IInv

LEMMA CompactKeepsIInv ==
  ASSUME IInv, NEW rev \in Revs, Compact(rev)
  PROVE  IInv'
  <1>1. /\ compactedRevision' \in 0..MaxRevision
        /\ compactedRevision' >= compactedRevision
        /\ compactedRevision' >= rev
    <2>1. {rev} \subseteq 0..MaxRevision
      BY EtcdAssumptions DEF Revs
    <2> QED BY <2>1, RaiseIsMaximum DEF IInv, TypeOK, Compact
  <1>2. \A r \in history : r > rev => r \in history'
    BY DEF Compact
  <1>3. history' \subseteq history
    BY DEF Compact
  <1>4. TypeOK'
    BY <1>1, <1>3 DEF IInv, TypeOK, Compact
  <1>5. NothingAhead' /\ QuietUntilConnected' /\ EndedStaysDown'
    BY DEF IInv, NothingAhead, QuietUntilConnected, EndedStaysDown, Compact
  <1>6. HistoryCoversUncompacted'
    BY <1>1, <1>2, EtcdAssumptions
      DEF IInv, TypeOK, Revs, HistoryCoversUncompacted, Compact
  <1> QED BY <1>4, <1>5, <1>6 DEF IInv

\* Replacing the mutable fields of a watch stream keeps it well formed.
LEMMA StreamUpdateType ==
  ASSUME NEW s \in WatchState, NEW a \in BOOLEAN, NEW c \in BOOLEAN, NEW e \in BOOLEAN,
         NEW ts \in SUBSET {"connect", "fail", "end"}
  PROVE  [s EXCEPT !.attached = a, !.connected = c, !.ended = e, !.tasks = ts] \in WatchState
  BY DEF WatchState

\* The steps of a watch stream change one watcher only.
LEMMA WatchKeepsIInv ==
  ASSUME IInv, NEW w \in Watchers, NEW ks \in Ranges, NEW skip \in {{}, {"Put"}},
         NEW start \in 0..(MaxRevision + MaxAhead), Watch(w, ks, skip, start)
  PROVE  IInv'
  <1> DEFINE new ==
         [range |-> ks, skip |-> skip, start |-> start, attached |-> TRUE,
          connected |-> FALSE, ended |-> FALSE, tasks |-> {"connect"}, since |-> 0]
  <1>1. new \in WatchState
    <2>1. ks \in SUBSET Keys /\ skip \in SUBSET {"Put", "Delete"}
      BY EtcdAssumptions
    <2>2. 0 \in 0..(MaxRevision + MaxAhead + 1)
      BY EtcdAssumptions
    <2> QED BY <2>1, <2>2 DEF WatchState
  <1>2. ~new.connected /\ ~new.ended /\ "fail" \notin new.tasks
    OBVIOUS
  <1>3. watcher' = [watcher EXCEPT ![w] = new]
    BY DEF Watch
  <1> HIDE DEF new
  <1>4. TypeOK'
    BY <1>1, <1>3 DEF IInv, TypeOK, Watch, storeVars
  <1>5. NothingAhead' /\ HistoryCoversUncompacted'
    BY DEF IInv, NothingAhead, HistoryCoversUncompacted, Watch, storeVars
  <1>6. QuietUntilConnected'
    BY <1>2, <1>3 DEF IInv, TypeOK, QuietUntilConnected, Watch
  <1>7. EndedStaysDown'
    BY <1>2, <1>3 DEF IInv, TypeOK, EndedStaysDown
  <1> QED BY <1>4, <1>5, <1>6, <1>7 DEF IInv

LEMMA ConnectKeepsIInv ==
  ASSUME IInv, NEW w \in Watchers, Connect(w)
  PROVE  IInv'
  <1>1. TypeOK /\ watcher[w] \in WatchState /\ "connect" \in watcher[w].tasks
    BY DEF IInv, TypeOK, Connect
  <1>2. fired[w] = {} /\ \A r \in Revs : got[w][r] = 0
    BY <1>1 DEF IInv, QuietUntilConnected
  <1>3. fired' = [fired EXCEPT ![w] = {"connected"}]
    BY <1>2 DEF Connect
  <1>4. PICK tasks \in SUBSET {"connect", "fail", "end"},
             since \in 0..(MaxRevision + MaxAhead + 1) :
          /\ "connect" \notin tasks
          /\ watcher' = [watcher EXCEPT ![w].connected = TRUE, ![w].since = since,
                                        ![w].tasks = tasks]
    <2> DEFINE s == watcher[w].start
               since == IF s = 0 THEN revision + 1 ELSE s
               tasks == (watcher[w].tasks \ {"connect"})
                          \cup (IF IsCompacted(s) THEN {"fail"} ELSE {})
    <2>1. since \in 0..(MaxRevision + MaxAhead + 1)
      BY <1>1, EtcdAssumptions DEF TypeOK, WatchState
    <2>2. tasks \in SUBSET {"connect", "fail", "end"} /\ "connect" \notin tasks
      BY <1>1 DEF WatchState
    <2>3. watcher' = [watcher EXCEPT ![w].connected = TRUE, ![w].since = since,
                                     ![w].tasks = tasks]
      BY <1>1 DEF Connect, TypeOK
    <2> QED BY <2>1, <2>2, <2>3
  <1>5. watcher' \in [Watchers -> WatchState]
    BY <1>1, <1>4 DEF TypeOK, WatchState
  <1>6. \A v \in Watchers : v # w =>
          watcher'[v] = watcher[v] /\ fired'[v] = fired[v] /\ got'[v] = got[v]
    BY <1>1, <1>3, <1>4 DEF Connect, TypeOK
  <1>7. /\ got' \in [Watchers -> [Revs -> Nat]]
        /\ \A r \in Revs : log[r] = {} => got'[w][r] = 0
    <2>1. CASE got' = got
      BY <1>1, <1>2, <2>1 DEF TypeOK
    <2>2. CASE got' = [got EXCEPT ![w] = [r \in Revs |->
                  got[w][r] + (IF r \in Replayed(w) THEN 1 ELSE 0)]]
      <3>1. \A r \in Revs : log[r] = {} => r \notin Replayed(w)
        BY DEF Replayed, Matches
      <3> QED BY <1>1, <1>2, <2>2, <3>1 DEF TypeOK
    <2> QED BY <2>1, <2>2 DEF Connect
  <1>8. /\ watcher'[w].connected /\ "connect" \notin watcher'[w].tasks
        /\ watcher'[w].ended = watcher[w].ended
        /\ fired'[w] # {}
    BY <1>1, <1>3, <1>4 DEF TypeOK, WatchState
  <1>9. TypeOK'
    BY <1>1, <1>3, <1>5, <1>7 DEF TypeOK, Connect, storeVars
  <1>10. NothingAhead'
    <2> SUFFICES ASSUME NEW r \in Revs, r > revision, NEW v \in Watchers
                 PROVE  log[r] = {} /\ got'[v][r] = 0
      BY DEF NothingAhead, IInv, Connect, storeVars
    <2>1. log[r] = {} /\ got[v][r] = 0
      BY DEF IInv, NothingAhead
    <2> QED BY <1>6, <1>7, <2>1
  <1>11. QuietUntilConnected'
    BY <1>6, <1>8 DEF IInv, QuietUntilConnected
  <1>12. EndedStaysDown'
    BY <1>1, <1>6, <1>8 DEF IInv, EndedStaysDown
  <1>13. HistoryCoversUncompacted'
    BY DEF IInv, HistoryCoversUncompacted, Connect, storeVars
  <1> QED BY <1>9, <1>10, <1>11, <1>12, <1>13 DEF IInv

LEMMA FailKeepsIInv ==
  ASSUME IInv, NEW w \in Watchers, Fail(w)
  PROVE  IInv'
  <1>1. fired[w] # {} /\ "connect" \notin watcher[w].tasks
    BY DEF IInv, QuietUntilConnected, Fail
  <1>2. watcher' \in [Watchers -> WatchState]
    <2> DEFINE s == watcher[w]
               ts == s.tasks \ {"fail"}
    <2>1. watcher \in [Watchers -> WatchState] /\ s \in WatchState
      BY DEF IInv, TypeOK
    <2>2. /\ s.attached \in BOOLEAN /\ s.connected \in BOOLEAN /\ s.ended \in BOOLEAN
          /\ ts \in SUBSET {"connect", "fail", "end"}
      BY <2>1 DEF WatchState
    <2>3. [s EXCEPT !.attached = FALSE, !.connected = FALSE, !.ended = s.ended, !.tasks = ts] \in WatchState
      BY <2>1, <2>2, StreamUpdateType
    <2>4. watcher' = [watcher EXCEPT ![w] =
             [s EXCEPT !.attached = FALSE, !.connected = FALSE, !.ended = s.ended, !.tasks = ts]]
      BY <2>1 DEF Fail, WatchState
    <2> QED BY <2>1, <2>3, <2>4
  <1>3. TypeOK'
    BY <1>2 DEF IInv, TypeOK, Fail, storeVars
  <1>4. NothingAhead' /\ HistoryCoversUncompacted'
    BY DEF IInv, NothingAhead, HistoryCoversUncompacted, Fail, storeVars
  <1>5. \A v \in Watchers : v # w => watcher'[v] = watcher[v] /\ fired'[v] = fired[v]
    BY DEF IInv, TypeOK, Fail
  <1>6. /\ ~watcher'[w].connected /\ "connect" \notin watcher'[w].tasks
        /\ fired'[w] # {}
    BY <1>1 DEF IInv, TypeOK, WatchState, Fail
  <1>7. QuietUntilConnected'
    BY <1>5, <1>6 DEF IInv, QuietUntilConnected, Fail
  <1>8. EndedStaysDown'
    BY <1>5, <1>6 DEF IInv, EndedStaysDown
  <1> QED BY <1>3, <1>4, <1>7, <1>8 DEF IInv

LEMMA EndKeepsIInv ==
  ASSUME IInv, NEW w \in Watchers, End(w)
  PROVE  IInv'
  <1>1. watcher' \in [Watchers -> WatchState]
    <2> DEFINE s == watcher[w]
               ts == s.tasks \ {"end"}
    <2>1. watcher \in [Watchers -> WatchState] /\ s \in WatchState
      BY DEF IInv, TypeOK
    <2>2. /\ s.attached \in BOOLEAN /\ s.connected \in BOOLEAN /\ s.ended \in BOOLEAN
          /\ ts \in SUBSET {"connect", "fail", "end"}
      BY <2>1 DEF WatchState
    <2>3. [s EXCEPT !.attached = FALSE, !.connected = FALSE, !.ended = TRUE, !.tasks = ts] \in WatchState
      BY <2>1, <2>2, StreamUpdateType
    <2>4. watcher' = [watcher EXCEPT ![w] =
             [s EXCEPT !.attached = FALSE, !.connected = FALSE, !.ended = TRUE, !.tasks = ts]]
      BY <2>1 DEF End, WatchState
    <2> QED BY <2>1, <2>3, <2>4
  <1>2. TypeOK'
    BY <1>1 DEF IInv, TypeOK, End, storeVars
  <1>3. NothingAhead' /\ HistoryCoversUncompacted'
    BY DEF IInv, NothingAhead, HistoryCoversUncompacted, End, storeVars
  <1>4. \A v \in Watchers : v # w => watcher'[v] = watcher[v] /\ fired'[v] = fired[v]
    BY DEF IInv, TypeOK, End
  <1>5. /\ ~watcher'[w].connected /\ "connect" \notin watcher'[w].tasks
        /\ fired'[w] # {}
    BY DEF IInv, TypeOK, WatchState, End
  <1>6. QuietUntilConnected'
    BY <1>4, <1>5 DEF IInv, QuietUntilConnected, End
  <1>7. EndedStaysDown'
    BY <1>4, <1>5 DEF IInv, EndedStaysDown
  <1> QED BY <1>2, <1>3, <1>6, <1>7 DEF IInv

LEMMA CancelKeepsIInv ==
  ASSUME IInv, NEW w \in Watchers, CancelWatcher(w)
  PROVE  IInv'
  <1>1. watcher' \in [Watchers -> WatchState]
    <2> DEFINE s == watcher[w]
               ts == s.tasks \cup {"end"}
    <2>1. watcher \in [Watchers -> WatchState] /\ s \in WatchState
      BY DEF IInv, TypeOK
    <2>2. /\ s.attached \in BOOLEAN /\ s.connected \in BOOLEAN /\ s.ended \in BOOLEAN
          /\ ts \in SUBSET {"connect", "fail", "end"}
      BY <2>1 DEF WatchState
    <2>3. [s EXCEPT !.attached = s.attached, !.connected = s.connected, !.ended = s.ended, !.tasks = ts] \in WatchState
      BY <2>1, <2>2, StreamUpdateType
    <2>4. watcher' = [watcher EXCEPT ![w] =
             [s EXCEPT !.attached = s.attached, !.connected = s.connected, !.ended = s.ended, !.tasks = ts]]
      BY <2>1 DEF CancelWatcher, WatchState
    <2> QED BY <2>1, <2>3, <2>4
  <1>2. TypeOK'
    BY <1>1 DEF IInv, TypeOK, CancelWatcher, storeVars
  <1>3. NothingAhead' /\ HistoryCoversUncompacted'
    BY DEF IInv, NothingAhead, HistoryCoversUncompacted, CancelWatcher, storeVars
  <1>4. \A v \in Watchers :
          /\ watcher'[v].connected = watcher[v].connected
          /\ watcher'[v].ended = watcher[v].ended
          /\ watcher'[v].tasks \in {watcher[v].tasks, watcher[v].tasks \cup {"end"}}
    BY DEF IInv, TypeOK, WatchState, CancelWatcher
  <1>5. QuietUntilConnected'
    BY <1>4 DEF IInv, QuietUntilConnected, CancelWatcher
  <1>6. EndedStaysDown'
    BY <1>4 DEF IInv, EndedStaysDown
  <1> QED BY <1>2, <1>3, <1>5, <1>6 DEF IInv

LEMMA CloseKeepsIInv ==
  ASSUME IInv, Close
  PROVE  IInv'
  <1>1. watcher' \in [Watchers -> WatchState]
    <2>1. \A v \in Watchers : [watcher[v] EXCEPT !.attached = FALSE] \in WatchState
      BY DEF IInv, TypeOK, WatchState
    <2> QED BY <2>1 DEF Close
  <1>2. TypeOK'
    BY <1>1 DEF IInv, TypeOK, Close, storeVars
  <1>3. NothingAhead' /\ HistoryCoversUncompacted'
    BY DEF IInv, NothingAhead, HistoryCoversUncompacted, Close, storeVars
  <1>4. \A v \in Watchers :
          /\ watcher'[v].connected = watcher[v].connected
          /\ watcher'[v].ended = watcher[v].ended
          /\ watcher'[v].tasks \in {watcher[v].tasks, watcher[v].tasks \cup {"end"}}
    BY DEF IInv, TypeOK, WatchState, Close
  <1>5. QuietUntilConnected'
    BY <1>4 DEF IInv, QuietUntilConnected, Close
  <1>6. EndedStaysDown'
    BY <1>4 DEF IInv, EndedStaysDown
  <1> QED BY <1>2, <1>3, <1>5, <1>6 DEF IInv

LEMMA NextKeepsIInv == IInv /\ [Next]_vars => IInv'
  <1> SUFFICES ASSUME IInv, [Next]_vars PROVE IInv'
    OBVIOUS
  <1>1. CASE Write
    BY <1>1, WriteIsWriteStep, WriteKeepsIInv DEF IInv
  <1>2. CASE \E rev \in Revs : Compact(rev)
    BY <1>2, CompactKeepsIInv
  <1>3. CASE \E w \in Watchers, ks \in Ranges, skip \in {{}, {"Put"}},
                start \in 0..(MaxRevision + MaxAhead) : Watch(w, ks, skip, start)
    BY <1>3, WatchKeepsIInv
  <1>4. CASE Tasks
    BY <1>4, ConnectKeepsIInv, FailKeepsIInv, EndKeepsIInv DEF Tasks
  <1>5. CASE \E w \in Watchers : CancelWatcher(w)
    BY <1>5, CancelKeepsIInv
  <1>6. CASE Close
    BY <1>6, CloseKeepsIInv
  <1>7. CASE UNCHANGED vars
    BY <1>7 DEF IInv, TypeOK, NothingAhead, QuietUntilConnected, EndedStaysDown,
                HistoryCoversUncompacted, vars
  <1> QED BY <1>1, <1>2, <1>3, <1>4, <1>5, <1>6, <1>7 DEF Next

----
(* Theorems.                                                               *)

THEOREM InductiveInvariant == Spec => []IInv
  BY InitEstablishesIInv, NextKeepsIInv, PTL DEF Spec

\* Every variable keeps its type: the counters stay within the bounds, and no
\* write, compaction or watch step stores a malformed record or event.
THEOREM TypeCorrectness == Spec => []TypeOK
  <1>1. IInv => TypeOK
    BY DEF IInv
  <1> QED BY <1>1, InductiveInvariant, PTL

\* Whatever is written, trimmed and compacted, in any transaction, the events
\* after the watermark that appendRevision and compact maintain are all there.
THEOREM UncompactedHistoryIsComplete == Spec => []HistoryCoversUncompacted
  <1>1. IInv => HistoryCoversUncompacted
    BY DEF IInv
  <1> QED BY <1>1, InductiveInvariant, PTL

InOrderStep ==
  \A w \in Watchers, r \in Revs :
    got'[w][r] # got[w][r] => \A q \in Revs : q >= r => got[w][q] = 0

LEMMA StepsEmitInOrder == IInv /\ [Next]_vars => InOrderStep
  <1> SUFFICES ASSUME IInv, [Next]_vars,
                      NEW w \in Watchers, NEW r \in Revs, got'[w][r] # got[w][r],
                      NEW q \in Revs, q >= r
               PROVE  got[w][q] = 0
    BY DEF InOrderStep
  <1>1. TypeOK
    BY DEF IInv
  <1>2. CASE Write
    <2>1. PICK E : WriteStep(E)
      BY <1>1, <1>2, WriteIsWriteStep DEF IInv
    <2>2. publish(E, revision + 1)
      BY <2>1 DEF WriteStep
    <2>3. revision \in Nat /\ revision + 1 \in Revs
      BY <1>1, <2>1, EtcdAssumptions DEF WriteStep, TypeOK, Revs
    <2>4. r = revision + 1
      BY <1>1, <2>2, <2>3, PublishCounts
    <2>5. q > revision
      BY <2>3, <2>4 DEF Revs
    <2> QED BY <2>5 DEF IInv, NothingAhead
  <1>3. CASE \E v \in Watchers : Connect(v)
    <2>1. PICK v \in Watchers : Connect(v)
      BY <1>3
    <2>2. v = w
      BY <1>1, <2>1 DEF Connect, TypeOK
    <2>3. fired[w] = {}
      BY <2>1, <2>2 DEF IInv, QuietUntilConnected, Connect
    <2> QED BY <2>3 DEF IInv, QuietUntilConnected
  <1>4. ASSUME UNCHANGED got PROVE FALSE
    BY <1>4
  <1>5. CASE \E rev \in Revs : Compact(rev)
    BY <1>4, <1>5 DEF Compact
  <1>6. CASE \E v \in Watchers, ks \in Ranges, skip \in {{}, {"Put"}},
                start \in 0..(MaxRevision + MaxAhead) : Watch(v, ks, skip, start)
    BY <1>4, <1>6 DEF Watch
  <1>7. CASE \E v \in Watchers : Fail(v) \/ End(v) \/ CancelWatcher(v)
    BY <1>4, <1>7 DEF Fail, End, CancelWatcher
  <1>8. CASE Close
    BY <1>4, <1>8 DEF Close
  <1>9. CASE UNCHANGED vars
    BY <1>4, <1>9 DEF vars
  <1> QED BY <1>2, <1>3, <1>5, <1>6, <1>7, <1>8, <1>9 DEF Next, Tasks

\* A watch stream never goes back in time: between the replay of connect and
\* the live batches of publish, no revision is emitted after a later one.
THEOREM StreamsAreOrdered == Spec => WatchInOrder
  <1>1. IInv /\ [Next]_vars => [InOrderStep]_vars
    BY StepsEmitInOrder
  <1>2. Spec => [][InOrderStep]_vars
    BY <1>1, InductiveInvariant, PTL DEF Spec
  <1> QED BY <1>2 DEF WatchInOrder, InOrderStep

LEMMA InitEstablishesDelivery == Init => DeliveryInv
  <1> SUFFICES ASSUME Init PROVE DeliveryInv
    OBVIOUS
  <1>1. \A w \in Watchers : watcher[w] = Unopened
    BY DEF Init
  <1>2. OwedFromNextRevision
    BY <1>1, EtcdAssumptions DEF OwedFromNextRevision, Unopened, Init
  <1>3. WatchExactlyOnce
    BY <1>1 DEF WatchExactlyOnce, Unopened
  <1> QED BY <1>2, <1>3, InitEstablishesIInv DEF DeliveryInv

LEMMA WriteKeepsDelivery ==
  ASSUME NoHistoricalReads, DeliveryInv, NEW E, WriteStep(E)
  PROVE  OwedFromNextRevision' /\ WatchExactlyOnce'
  <1> DEFINE rev == revision + 1
  <1>1. TypeOK /\ IInv
    BY DEF DeliveryInv, IInv
  <1>2. /\ rev \in Revs /\ revision' = rev /\ revision \in Nat
        /\ log'[rev] = E
        /\ \A r \in Revs : r # rev => log'[r] = log[r]
        /\ watcher' = watcher
    BY <1>1, EtcdAssumptions DEF WriteStep, TypeOK, Revs
  <1>3. OwedFromNextRevision'
    <2> SUFFICES ASSUME NEW w \in Watchers
                 PROVE  /\ watcher[w].start <= revision' + 1
                        /\ watcher[w].connected => watcher[w].since <= revision' + 1
      BY <1>2 DEF OwedFromNextRevision
    <2>1. watcher[w].start \in Nat /\ watcher[w].since \in Nat
      BY <1>1, EtcdAssumptions DEF TypeOK, WatchState
    <2> QED BY <1>2, <2>1 DEF DeliveryInv, OwedFromNextRevision
  <1>4. WatchExactlyOnce'
    <2> SUFFICES ASSUME NEW w \in Watchers,
                        watcher[w].attached, watcher[w].connected,
                        "fail" \notin watcher[w].tasks, NEW r \in Revs
                 PROVE  got'[w][r] = IF r >= watcher[w].since /\ Matches(w, log'[r])
                                     THEN 1 ELSE 0
      BY <1>2 DEF WatchExactlyOnce, Matches
    <2>1. got[w][r] = IF r >= watcher[w].since /\ Matches(w, log[r]) THEN 1 ELSE 0
      BY DEF DeliveryInv, WatchExactlyOnce
    <2>2. ~watcher[w].ended
      BY <1>1 DEF IInv, EndedStaysDown
    <2>3. CASE r # rev
      <3>1. got'[w][r] = got[w][r]
        <4>1. CASE publish(E, rev)
          BY <1>1, <1>2, <2>3, <4>1, PublishCounts
        <4>2. CASE UNCHANGED got
          BY <4>2
        <4> QED BY <4>1, <4>2 DEF WriteStep
      <3> QED BY <1>2, <2>1, <2>3, <3>1
    <2>4. CASE r = rev
      <3>1. got[w][r] = 0
        BY <1>1, <1>2, <2>4 DEF IInv, NothingAhead
      <3>2. rev >= watcher[w].since
        BY <1>2 DEF DeliveryInv, OwedFromNextRevision
      <3>3. CASE publish(E, rev)
        BY <1>1, <1>2, <2>2, <2>4, <3>1, <3>2, <3>3, PublishCounts
      <3>4. CASE UNCHANGED got /\ E = {}
        BY <1>2, <2>4, <3>1, <3>4 DEF Matches
      <3> QED BY <3>3, <3>4 DEF WriteStep
    <2> QED BY <2>3, <2>4
  <1> QED BY <1>3, <1>4

LEMMA ConnectKeepsDelivery ==
  ASSUME DeliveryInv, NEW w \in Watchers, Connect(w)
  PROVE  OwedFromNextRevision' /\ WatchExactlyOnce'
  <1> DEFINE s == watcher[w].start
             since == IF s = 0 THEN revision + 1 ELSE s
             tasks == (watcher[w].tasks \ {"connect"})
                        \cup (IF IsCompacted(s) THEN {"fail"} ELSE {})
  <1>1. TypeOK /\ IInv /\ watcher[w] \in WatchState
    BY DEF DeliveryInv, IInv, TypeOK
  <1>2. /\ revision \in Nat /\ compactedRevision \in Nat /\ s \in Nat
        /\ s <= revision + 1
    BY <1>1, EtcdAssumptions DEF TypeOK, WatchState, DeliveryInv, OwedFromNextRevision
  <1>3. \A r \in Revs : got[w][r] = 0
    BY <1>1 DEF IInv, QuietUntilConnected, Connect
  <1>4. \A v \in Watchers : v # w => watcher'[v] = watcher[v] /\ got'[v] = got[v]
    BY <1>1 DEF Connect, TypeOK
  <1>5. /\ watcher'[w].since = since /\ watcher'[w].start = s
        /\ watcher'[w].tasks = tasks
        /\ watcher'[w].range = watcher[w].range /\ watcher'[w].skip = watcher[w].skip
    BY <1>1 DEF Connect, TypeOK, WatchState
  <1>6. revision' = revision /\ log' = log
    BY DEF Connect, storeVars
  <1>7. OwedFromNextRevision'
    <2> SUFFICES ASSUME NEW v \in Watchers
                 PROVE  /\ watcher'[v].start <= revision + 1
                        /\ watcher'[v].connected => watcher'[v].since <= revision + 1
      BY <1>6 DEF OwedFromNextRevision
    <2>1. CASE v = w
      BY <1>2, <1>5, <2>1
    <2>2. CASE v # w
      BY <1>4, <2>2 DEF DeliveryInv, OwedFromNextRevision
    <2> QED BY <2>1, <2>2
  <1>8. ASSUME "fail" \notin tasks, NEW r \in Revs
        PROVE  got'[w][r] = IF r >= since /\ Matches(w, log[r]) THEN 1 ELSE 0
    <2>1. ~IsCompacted(s)
      BY <1>8
    <2>2. CASE s = 0
      <3>1. got'[w][r] = 0
        BY <1>3, <2>2 DEF Connect
      <3>2. r >= revision + 1 => ~Matches(w, log[r])
        BY <1>1, <1>2 DEF IInv, NothingAhead, Matches, Revs
      <3> QED BY <2>2, <3>1, <3>2
    <2>3. CASE s # 0
      <3>1. got'[w][r] = IF r \in Replayed(w) THEN 1 ELSE 0
        BY <1>1, <1>3, <2>1, <2>3 DEF Connect, TypeOK
      <3>2. r >= s /\ Matches(w, log[r]) => r \in history
        BY <1>1, <1>2, <2>1, <2>3
          DEF IInv, HistoryCoversUncompacted, IsCompacted, Matches, Revs
      <3>3. r \in Replayed(w) <=> r >= s /\ Matches(w, log[r])
        BY <1>1, <3>2 DEF Replayed, TypeOK
      <3> QED BY <2>3, <3>1, <3>3
    <2> QED BY <2>2, <2>3
  <1>9. WatchExactlyOnce'
    <2> SUFFICES ASSUME NEW v \in Watchers,
                        watcher'[v].attached, watcher'[v].connected,
                        "fail" \notin watcher'[v].tasks, NEW r \in Revs
                 PROVE  got'[v][r] = IF r >= watcher'[v].since /\ Matches(v, log[r])'
                                     THEN 1 ELSE 0
      BY <1>6 DEF WatchExactlyOnce, Matches
    <2>1. CASE v = w
      <3>1. Matches(w, log[r])' <=> Matches(w, log[r])
        BY <1>5, <1>6 DEF Matches
      <3> QED BY <1>5, <1>8, <2>1, <3>1
    <2>2. CASE v # w
      <3>1. Matches(v, log[r])' <=> Matches(v, log[r])
        BY <1>4, <1>6, <2>2 DEF Matches
      <3> QED BY <1>4, <2>2, <3>1 DEF DeliveryInv, WatchExactlyOnce
    <2> QED BY <2>1, <2>2
  <1> QED BY <1>7, <1>9


\* Steps that deliver nothing: a stream they leave live was live before.
LEMMA QuietStepKeepsDelivery ==
  ASSUME DeliveryInv, UNCHANGED <<revision, log, got>>,
         \A w \in Watchers :
           /\ watcher'[w].start <= revision + 1
           /\ watcher'[w].connected =>
                /\ watcher[w].connected
                /\ watcher'[w].since = watcher[w].since
                /\ watcher'[w].range = watcher[w].range
                /\ watcher'[w].skip = watcher[w].skip
                /\ watcher'[w].attached => watcher[w].attached
                /\ "fail" \in watcher[w].tasks => "fail" \in watcher'[w].tasks
  PROVE  OwedFromNextRevision' /\ WatchExactlyOnce'
  <1>1. OwedFromNextRevision'
    BY DEF DeliveryInv, OwedFromNextRevision
  <1>2. WatchExactlyOnce'
    <2> SUFFICES ASSUME NEW w \in Watchers,
                        watcher'[w].attached, watcher'[w].connected,
                        "fail" \notin watcher'[w].tasks, NEW r \in Revs
                 PROVE  got[w][r] = IF r >= watcher[w].since /\ Matches(w, log[r])'
                                    THEN 1 ELSE 0
      BY DEF WatchExactlyOnce, Matches
    <2>1. Matches(w, log[r])' <=> Matches(w, log[r])
      BY DEF Matches
    <2> QED BY <2>1 DEF DeliveryInv, WatchExactlyOnce
  <1> QED BY <1>1, <1>2

LEMMA NextKeepsDelivery ==
  ASSUME NoHistoricalReads, MaxAhead <= 1, DeliveryInv, [Next]_vars
  PROVE  DeliveryInv'
  <1>1. TypeOK /\ IInv
    BY DEF DeliveryInv, IInv
  <1>2. IInv'
    BY <1>1, NextKeepsIInv
  <1>3. revision \in Nat /\ MaxAhead \in Nat /\ \A w \in Watchers :
          watcher[w] \in WatchState /\ watcher[w].start <= revision + 1
    BY <1>1, EtcdAssumptions DEF TypeOK, DeliveryInv, OwedFromNextRevision
  <1> DEFINE Goal == OwedFromNextRevision' /\ WatchExactlyOnce'
  <1> SUFFICES Goal
    BY <1>2 DEF DeliveryInv
  <1>4. CASE Write
    BY <1>1, <1>4, WriteIsWriteStep, WriteKeepsDelivery DEF IInv
  <1>5. CASE \E rev \in Revs : Compact(rev)
    BY <1>3, <1>5, QuietStepKeepsDelivery DEF Compact
  <1>6. ASSUME NEW w \in Watchers, NEW ks \in Ranges, NEW skip \in {{}, {"Put"}},
               NEW start \in 0..(MaxRevision + MaxAhead), Watch(w, ks, skip, start)
        PROVE  Goal
    <2>1. start <= revision + 1
      BY <1>3, <1>6 DEF Watch
    <2>2. /\ watcher'[w].start = start /\ ~watcher'[w].connected
          /\ \A v \in Watchers : v # w => watcher'[v] = watcher[v]
      BY <1>1, <1>6 DEF Watch, TypeOK
    <2> QED BY <1>3, <1>6, <2>1, <2>2, QuietStepKeepsDelivery DEF Watch, storeVars
  <1>7. ASSUME NEW w \in Watchers, Connect(w) PROVE Goal
    BY <1>7, ConnectKeepsDelivery
  <1>8. ASSUME NEW w \in Watchers, Fail(w) PROVE Goal
    <2>1. /\ watcher'[w].start = watcher[w].start /\ ~watcher'[w].connected
          /\ \A v \in Watchers : v # w => watcher'[v] = watcher[v]
      BY <1>1, <1>3, <1>8 DEF Fail, TypeOK, WatchState
    <2> QED BY <1>3, <1>8, <2>1, QuietStepKeepsDelivery DEF Fail, storeVars
  <1>9. ASSUME NEW w \in Watchers, End(w) PROVE Goal
    <2>1. /\ watcher'[w].start = watcher[w].start /\ ~watcher'[w].connected
          /\ \A v \in Watchers : v # w => watcher'[v] = watcher[v]
      BY <1>1, <1>3, <1>9 DEF End, TypeOK, WatchState
    <2> QED BY <1>3, <1>9, <2>1, QuietStepKeepsDelivery DEF End, storeVars
  <1>10. ASSUME NEW w \in Watchers, CancelWatcher(w) PROVE Goal
    <2>1. /\ watcher'[w] = [watcher[w] EXCEPT !.tasks = @ \cup {"end"}]
          /\ \A v \in Watchers : v # w => watcher'[v] = watcher[v]
      BY <1>1, <1>10 DEF CancelWatcher, TypeOK
    <2>2. /\ watcher'[w].start = watcher[w].start
          /\ watcher'[w].connected = watcher[w].connected
          /\ watcher'[w].since = watcher[w].since
          /\ watcher'[w].range = watcher[w].range
          /\ watcher'[w].skip = watcher[w].skip
          /\ watcher'[w].attached = watcher[w].attached
          /\ watcher'[w].tasks = watcher[w].tasks \cup {"end"}
      BY <1>3, <2>1 DEF WatchState
    <2> QED BY <1>3, <1>10, <2>1, <2>2, QuietStepKeepsDelivery DEF CancelWatcher, storeVars
  <1>11. CASE Close
    <2>1. \A w \in Watchers :
            /\ watcher'[w].start = watcher[w].start
            /\ watcher'[w].connected = watcher[w].connected
            /\ watcher'[w].since = watcher[w].since
            /\ watcher'[w].range = watcher[w].range
            /\ watcher'[w].skip = watcher[w].skip
            /\ ~watcher'[w].attached
            /\ watcher'[w].tasks = watcher[w].tasks
      BY <1>3, <1>11 DEF Close, WatchState
    <2> QED BY <1>3, <1>11, <2>1, QuietStepKeepsDelivery DEF Close, storeVars
  <1>12. CASE UNCHANGED vars
    BY <1>3, <1>12, QuietStepKeepsDelivery DEF vars
  <1> QED BY <1>4, <1>5, <1>6, <1>7, <1>8, <1>9, <1>10, <1>11, <1>12 DEF Next, Tasks

\* A connected stream has emitted each matching revision exactly once: the
\* replay of watch() and the batches of publish() meet without gap or overlap.
\* It takes that no transaction throws half way and that no watch starts
\* beyond the next revision; the runs show that it fails without either.
THEOREM DeliveryIsExactlyOnce ==
  ASSUME NoHistoricalReads, MaxAhead <= 1
  PROVE  Spec => []WatchExactlyOnce
  <1>1. DeliveryInv /\ [Next]_vars => DeliveryInv'
    BY NextKeepsDelivery
  <1>2. DeliveryInv => WatchExactlyOnce
    BY DEF DeliveryInv
  <1> QED BY InitEstablishesDelivery, <1>1, <1>2, PTL DEF Spec

\* The three together are what a client that follows a prefix builds on.
THEOREM WatchSoundness ==
  ASSUME NoHistoricalReads, MaxAhead <= 1
  PROVE  Spec => []WatchIsSound
  BY TypeCorrectness, DeliveryIsExactlyOnce, UncompactedHistoryIsComplete, PTL
     DEF WatchIsSound

----
(* The binary search.                                                      *)

Windows(s) == (1..(Len(s) + 1)) \X (0..Len(s))

\* What a turn of the binary search returns, f being what the next one does.
Turn(s, rev, f, w) ==
  LET low == w[1]
      high == w[2]
      mid == (low + high) \div 2
  IN  IF low > high THEN low - 1
      ELSE IF s[mid].mod <= rev THEN f[<<mid + 1, high>>] ELSE f[<<low, mid - 1>>]

IsSearch(s, rev, f) == f = [w \in Windows(s) |-> Turn(s, rev, f, w)]

LEMMA SearchUnfolds ==
  ASSUME NEW s, NEW rev
  PROVE  findRevisionAtOrBefore(s, rev) = (CHOOSE f : IsSearch(s, rev, f))[<<1, Len(s)>>]
  BY DEF findRevisionAtOrBefore, IsSearch, Turn, Windows

\* Natural numbers: what holds at 0 and is handed on holds everywhere.
LEMMA SetInduction ==
  ASSUME NEW S \in SUBSET Nat, 0 \in S, \A n \in S : n + 1 \in S
  PROVE  S = Nat
<1> SUFFICES ASSUME Nat \ S # {} PROVE FALSE
  OBVIOUS
<1>1. PICK x \in Nat \ S : \A y \in Nat \ S : x <= y
  BY LeastElement
<1>2. x # 0 /\ x - 1 \in Nat /\ ~(x <= x - 1)
  BY <1>1
<1>3. x - 1 \in S /\ (x - 1) + 1 = x
  BY <1>1, <1>2
<1> QED BY <1>1, <1>3

\* The window shrinks at every turn.
LEMMA WindowShrinks ==
  ASSUME NEW s, Len(s) \in Nat, NEW w \in Windows(s), w[1] <= w[2]
  PROVE  LET mid == (w[1] + w[2]) \div 2
         IN  /\ mid \in 1..Len(s) /\ mid \in Nat /\ w[1] <= mid /\ mid <= w[2]
             /\ <<mid + 1, w[2]>> \in Windows(s) /\ <<w[1], mid - 1>> \in Windows(s)
             /\ w[1] \in Nat /\ w[2] \in Nat
<1> DEFINE mid == (w[1] + w[2]) \div 2
<1>1. w[1] \in 1..(Len(s) + 1) /\ w[2] \in 0..Len(s)
  BY DEF Windows
<1>2. mid \in Nat /\ w[1] <= mid /\ mid <= w[2]
  BY <1>1
<1> HIDE DEF mid
<1>3. mid \in 1..Len(s) /\ mid + 1 \in 1..(Len(s) + 1) /\ mid - 1 \in 0..Len(s)
  BY <1>1, <1>2
<1> QED BY <1>1, <1>2, <1>3 DEF Windows, mid

\* The binary search ends: there is a function its recursion defines.
LEMMA SearchExists ==
  ASSUME NEW s, Len(s) \in Nat, NEW rev
  PROVE  \E f : IsSearch(s, rev, f)
<1> DEFINE Fits(f, n) == /\ f = [w \in Windows(s) |-> f[w]]
                         /\ \A w \in Windows(s) : w[2] - w[1] < n => f[w] = Turn(s, rev, f, w)
           S == {n \in Nat : \E f : Fits(f, n)}
<1>1. 0 \in S
  <2> DEFINE f == [w \in Windows(s) |-> w[1] - 1]
  <2>1. ASSUME NEW w \in Windows(s), w[2] - w[1] < 0 PROVE f[w] = Turn(s, rev, f, w)
    BY <2>1 DEF Turn, Windows
  <2>2. Fits(f, 0)
    BY <2>1
  <2> QED BY <2>2
<1>2. ASSUME NEW n \in S PROVE n + 1 \in S
  <2>1. PICK f : Fits(f, n)
    OBVIOUS
  <2> DEFINE g == [w \in Windows(s) |-> Turn(s, rev, f, w)]
  <2>2. ASSUME NEW w \in Windows(s), w[2] - w[1] < n + 1 PROVE g[w] = Turn(s, rev, g, w)
    <3> DEFINE mid == (w[1] + w[2]) \div 2
    <3>0. g[w] = Turn(s, rev, f, w)
      OBVIOUS
    <3>1. CASE w[1] > w[2]
      BY <3>0, <3>1 DEF Turn
    <3>2. CASE ~(w[1] > w[2])
      <4>0. w[1] <= w[2] /\ w[1] \in Nat /\ w[2] \in Nat
        BY <3>2 DEF Windows
      <4>1. /\ mid \in Nat /\ w[1] <= mid /\ mid <= w[2]
            /\ <<mid + 1, w[2]>> \in Windows(s) /\ <<w[1], mid - 1>> \in Windows(s)
        BY <4>0, WindowShrinks
      <4> HIDE DEF mid
      <4>2. w[2] - (mid + 1) < n /\ (mid - 1) - w[1] < n
        BY <2>2, <4>0, <4>1
      <4>3. /\ f[<<mid + 1, w[2]>>] = g[<<mid + 1, w[2]>>]
            /\ f[<<w[1], mid - 1>>] = g[<<w[1], mid - 1>>]
        <5> HIDE DEF Turn
        <5>1. ASSUME NEW v \in Windows(s), v[2] - v[1] < n PROVE f[v] = g[v]
          BY <2>1, <5>1
        <5> HIDE DEF g
        <5> QED BY <4>1, <4>2, <5>1
      <4> HIDE DEF g
      <4> QED BY <3>0, <3>2, <4>3 DEF Turn, mid
    <3> QED BY <3>1, <3>2
  <2>3. Fits(g, n + 1)
    <3>1. g = [w \in Windows(s) |-> g[w]]
      OBVIOUS
    <3> HIDE DEF g
    <3> QED BY <2>2, <3>1
  <2> HIDE DEF Fits
  <2> QED BY <2>3
<1>3. S = Nat
  <2> HIDE DEF Fits
  <2>1. S \in SUBSET Nat
    OBVIOUS
  <2> HIDE DEF S
  <2> QED BY <1>1, <1>2, <2>1, SetInduction
<1>4. Len(s) + 1 \in S
  <2> HIDE DEF S
  <2> QED BY <1>3
<1>5. PICK f : Fits(f, Len(s) + 1)
  <2> HIDE DEF Fits
  <2> QED BY <1>4
<1>6. ASSUME NEW w \in Windows(s) PROVE w[2] - w[1] < Len(s) + 1
  <2>1. w[1] \in 1..(Len(s) + 1) /\ w[2] \in 0..Len(s)
    BY DEF Windows
  <2> QED BY <2>1
<1>7. \A w \in Windows(s) : f[w] = Turn(s, rev, f, w)
  BY <1>5, <1>6
<1>8. IsSearch(s, rev, f)
  <2> HIDE DEF Turn, Windows
  <2> QED BY <1>5, <1>7 DEF IsSearch
<1> QED BY <1>8

\* The records of a key stand in the order they were written.
Sorted(s) == \A i, j \in 1..Len(s) : i < j => s[i].mod < s[j].mod

\* findRevisionAtOrBefore: the records up to the index it returns are those
\* at or before the revision.
LEMMA FindIsRight ==
  ASSUME NEW s \in Seq(StoredRevision), Sorted(s), NEW rev \in Nat
  PROVE  /\ findRevisionAtOrBefore(s, rev) \in 0..Len(s)
         /\ \A i \in 1..Len(s) : s[i].mod <= rev <=> i <= findRevisionAtOrBefore(s, rev)
<1> DEFINE Right(i) == i \in 0..Len(s) /\ \A j \in 1..Len(s) : s[j].mod <= rev <=> j <= i
           Open(w) == /\ w[1] <= w[2] + 1
                      /\ \A j \in 1..Len(s) : j < w[1] => s[j].mod <= rev
                      /\ \A j \in 1..Len(s) : j > w[2] => ~(s[j].mod <= rev)
           f == CHOOSE g : IsSearch(s, rev, g)
           S == {n \in Nat : \A w \in Windows(s) : Open(w) /\ w[2] - w[1] < n => Right(f[w])}
<1>0. Len(s) \in Nat
  OBVIOUS
<1>1. IsSearch(s, rev, f)
  BY <1>0, SearchExists
<1> HIDE DEF f
<1>2. \A w \in Windows(s) : f[w] = Turn(s, rev, f, w)
  <2> HIDE DEF Turn, Windows
  <2> QED BY <1>1 DEF IsSearch
<1>3. ASSUME NEW w \in Windows(s), Open(w), w[1] > w[2] PROVE Right(f[w])
  <2>0. w[1] \in 1..(Len(s) + 1) /\ w[2] \in 0..Len(s) /\ w[1] <= w[2] + 1
    BY <1>3 DEF Windows
  <2>1. w[1] \in 1..(Len(s) + 1) /\ w[2] \in 0..Len(s) /\ w[1] = w[2] + 1
    BY <1>0, <1>3, <2>0
  <2>2. f[w] = w[2]
    <3>1. f[w] = w[1] - 1
      BY <1>2, <1>3 DEF Turn
    <3> QED BY <1>0, <2>1, <3>1
  <2> HIDE DEF f
  <2> QED BY <1>0, <1>3, <2>1, <2>2
<1>4. 0 \in S
  <2>1. ASSUME NEW w \in Windows(s), w[2] - w[1] < 0 PROVE w[1] > w[2]
    BY <2>1, <1>0 DEF Windows
  <2> HIDE DEF Open, Right
  <2>2. \A w \in Windows(s) : Open(w) /\ w[2] - w[1] < 0 => Right(f[w])
    BY <1>3, <2>1
  <2> QED BY <2>2
<1>5. ASSUME NEW n \in S PROVE n + 1 \in S
  <2> SUFFICES ASSUME NEW w \in Windows(s), Open(w), w[2] - w[1] < n + 1 PROVE Right(f[w])
    OBVIOUS
  <2> DEFINE mid == (w[1] + w[2]) \div 2
             lower == <<mid + 1, w[2]>>
             upper == <<w[1], mid - 1>>
  <2>1. CASE w[1] > w[2]
    BY <1>3, <2>1
  <2>2. CASE ~(w[1] > w[2])
    <3>0. w[1] <= w[2] /\ w[1] \in Nat /\ w[2] \in Nat
      BY <2>2, <1>0 DEF Windows
    <3>1. /\ mid \in Nat /\ w[1] <= mid /\ mid <= w[2] /\ mid \in 1..Len(s)
          /\ lower \in Windows(s) /\ upper \in Windows(s)
      BY <1>0, <3>0, WindowShrinks
    <3> HIDE DEF mid
    <3>2. lower[2] - lower[1] < n /\ upper[2] - upper[1] < n
      BY <3>0, <3>1
    <3>3. f[w] = IF s[mid].mod <= rev THEN f[lower] ELSE f[upper]
      BY <1>2, <2>2 DEF Turn, mid
    <3>4. \A j \in 1..Len(s) : s[j].mod \in Nat
      <4>1. \A j \in 1..Len(s) : s[j] \in StoredRevision
        OBVIOUS
      <4> QED BY <4>1 DEF StoredRevision, Revs
    <3>5. ASSUME s[mid].mod <= rev PROVE Open(lower)
      <4>1. ASSUME NEW j \in 1..Len(s), j < mid + 1 PROVE s[j].mod <= rev
        <5>1. j = mid \/ j < mid
          BY <3>1, <4>1
        <5>2. j < mid => s[j].mod < s[mid].mod
          BY <3>1 DEF Sorted
        <5> QED BY <3>1, <3>4, <3>5, <5>1, <5>2
      <4> QED BY <3>0, <3>1, <4>1
    <3>6. ASSUME ~(s[mid].mod <= rev) PROVE Open(upper)
      <4>1. ASSUME NEW j \in 1..Len(s), j > mid - 1 PROVE ~(s[j].mod <= rev)
        <5>1. j = mid \/ mid < j
          BY <3>1, <4>1
        <5>2. mid < j => s[mid].mod < s[j].mod
          BY <3>1 DEF Sorted
        <5> QED BY <3>1, <3>4, <3>6, <5>1, <5>2
      <4> QED BY <3>0, <3>1, <4>1
    <3> HIDE DEF Open, Right, lower, upper
    <3>7. /\ Open(lower) => Right(f[lower])
          /\ Open(upper) => Right(f[upper])
      BY <3>1, <3>2
    <3> QED BY <3>3, <3>5, <3>6, <3>7
  <2> QED BY <2>1, <2>2
<1>6. S = Nat
  <2> HIDE DEF Open, Right
  <2>1. S \in SUBSET Nat
    OBVIOUS
  <2> HIDE DEF S
  <2> QED BY <1>4, <1>5, <2>1, SetInduction
<1>7. <<1, Len(s)>> \in Windows(s) /\ Open(<<1, Len(s)>>) /\ Len(s) - 1 < Len(s)
  BY <1>0 DEF Windows
<1>8. Right(f[<<1, Len(s)>>])
  <2> HIDE DEF Open, Right
  <2>1. Len(s) \in S
    BY <1>0, <1>6
  <2> QED BY <1>7, <2>1
<1>9. findRevisionAtOrBefore(s, rev) = f[<<1, Len(s)>>]
  BY SearchUnfolds DEF f
<1> QED BY <1>8, <1>9

----
(* What the retained records of a key have to do with the event log.       *)

Shows(e, rec) ==
  /\ e.type = "Delete" <=> rec.deleted
  /\ ~rec.deleted => e.value = rec.value
  /\ e.create = rec.create /\ e.version = rec.version

\* Every record is shown by the event of its revision, and what was written
\* since the oldest record is retained.
FollowsLog(k, s, l, now) ==
  /\ Sorted(s)
  /\ \A i \in 1..Len(s) : s[i].mod <= now
  /\ \A i \in 1..Len(s) : \E e \in l[s[i].mod] : e.key = k /\ Shows(e, s[i])
  /\ \A r \in Revs : (\E e \in l[r] : e.key = k) =>
       s # <<>> /\ (s[1].mod <= r => \E i \in 1..Len(s) : s[i].mod = r)

OneEventPerKey == \A r \in Revs : \A e, f \in log[r] : e.key = f.key => e = f

RecordInv ==
  /\ IInv
  /\ OneEventPerKey
  /\ \A k \in Keys : FollowsLog(k, histories[k], log, revision)
  /\ PrevKvLinksEvents

RecordStep(D, writes) ==
  /\ D \subseteq Keys /\ writes \in [D -> StoredRevision]
  /\ \A k \in D : /\ writes[k].mod = revision + 1
                  /\ writes[k].deleted => IsCurrent(histories[k])
  /\ revision < MaxRevision /\ revision' = revision + 1
  /\ histories' = [k \in Keys |-> IF k \in D THEN appendRevision(histories[k], writes[k])
                                  ELSE histories[k]]
  /\ log' = [log EXCEPT ![revision + 1] = {EventOf(k, writes[k]) : k \in D}]

\* The revision of the last write of key k up to r.
LEMMA LastWrite ==
  ASSUME NEW k, NEW r \in Nat, NEW at \in 1..r, Wrote(k, at),
         \A q \in 1..r : Wrote(k, q) => q <= at, NEW e \in log[at], e.key = k,
         \A f \in log[at] : f.key = k => f = e
  PROVE  LogValue(k, r) = IF e.type = "Delete" THEN {}
                          ELSE {[value |-> e.value, create |-> e.create, mod |-> at,
                                 version |-> e.version, deleted |-> FALSE]}
<1> DEFINE writes == {q \in 1..r : Wrote(k, q)}
           last == CHOOSE q \in writes : \A p \in writes : q >= p
           ev(q) == CHOOSE f \in log[q] : f.key = k
<1>1. at \in writes /\ \A q \in writes : q \in Nat /\ at >= q
  OBVIOUS
<1>2. last = at
  <2>1. last \in writes /\ \A p \in writes : last >= p
    <3> HIDE DEF writes
    <3> QED BY <1>1
  <2> HIDE DEF writes, last
  <2>2. last >= at /\ at >= last /\ last \in Nat /\ at \in Nat
    BY <1>1, <2>1
  <2> QED BY <2>2
<1>3. ev(at) = e
  OBVIOUS
<1>4. LogValue(k, r) = IF writes = {} THEN {}
                       ELSE IF ev(last).type = "Delete" THEN {}
                       ELSE {[value |-> ev(last).value, create |-> ev(last).create, mod |-> last,
                              version |-> ev(last).version, deleted |-> FALSE]}
  BY DEF LogValue
<1>5. writes # {}
  BY <1>1
<1> HIDE DEF writes, last, ev
<1> QED BY <1>2, <1>3, <1>4, <1>5

LEMMA NeverWritten ==
  ASSUME NEW k, NEW r \in Nat, \A q \in 1..r : ~Wrote(k, q)
  PROVE  LogValue(k, r) = {}
<1>1. {q \in 1..r : Wrote(k, q)} = {}
  OBVIOUS
<1> QED BY <1>1 DEF LogValue

\* A record that is not a deletion is the value its event tells of.
LEMMA RecordIsValue ==
  ASSUME NEW rec \in StoredRevision, NEW e, Shows(e, rec), ~rec.deleted
  PROVE  [value |-> e.value, create |-> e.create, mod |-> rec.mod,
          version |-> e.version, deleted |-> FALSE] = rec
  BY DEF StoredRevision, Shows

\* The value of the log at a revision whose last write is the i-th record.
LEMMA RecordTellsValue ==
  ASSUME TypeOK, OneEventPerKey, NEW k \in Keys, NEW r \in Revs, r <= revision,
         FollowsLog(k, histories[k], log, revision), NEW i \in 1..Len(histories[k]),
         \A j \in 1..Len(histories[k]) : histories[k][j].mod <= r <=> j <= i
  PROVE  LogValue(k, r) = IF histories[k][i].deleted THEN {} ELSE {histories[k][i]}
<1> DEFINE s == histories[k]
           rec == s[i]
<1>1. s \in Seq(StoredRevision) /\ Len(s) \in Nat /\ rec \in StoredRevision /\ r \in Nat
  BY DEF TypeOK, Revs
<1>2. \A j \in 1..Len(s) : s[j].mod \in Revs
  <2>1. \A j \in 1..Len(s) : s[j] \in StoredRevision
    BY <1>1
  <2> QED BY <2>1 DEF StoredRevision
<1>3. i <= i /\ rec.mod <= r /\ rec.mod \in 1..r
  BY <1>1, <1>2 DEF Revs
<1>4. PICK e \in log[rec.mod] : e.key = k /\ Shows(e, rec)
  BY DEF FollowsLog
<1>5. Wrote(k, rec.mod)
  BY <1>4 DEF Wrote
<1>6. ASSUME NEW q \in 1..r, Wrote(k, q) PROVE q <= rec.mod
  <2>1. q \in Revs /\ q \in Nat
    BY <1>1, EtcdAssumptions DEF Revs
  <2>2. CASE q < s[1].mod
    <3>0. i \in Nat /\ 1 <= i /\ i <= Len(s)
      BY <1>1
    <3>1. 1 \in 1..Len(s) /\ (1 = i \/ 1 < i)
      <4> HIDE DEF s
      <4> QED BY <1>1, <3>0
    <3>2. s[1].mod <= rec.mod
      BY <1>2, <3>1 DEF FollowsLog, Sorted, Revs
    <3> QED BY <1>2, <1>3, <2>1, <2>2, <3>1, <3>2 DEF Revs
  <2>3. CASE ~(q < s[1].mod)
    <3>0. s[1].mod <= q
      <4>1. 1 \in 1..Len(s)
        BY <1>1
      <4> QED BY <1>2, <2>1, <2>3, <4>1 DEF Revs
    <3>1. PICK j \in 1..Len(s) : s[j].mod = q
      BY <1>6, <2>1, <3>0 DEF FollowsLog, Wrote
    <3>2. j <= i
      BY <3>1
    <3>3. j = i \/ j < i
      BY <1>1, <3>2
    <3> QED BY <1>2, <3>1, <3>3 DEF FollowsLog, Sorted, Revs
  <2> QED BY <2>2, <2>3
<1>7. \A f \in log[rec.mod] : f.key = k => f = e
  BY <1>2, <1>4 DEF OneEventPerKey
<1>8. LogValue(k, r) = IF e.type = "Delete" THEN {}
                       ELSE {[value |-> e.value, create |-> e.create, mod |-> rec.mod,
                              version |-> e.version, deleted |-> FALSE]}
  <2> HIDE DEF rec
  <2> QED BY <1>1, <1>3, <1>4, <1>5, <1>6, <1>7, LastWrite
<1>9. CASE rec.deleted
  BY <1>4, <1>8, <1>9 DEF Shows
<1>10. CASE ~rec.deleted
  BY <1>1, <1>4, <1>8, <1>10, RecordIsValue DEF Shows
<1> QED BY <1>9, <1>10

\* A read follows the log: in full if it finds a record at all.
LEMMA ReadTellsValue ==
  ASSUME TypeOK, OneEventPerKey, NEW k \in Keys, NEW r \in Revs, r <= revision,
         FollowsLog(k, histories[k], log, revision)
  PROVE  LET i == findRevisionAtOrBefore(histories[k], r)
         IN  /\ i = 0 => resolveStoredValueAt(k, r) = {}
             /\ i # 0 => resolveStoredValueAt(k, r) = LogValue(k, r)
<1> DEFINE s == histories[k]
           i == findRevisionAtOrBefore(s, r)
<1>1. s \in Seq(StoredRevision) /\ Sorted(s) /\ r \in Nat
  BY DEF TypeOK, FollowsLog, Revs
<1>2. i \in 0..Len(s) /\ \A j \in 1..Len(s) : s[j].mod <= r <=> j <= i
  BY <1>1, FindIsRight
<1>3. i = 0 => resolveStoredValueAt(k, r) = {}
  BY DEF resolveStoredValueAt
<1>4. resolveStoredValueAt(k, r) = IF i = 0 \/ s[i].deleted THEN {} ELSE {s[i]}
  BY DEF resolveStoredValueAt
<1> HIDE DEF i
<1>5. ASSUME i # 0 PROVE resolveStoredValueAt(k, r) = LogValue(k, r)
  <2>1. i \in 1..Len(s)
    BY <1>1, <1>2, <1>5
  <2>2. LogValue(k, r) = IF s[i].deleted THEN {} ELSE {s[i]}
    BY <1>2, <2>1, RecordTellsValue
  <2> QED BY <1>4, <1>5, <2>2
<1> QED BY <1>3, <1>5 DEF i

\* The value of the log at the current revision is that of the last record.
LEMMA LogValueNow ==
  ASSUME TypeOK, OneEventPerKey, NEW k \in Keys, FollowsLog(k, histories[k], log, revision)
  PROVE  LogValue(k, revision) = IF IsCurrent(histories[k]) THEN {LastOf(histories[k])} ELSE {}
<1> DEFINE s == histories[k]
<1>1. s \in Seq(StoredRevision) /\ Len(s) \in Nat /\ revision \in Nat
  BY EtcdAssumptions DEF TypeOK
<1>2. CASE s = <<>>
  <2>1. \A q \in 1..revision : q \in Revs
    BY EtcdAssumptions DEF TypeOK, Revs
  <2>2. \A q \in 1..revision : ~Wrote(k, q)
    BY <1>2, <2>1 DEF FollowsLog, Wrote
  <2>3. LogValue(k, revision) = {}
    BY <1>1, <2>2, NeverWritten
  <2> QED BY <1>2, <2>3 DEF IsCurrent
<1>3. CASE s # <<>>
  <2>1. Len(s) \in 1..Len(s) /\ s[Len(s)] = LastOf(s)
    BY <1>1, <1>3, EmptySeq DEF LastOf
  <2>2. revision \in Revs
    <3>1. s[Len(s)] \in StoredRevision /\ s[Len(s)].mod <= revision
      BY <1>1, <2>1 DEF FollowsLog
    <3> QED BY <1>1, <3>1 DEF TypeOK, StoredRevision, Revs
  <2>3. \A j \in 1..Len(s) : s[j].mod <= revision <=> j <= Len(s)
    BY <1>1 DEF FollowsLog
  <2>4. LogValue(k, revision) = IF s[Len(s)].deleted THEN {} ELSE {s[Len(s)]}
    BY <1>1, <2>1, <2>2, <2>3, RecordTellsValue
  <2> QED BY <1>3, <2>1, <2>4 DEF IsCurrent
<1> QED BY <1>2, <1>3

----
(* A write appends at most one record to a key, and drops the oldest.      *)

\* The value at a revision depends on the events up to it only.
LEMMA LogValueKept ==
  ASSUME NEW k, NEW r \in Nat, \A q \in 1..r : log'[q] = log[q]
  PROVE  LogValue(k, r)' = LogValue(k, r)
<1> DEFINE W == {q \in 1..r : Wrote(k, q)}
           W2 == {q \in 1..r : Wrote(k, q)'}
           at == CHOOSE q \in W : \A p \in W : q >= p
           ev(q) == CHOOSE e \in log[q] : e.key = k
           ev2(q) == CHOOSE e \in log'[q] : e.key = k
           val(e) == IF e.type = "Delete" THEN {}
                     ELSE {[value |-> e.value, create |-> e.create, mod |-> at,
                            version |-> e.version, deleted |-> FALSE]}
<1>1. W2 = W
  BY DEF Wrote
<1>2. LogValue(k, r) = IF W = {} THEN {} ELSE val(ev(at))
  BY DEF LogValue
<1>3. LogValue(k, r)' = IF W2 = {} THEN {}
                        ELSE LET a == CHOOSE q \in W2 : \A p \in W2 : q >= p
                                 e == ev2(a)
                             IN IF e.type = "Delete" THEN {}
                                ELSE {[value |-> e.value, create |-> e.create, mod |-> a,
                                       version |-> e.version, deleted |-> FALSE]}
  BY DEF LogValue
<1>4. ASSUME W # {} PROVE at \in 1..r
  <2>1. W \subseteq 0..r
    OBVIOUS
  <2> HIDE DEF W
  <2>2. \E m \in W : \A p \in W : m >= p
    BY <1>4, <2>1, GreatestElement
  <2>3. at \in W
    BY <2>2
  <2> QED BY <2>3 DEF W
<1>5. ASSUME W # {} PROVE ev2(at) = ev(at)
  <2>1. log'[at] = log[at]
    BY <1>4, <1>5
  <2> QED BY <2>1
<1> HIDE DEF W, W2, ev, ev2
<1> QED BY <1>1, <1>2, <1>3, <1>5

\* Dropping the oldest of several records.
LEMMA TailFollows ==
  ASSUME NEW k, NEW s \in Seq(StoredRevision), NEW l, NEW now, Len(s) > 1,
         FollowsLog(k, s, l, now)
  PROVE  FollowsLog(k, Tail(s), l, now)
<1> DEFINE t == Tail(s)
<1>1. /\ Len(s) \in Nat /\ s # <<>>
      /\ t \in Seq(StoredRevision) /\ Len(t) = Len(s) - 1 /\ Len(t) \in Nat /\ Len(t) >= 1
      /\ \A i \in 1..Len(t) : t[i] = s[i + 1]
  BY HeadTailProperties, LenProperties, EmptySeq
<1> HIDE DEF t
<1>2. \A i \in 1..Len(t) : i + 1 \in 1..Len(s) /\ t[i] = s[i + 1]
  BY <1>1
<1>3. \A j \in 2..Len(s) : j - 1 \in 1..Len(t) /\ t[j - 1] = s[j]
  BY <1>1
<1>4. Sorted(t)
  BY <1>1, <1>2 DEF FollowsLog, Sorted
<1>5. \A i \in 1..Len(t) : t[i].mod <= now
  BY <1>2 DEF FollowsLog
<1>6. \A i \in 1..Len(t) : \E e \in l[t[i].mod] : e.key = k /\ Shows(e, t[i])
  BY <1>2 DEF FollowsLog
<1>7. ASSUME NEW r \in Revs, \E e \in l[r] : e.key = k, t[1].mod <= r
      PROVE  \E i \in 1..Len(t) : t[i].mod = r
  <2>1. 1 \in 1..Len(s) /\ 2 \in 1..Len(s) /\ 1 \in 1..Len(t) /\ t[1] = s[2]
    BY <1>1
  <2>2. s[1].mod \in Revs /\ s[2].mod \in Revs
    <3>1. s[1] \in StoredRevision /\ s[2] \in StoredRevision
      BY <2>1, ElementOfSeq
    <3> QED BY <3>1 DEF StoredRevision
  <2>3. s[1].mod < s[2].mod
    BY <2>1 DEF FollowsLog, Sorted
  <2>4. s[1].mod \in Nat /\ s[2].mod \in Nat /\ r \in Nat
    BY <2>2 DEF Revs
  <2>5. s[1].mod <= r /\ s[1].mod # r
    BY <1>7, <2>1, <2>3, <2>4
  <2>6. PICK j \in 1..Len(s) : s[j].mod = r
    BY <1>7, <2>5 DEF FollowsLog
  <2>7. j \in 2..Len(s)
    BY <1>1, <2>5, <2>6
  <2> QED BY <1>3, <2>6, <2>7
<1>8. t # <<>>
  BY <1>1, EmptySeq
<1> QED BY <1>4, <1>5, <1>6, <1>7, <1>8 DEF FollowsLog, t

\* Appending the record of the next revision.
LEMMA AppendFollows ==
  ASSUME NEW k, NEW s \in Seq(StoredRevision), NEW rec \in StoredRevision,
         NEW l, NEW m, NEW now \in Nat,
         FollowsLog(k, s, l, now), rec.mod = now + 1,
         \A r \in Revs : r # now + 1 => m[r] = l[r],
         \A r \in Revs : r > now => l[r] = {},
         \E e \in m[now + 1] : e.key = k /\ Shows(e, rec)
  PROVE  FollowsLog(k, Append(s, rec), m, now + 1)
<1> DEFINE t == Append(s, rec)
<1>1. /\ Len(s) \in Nat
      /\ t \in Seq(StoredRevision) /\ Len(t) = Len(s) + 1
      /\ \A i \in 1..Len(s) : t[i] = s[i]
      /\ t[Len(s) + 1] = rec
  BY AppendProperties, LenProperties
<1> HIDE DEF t
<1>2. \A i \in 1..Len(t) : i \in 1..Len(s) \/ i = Len(s) + 1
  BY <1>1
<1>3. \A i \in 1..Len(s) : s[i].mod \in Revs /\ s[i].mod \in Nat /\ s[i].mod <= now
  <2>1. \A i \in 1..Len(s) : s[i] \in StoredRevision
    BY ElementOfSeq
  <2>2. \A i \in 1..Len(s) : s[i].mod \in Revs
    BY <2>1 DEF StoredRevision
  <2> QED BY <2>2 DEF FollowsLog, Revs
<1>4. Sorted(t)
  <2> SUFFICES ASSUME NEW i \in 1..Len(t), NEW j \in 1..Len(t), i < j
               PROVE  t[i].mod < t[j].mod
    BY DEF Sorted
  <2>1. i \in 1..Len(s)
    BY <1>1
  <2>2. CASE j \in 1..Len(s)
    BY <1>1, <2>1, <2>2 DEF FollowsLog, Sorted
  <2>3. CASE j = Len(s) + 1
    BY <1>1, <1>3, <2>1, <2>3
  <2> QED BY <1>2, <2>2, <2>3
<1>5. \A i \in 1..Len(t) : t[i].mod <= now + 1
  BY <1>1, <1>2, <1>3
<1>6. ASSUME NEW i \in 1..Len(t)
      PROVE  \E e \in m[t[i].mod] : e.key = k /\ Shows(e, t[i])
  <2>1. CASE i \in 1..Len(s)
    <3>1. m[s[i].mod] = l[s[i].mod]
      BY <1>3, <2>1
    <3>2. \E e \in l[s[i].mod] : e.key = k /\ Shows(e, s[i])
      BY <2>1 DEF FollowsLog
    <3>3. t[i] = s[i]
      BY <1>1, <2>1
    <3> QED BY <3>1, <3>2, <3>3
  <2>2. CASE i = Len(s) + 1
    BY <1>1, <2>2
  <2> QED BY <1>2, <2>1, <2>2
<1>7. ASSUME NEW r \in Revs, \E e \in m[r] : e.key = k
      PROVE  t # <<>> /\ (t[1].mod <= r => \E i \in 1..Len(t) : t[i].mod = r)
  <2>1. t # <<>>
    BY <1>1, EmptySeq
  <2>2. CASE r = now + 1
    <3>1. Len(s) + 1 \in 1..Len(t)
      BY <1>1
    <3> QED BY <1>1, <2>1, <2>2, <3>1
  <2>3. CASE r # now + 1
    <3>1. \E e \in l[r] : e.key = k
      BY <1>7, <2>3
    <3>2. s # <<>> /\ (s[1].mod <= r => \E i \in 1..Len(s) : s[i].mod = r)
      BY <3>1 DEF FollowsLog
    <3>3. Len(s) >= 1
      BY <1>1, <3>2, EmptySeq
    <3>4. t[1] = s[1] /\ 1..Len(s) \subseteq 1..Len(t)
      BY <1>1, <3>3
    <3> QED BY <1>1, <2>1, <3>2, <3>4
  <2> QED BY <2>2, <2>3
<1> QED BY <1>4, <1>5, <1>6, <1>7 DEF FollowsLog, t

\* A key that is not written at the new revision.
LEMMA RestFollows ==
  ASSUME NEW k, NEW s \in Seq(StoredRevision), NEW l, NEW m, NEW now \in Nat,
         FollowsLog(k, s, l, now),
         \A r \in Revs : r # now + 1 => m[r] = l[r],
         ~\E e \in m[now + 1] : e.key = k
  PROVE  FollowsLog(k, s, m, now + 1)
<1>1. \A i \in 1..Len(s) : s[i].mod \in Revs /\ s[i].mod \in Nat /\ s[i].mod <= now
  <2>1. \A i \in 1..Len(s) : s[i] \in StoredRevision
    BY ElementOfSeq
  <2>2. \A i \in 1..Len(s) : s[i].mod \in Revs
    BY <2>1 DEF StoredRevision
  <2> QED BY <2>2 DEF FollowsLog, Revs
<1>2. \A i \in 1..Len(s) : s[i].mod <= now + 1
  BY <1>1
<1>3. \A i \in 1..Len(s) : \E e \in m[s[i].mod] : e.key = k /\ Shows(e, s[i])
  <2> SUFFICES ASSUME NEW i \in 1..Len(s)
               PROVE  \E e \in m[s[i].mod] : e.key = k /\ Shows(e, s[i])
    OBVIOUS
  <2>1. m[s[i].mod] = l[s[i].mod]
    BY <1>1
  <2>2. \E e \in l[s[i].mod] : e.key = k /\ Shows(e, s[i])
    BY DEF FollowsLog
  <2> QED BY <2>1, <2>2
<1>4. ASSUME NEW r \in Revs, \E e \in m[r] : e.key = k
      PROVE  s # <<>> /\ (s[1].mod <= r => \E i \in 1..Len(s) : s[i].mod = r)
  <2>1. r # now + 1
    BY <1>4
  <2>2. \E e \in l[r] : e.key = k
    BY <1>4, <2>1
  <2> QED BY <2>2 DEF FollowsLog
<1> QED BY <1>2, <1>3, <1>4 DEF FollowsLog

\* The event appended with a record shows it.
LEMMA EventShows ==
  ASSUME NEW k \in Keys, NEW rec \in StoredRevision
  PROVE  EventOf(k, rec).key = k /\ Shows(EventOf(k, rec), rec)
  BY DEF EventOf, Shows, StoredRevision

LEMMA RecordStepFacts ==
  ASSUME IInv, NEW D, NEW writes, RecordStep(D, writes)
  PROVE  /\ revision \in Nat /\ revision + 1 \in Revs
         /\ \A r \in Revs : r # revision + 1 => log'[r] = log[r]
         /\ \A r \in Revs : r > revision => log[r] = {}
         /\ log'[revision + 1] = {EventOf(k, writes[k]) : k \in D}
         /\ \A k \in D : EventOf(k, writes[k]).key = k /\ Shows(EventOf(k, writes[k]), writes[k])
         /\ \A k \in D : k \in Keys /\ writes[k] \in StoredRevision /\ writes[k].mod = revision + 1
<1>1. revision \in Nat /\ revision + 1 \in Revs
  BY EtcdAssumptions DEF RecordStep, IInv, TypeOK, Revs
<1>2. /\ \A r \in Revs : r # revision + 1 => log'[r] = log[r]
      /\ log'[revision + 1] = {EventOf(k, writes[k]) : k \in D}
  BY <1>1 DEF RecordStep, IInv, TypeOK
<1>3. \A r \in Revs : r > revision => log[r] = {}
  BY DEF IInv, NothingAhead
<1>4. \A k \in D : k \in Keys /\ writes[k] \in StoredRevision /\ writes[k].mod = revision + 1
  BY DEF RecordStep
<1>5. \A k \in D : EventOf(k, writes[k]).key = k /\ Shows(EventOf(k, writes[k]), writes[k])
  BY <1>4, EventShows
<1> QED BY <1>1, <1>2, <1>3, <1>4, <1>5

LEMMA RecordStepKeepsOneEvent ==
  ASSUME RecordInv, NEW D, NEW writes, RecordStep(D, writes)
  PROVE  OneEventPerKey'
<1> DEFINE rev == revision + 1
           ev(k) == EventOf(k, writes[k])
<1>1. /\ \A r \in Revs : r # rev => log'[r] = log[r]
      /\ log'[rev] = {ev(k) : k \in D}
      /\ \A k \in D : ev(k).key = k
  BY RecordStepFacts DEF RecordInv
<1> HIDE DEF ev
<1> SUFFICES ASSUME NEW r \in Revs, NEW e \in log'[r], NEW f \in log'[r], e.key = f.key
             PROVE  e = f
  BY DEF OneEventPerKey
<1>2. CASE r # rev
  BY <1>1, <1>2 DEF RecordInv, OneEventPerKey
<1>3. CASE r = rev
  <2>1. PICK j \in D : e = ev(j)
    BY <1>1, <1>3
  <2>2. PICK k \in D : f = ev(k)
    BY <1>1, <1>3
  <2> QED BY <1>1, <2>1, <2>2
<1> QED BY <1>2, <1>3

LEMMA RecordStepFollows ==
  ASSUME RecordInv, NEW D, NEW writes, RecordStep(D, writes), NEW k \in Keys
  PROVE  FollowsLog(k, histories[k], log, revision)'
<1> DEFINE rev == revision + 1
           s == histories[k]
           l == log
           m == log'
           ev(j) == EventOf(j, writes[j])
<1>1. /\ revision \in Nat /\ rev \in Revs
      /\ \A r \in Revs : r # rev => m[r] = l[r]
      /\ \A r \in Revs : r > revision => l[r] = {}
      /\ m[rev] = {ev(j) : j \in D}
      /\ \A j \in D : ev(j).key = j /\ Shows(ev(j), writes[j])
      /\ \A j \in D : j \in Keys /\ writes[j] \in StoredRevision /\ writes[j].mod = rev
  BY RecordStepFacts DEF RecordInv
<1>2. s \in Seq(StoredRevision) /\ FollowsLog(k, s, l, revision)
  BY DEF RecordInv, IInv, TypeOK
<1>3. histories'[k] = IF k \in D THEN appendRevision(s, writes[k]) ELSE s
  BY DEF RecordStep
<1>4. revision' = rev
  BY DEF RecordStep
<1> HIDE DEF ev
<1>5. CASE k \notin D
  <2>1. ~\E e \in m[rev] : e.key = k
    BY <1>1, <1>5
  <2> HIDE DEF s, l, m
  <2>2. FollowsLog(k, s, m, rev)
    BY <1>1, <1>2, <2>1, RestFollows
  <2> QED BY <1>3, <1>4, <1>5, <2>2 DEF s, m
<1>6. CASE k \in D
  <2>1. \E e \in m[rev] : e.key = k /\ Shows(e, writes[k])
    BY <1>1, <1>6
  <2>2. writes[k] \in StoredRevision /\ writes[k].mod = revision + 1
    BY <1>1, <1>6
  <2> HIDE DEF s, l, m
  <2>3. FollowsLog(k, Append(s, writes[k]), m, rev)
    BY <1>1, <1>2, <2>1, <2>2, AppendFollows
  <2>4. /\ Append(s, writes[k]) \in Seq(StoredRevision)
        /\ Len(Append(s, writes[k])) = Len(s) + 1 /\ Len(s) \in Nat
    BY <1>2, <2>2, AppendProperties, LenProperties
  <2>5. FollowsLog(k, appendRevision(s, writes[k]), m, rev)
    <3> DEFINE t == Append(s, writes[k])
    <3>1. CASE Len(t) > RetainedRevisions
      <4>1. Len(t) > 1
        BY <2>4, <3>1, EtcdAssumptions
      <4>2. appendRevision(s, writes[k]) = Tail(t)
        BY <3>1 DEF appendRevision
      <4> HIDE DEF t
      <4>3. FollowsLog(k, Tail(t), m, rev)
        BY <2>3, <2>4, <4>1, TailFollows DEF t
      <4> QED BY <4>2, <4>3
    <3>2. CASE ~(Len(t) > RetainedRevisions)
      BY <2>3, <3>2 DEF appendRevision
    <3> QED BY <3>1, <3>2
  <2> QED BY <1>3, <1>4, <1>6, <2>5 DEF s, m
<1> QED BY <1>5, <1>6

LEMMA RecordStepLinks ==
  ASSUME RecordInv, NEW D, NEW writes, RecordStep(D, writes)
  PROVE  PrevKvLinksEvents'
<1> DEFINE rev == revision + 1
           ev(k) == EventOf(k, writes[k])
<1>1. /\ revision \in Nat /\ rev \in Revs
      /\ \A r \in Revs : r # rev => log'[r] = log[r]
      /\ \A r \in Revs : r > revision => log[r] = {}
      /\ log'[rev] = {ev(k) : k \in D}
      /\ \A k \in D : ev(k).key = k /\ k \in Keys
  BY RecordStepFacts DEF RecordInv
<1>2. ASSUME NEW k, NEW r \in 0..revision
      PROVE  LogValue(k, r)' = LogValue(k, r)
  <2>1. r \in Nat /\ \A q \in 1..r : q \in Revs /\ q # rev
    BY <1>1, EtcdAssumptions DEF Revs
  <2>2. \A q \in 1..r : log'[q] = log[q]
    BY <1>1, <2>1
  <2> QED BY <2>1, <2>2, LogValueKept
<1> SUFFICES ASSUME NEW r \in Revs, NEW e \in log'[r]
             PROVE  {e.prev} \ {0} = {rec.mod : rec \in LogValue(e.key, r - 1)'}
  BY DEF PrevKvLinksEvents
<1>3. r <= rev
  BY <1>1 DEF Revs
<1>4. r - 1 \in 0..revision
  BY <1>1, <1>3 DEF Revs
<1>5. LogValue(e.key, r - 1)' = LogValue(e.key, r - 1)
  BY <1>2, <1>4
<1>6. CASE r # rev
  BY <1>1, <1>5, <1>6 DEF RecordInv, PrevKvLinksEvents
<1>7. CASE r = rev
  <2>1. PICK k \in D : e = ev(k)
    BY <1>1, <1>7
  <2>2. k \in Keys /\ e.key = k /\ r - 1 = revision
    BY <1>1, <1>7, <2>1
  <2>3. LogValue(k, revision) = IF IsCurrent(histories[k]) THEN {LastOf(histories[k])} ELSE {}
    BY <2>2, LogValueNow DEF RecordInv, IInv
  <2>4. e.prev = IF IsCurrent(histories[k]) THEN LastOf(histories[k]).mod ELSE 0
    BY <2>1 DEF EventOf
  <2>5. IsCurrent(histories[k]) => LastOf(histories[k]).mod # 0
    <3>1. ASSUME IsCurrent(histories[k]) PROVE LastOf(histories[k]) \in StoredRevision
      BY <2>2, <3>1, LastOfType DEF IsCurrent, RecordInv, IInv, TypeOK
    <3> QED BY <3>1 DEF StoredRevision, Revs
  <2>6. {e.prev} \ {0} = {rec.mod : rec \in LogValue(k, revision)}
    <3>1. CASE IsCurrent(histories[k])
      BY <2>3, <2>4, <2>5, <3>1
    <3>2. CASE ~IsCurrent(histories[k])
      BY <2>3, <2>4, <3>2
    <3> QED BY <3>1, <3>2
  <2> QED BY <1>5, <2>2, <2>6
<1> QED BY <1>6, <1>7

----
(* Every write is a RecordStep; nothing else touches the records.          *)

LEMMA PutIsRecordStep ==
  ASSUME TypeOK, NEW k \in Keys, NEW v \in Values, Put(k, v)
  PROVE  \E D, writes : RecordStep(D, writes)
<1> DEFINE rev == revision + 1
           writes == [j \in {k} |-> PutRecord(j, v, rev)]
<1>1. rev \in Revs
  BY EtcdAssumptions DEF Put, TypeOK, Revs
<1>2. PutRecord(k, v, rev) \in StoredRevision /\ ~PutRecord(k, v, rev).deleted
  BY <1>1, PutRecordType
<1>3. PutRecord(k, v, rev).mod = rev
  BY DEF PutRecord
<1>4. /\ writes \in [{k} -> StoredRevision] /\ DOMAIN writes = {k}
      /\ \A j \in {k} : writes[j].mod = rev /\ ~writes[j].deleted
  BY <1>2, <1>3
<1>5. Append_(writes, rev) /\ revision < MaxRevision /\ revision' = rev
  BY DEF Put
<1> HIDE DEF writes
<1>6. RecordStep({k}, writes)
  BY <1>4, <1>5 DEF RecordStep, Append_
<1> QED BY <1>6

\* A touch of a missing key takes a revision and appends nothing.
LEMMA TouchIsRecordStep ==
  ASSUME TypeOK, NothingAhead, NEW k \in Keys, Touch(k)
  PROVE  \E D, writes : RecordStep(D, writes)
<1>1. CASE IsCurrent(histories[k])
  <2>1. LastOf(histories[k]) \in StoredRevision /\ ~LastOf(histories[k]).deleted
    BY <1>1, LastOfType DEF TypeOK, IsCurrent
  <2>2. LastOf(histories[k]).value \in Values
    BY <2>1 DEF StoredRevision
  <2> QED BY <1>1, <2>2, PutIsRecordStep DEF Touch
<1>2. CASE ~IsCurrent(histories[k])
  <2> DEFINE none == [j \in {} |-> PutRecord(j, NoValue, 0)]
  <2>1. revision + 1 \in Revs /\ revision + 1 > revision
    BY EtcdAssumptions DEF Touch, TypeOK, Revs
  <2>2. log[revision + 1] = {}
    BY <2>1 DEF NothingAhead
  <2>3. log = [log EXCEPT ![revision + 1] = {EventOf(j, none[j]) : j \in {}}]
    BY <2>1, <2>2 DEF TypeOK
  <2>4. histories = [j \in Keys |-> IF j \in {} THEN appendRevision(histories[j], none[j])
                                    ELSE histories[j]]
    BY DEF TypeOK
  <2>5. none \in [{} -> StoredRevision]
    OBVIOUS
  <2> HIDE DEF none
  <2>6. RecordStep({}, none)
    BY <1>2, <2>3, <2>4, <2>5 DEF Touch, RecordStep
  <2> QED BY <2>6
<1> QED BY <1>1, <1>2

LEMMA DeleteIsRecordStep ==
  ASSUME TypeOK, NEW ks \in Ranges, Delete(ks)
  PROVE  \E D, writes : RecordStep(D, writes)
<1> DEFINE rev == revision + 1
           D == {k \in ks : IsCurrent(histories[k])}
           writes == [k \in D |-> DeleteRecord(k, rev)]
<1>1. rev \in Revs
  BY EtcdAssumptions DEF Delete, TypeOK, Revs
<1>2. D \subseteq Keys
  BY EtcdAssumptions
<1>3. \A k \in D : DeleteRecord(k, rev) \in StoredRevision /\ IsCurrent(histories[k])
  BY <1>1, <1>2, DeleteRecordType
<1>4. \A k \in D : DeleteRecord(k, rev).mod = rev
  BY DEF DeleteRecord
<1>5. /\ writes \in [D -> StoredRevision] /\ DOMAIN writes = D
      /\ \A k \in D : writes[k].mod = rev /\ IsCurrent(histories[k])
  BY <1>3, <1>4
<1>6. Append_(writes, rev) /\ revision < MaxRevision /\ revision' = rev
  BY DEF Delete
<1> HIDE DEF D, writes
<1>7. RecordStep(D, writes)
  BY <1>2, <1>5, <1>6 DEF RecordStep, Append_
<1> QED BY <1>7

\* A transaction that throws half way has appended the records up to there.
LEMMA TxnIsRecordStep ==
  ASSUME TypeOK, NEW t \in Txns, Txn(t)
  PROVE  \E D, writes : RecordStep(D, writes)
<1> DEFINE ops == IF \A c \in t.compare : evaluateCompare(c) THEN t.success ELSE t.failure
           rev == revision + 1
           ran == RunsUpTo(ops, rev)
           D == WrittenKeys(ops, ran)
           writes == TxnWrites(ops, ran, rev)
<1>1. /\ revision < MaxRevision
      /\ WriteRangesValid(ops)
      /\ revision' = rev
      /\ Append_(writes, rev)
  BY DEF Txn
<1>2. ops \in Seq(Operation)
  BY TxnAssumption
<1> HIDE DEF ops
<1>3. rev \in Revs /\ rev \in Nat
  BY <1>1, EtcdAssumptions DEF TypeOK, Revs
<1> HIDE DEF rev
<1>4. ran \in 0..Len(ops)
  BY <1>2, <1>3, RunsUpToIsDefined
<1> HIDE DEF ran
<1>5. /\ D \subseteq Keys
      /\ writes \in [D -> StoredRevision] /\ DOMAIN writes = D
      /\ \A k \in D : writes[k].deleted => IsCurrent(histories[k])
  BY <1>1, <1>2, <1>3, <1>4, TxnWritesType
<1>6. \A k \in D : writes[k].mod = rev
  BY DEF TxnWrites, PutRecord, DeleteRecord
<1> HIDE DEF D, writes
<1>7. RecordStep(D, writes)
  BY <1>1, <1>5, <1>6 DEF RecordStep, Append_, rev
<1> QED BY <1>7

LEMMA WriteIsRecordStep ==
  ASSUME TypeOK, NothingAhead, Write
  PROVE  \E D, writes : RecordStep(D, writes)
BY PutIsRecordStep, TouchIsRecordStep, DeleteIsRecordStep, TxnIsRecordStep DEF Write

LEMMA InitEstablishesRecords == Init => RecordInv
<1> SUFFICES ASSUME Init PROVE RecordInv
  OBVIOUS
<1>1. OneEventPerKey /\ PrevKvLinksEvents
  BY DEF Init, OneEventPerKey, PrevKvLinksEvents
<1>2. ASSUME NEW k \in Keys PROVE FollowsLog(k, histories[k], log, revision)
  <2>1. histories[k] = <<>> /\ \A r \in Revs : log[r] = {}
    BY DEF Init
  <2>2. 1..Len(histories[k]) = {}
    BY <2>1
  <2> QED BY <2>1, <2>2 DEF FollowsLog, Sorted
<1> QED BY <1>1, <1>2, InitEstablishesIInv DEF RecordInv

LEMMA NextKeepsRecords == RecordInv /\ [Next]_vars => RecordInv'
<1> SUFFICES ASSUME RecordInv, [Next]_vars PROVE RecordInv'
  OBVIOUS
<1>1. IInv /\ IInv' /\ TypeOK /\ NothingAhead
  BY NextKeepsIInv DEF RecordInv, IInv
<1>2. CASE Write
  <2>1. PICK D, writes : RecordStep(D, writes)
    BY <1>1, <1>2, WriteIsRecordStep
  <2>2. OneEventPerKey' /\ PrevKvLinksEvents'
    BY <2>1, RecordStepKeepsOneEvent, RecordStepLinks
  <2>3. \A k \in Keys : FollowsLog(k, histories[k], log, revision)'
    BY <2>1, RecordStepFollows
  <2> QED BY <1>1, <2>2, <2>3 DEF RecordInv
<1>3. CASE UNCHANGED <<revision, log, histories>>
  <2>1. OneEventPerKey' /\ \A k \in Keys : FollowsLog(k, histories[k], log, revision)'
    BY <1>3 DEF RecordInv, OneEventPerKey, FollowsLog, Sorted, Shows
  <2>2. PrevKvLinksEvents'
    <3>1. \A k : \A r \in Revs : LogValue(k, r - 1)' = LogValue(k, r - 1)
      BY <1>3, LogValueKept DEF Revs
    <3> QED BY <1>3, <3>1 DEF RecordInv, PrevKvLinksEvents
  <2> QED BY <1>1, <2>1, <2>2 DEF RecordInv
<1>4. Write \/ UNCHANGED <<revision, log, histories>>
  BY DEF Next, Tasks, Compact, Watch, Connect, Fail, End, CancelWatcher, Close, storeVars, vars
<1> QED BY <1>2, <1>3, <1>4

LEMMA RecordsGiveReads == RecordInv => ReadsFollowLog
<1> SUFFICES ASSUME RecordInv PROVE ReadsFollowLog
  OBVIOUS
<1>1. TypeOK /\ OneEventPerKey /\ \A k \in Keys : FollowsLog(k, histories[k], log, revision)
  BY DEF RecordInv, IInv
<1>2. CurrentReadsFollowLog
  <2> SUFFICES ASSUME revision > 0, NEW k \in Keys
               PROVE  resolveStoredValueAt(k, revision) = LogValue(k, revision)
    BY DEF CurrentReadsFollowLog
  <2> DEFINE s == histories[k]
             i == findRevisionAtOrBefore(s, revision)
  <2>1. revision \in Revs /\ revision <= revision /\ revision \in Nat
    BY <1>1, EtcdAssumptions DEF TypeOK, Revs
  <2>2. /\ i = 0 => resolveStoredValueAt(k, revision) = {}
        /\ i # 0 => resolveStoredValueAt(k, revision) = LogValue(k, revision)
    BY <1>1, <2>1, ReadTellsValue
  <2>3. CASE i = 0
    <3>1. s \in Seq(StoredRevision) /\ Len(s) \in Nat /\ Sorted(s)
      BY <1>1 DEF TypeOK, FollowsLog
    <3>2. \A j \in 1..Len(s) : s[j].mod <= revision /\ (s[j].mod <= revision <=> j <= i)
      BY <1>1, <2>1, <3>1, FindIsRight DEF FollowsLog
    <3> HIDE DEF i
    <3>3. s = <<>>
      <4>1. ~(1 \in 1..Len(s))
        BY <2>3, <3>2
      <4> QED BY <3>1, <4>1, EmptySeq
    <3>4. ~IsCurrent(s)
      BY <3>3 DEF IsCurrent
    <3>5. LogValue(k, revision) = {}
      BY <1>1, <3>4, LogValueNow
    <3> QED BY <2>2, <2>3, <3>5
  <2> HIDE DEF i
  <2> QED BY <2>2, <2>3
<1>3. HistoricalReadsSound
  <2> SUFFICES ASSUME NEW k \in Keys, NEW r \in ReadableRevisions
               PROVE  resolveStoredValueAt(k, r) \subseteq LogValue(k, r)
    BY DEF HistoricalReadsSound
  <2>1. r \in Revs /\ r <= revision
    BY DEF ReadableRevisions
  <2> QED BY <1>1, <2>1, ReadTellsValue
<1> QED BY <1>2, <1>3 DEF RecordInv, ReadsFollowLog

\* Reads tell what was written: the current value of a key is that of its
\* last event, although appendRevision keeps only its last records; an
\* answered historical read returns nothing the key did not hold then; and
\* prev_kv of every event is the value just before it.  No assumption on the
\* transactions is needed: one that throws half way keeps its records too.
THEOREM ReadsAreSound == Spec => []ReadsFollowLog
  BY InitEstablishesRecords, NextKeepsRecords, RecordsGiveReads, PTL DEF Spec
=============================================================================

-------------------------- MODULE ReplicaSetProofs --------------------------
(***************************************************************************)
(* Theorems about ReplicaSet and PodRanking: whatever its caches have not  *)
(* seen yet, the controller counts the pods it created and none that it    *)
(* deleted, and never creates more than its copy of the ReplicaSet asks    *)
(* for; of too many pods, those go that no remaining one comes before.     *)
(***************************************************************************)
EXTENDS ReplicaSet, PodRanking, FiniteSetTheorems, WellFoundedInduction, TLAPS

----
(* Types.                                                                  *)

PodType == [state : {"none", "active", "done", "deleting", "gone"},
            owned : BOOLEAN, match : BOOLEAN]
PodEvents == [pod : PodIds, obj : PodType]
Handled   == [pod : PodIds, old : PodType, new : PodType]
StatusType == [count : Nat, failed : BOOLEAN, observed : Nat]
RSType == [state : {"live", "deleting", "gone"}, replicas : Nat, gen : Nat, ver : Nat,
           status : StatusType]
RSCopies == RSType \cup {[state |-> "gone"]}
ExpType == [exists : BOOLEAN, add : Int, del : Int, uids : SUBSET PodIds]
WroteType == [rs : Nat, pods : Nat]
WorkerType ==
    [pc : {"idle", "claim", "manage", "create", "delete", "status", "reread", "again"},
     copy : RSCopies, needs : BOOLEAN, todo : SUBSET PodIds, claimed : SUBSET PodIds,
     canAdopt : {"unknown", "yes", "no"}, err : BOOLEAN, left : Nat, batch : Nat,
     calls : Nat, made : Nat, doing : SUBSET PodIds, body : Nat]

\* What the API server and the informers hold, and what the controller holds.
WorldTypeOK ==
    /\ rs \in RSType /\ rsCache \in RSType /\ rsEvents \in Seq(RSType)
    /\ pods \in [PodIds -> PodType] /\ podCache \in [PodIds -> PodType]
    /\ podEvents \in Seq(PodEvents) /\ handling \in Seq(Handled)
    /\ wrote \in WroteType
WorkTypeOK ==
    /\ exp \in ExpType /\ worker \in WorkerType
    /\ worker.pc # "idle" => worker.copy \in RSType
    /\ doomed \subseteq PodIds

----
(* The invariant.                                                          *)

\* No event follows the one that says the ReplicaSet is gone.
GoneIsLast ==
    /\ rsCache.state = "gone" => rsEvents = <<>> /\ rs.state = "gone"
    /\ \A i \in 1 .. Len(rsEvents) :
           rsEvents[i].state = "gone" => i = Len(rsEvents) /\ rs.state = "gone"

\* w is a later version of a pod than v: it is not active, or its labels do not
\* match, once that is so.
After(v, w) ==
    /\ w.state # "none"
    /\ v.state = "none" \/ ((Active(w) => Active(v)) /\ (w.match => v.match))

\* What the indexer holds of a pod, its events in their order and what the API
\* server holds are versions of it, each after the one before.
VersionsFollow ==
    /\ \A p \in PodIds : IF pods[p].state = "none" THEN podCache[p].state = "none"
                         ELSE After(podCache[p], pods[p])
    /\ \A i \in 1 .. Len(podEvents) :
           /\ After(podCache[podEvents[i].pod], podEvents[i].obj)
           /\ After(podEvents[i].obj, pods[podEvents[i].pod])
    /\ \A i, j \in 1 .. Len(podEvents) :
           i < j /\ podEvents[i].pod = podEvents[j].pod => After(podEvents[i].obj, podEvents[j].obj)

\* A deletion that is being handled is indexed.
Passed(p) == podCache[p].state \notin {"none", "active"}
HandledIsIndexed ==
    \A i \in 1 .. Len(handling) :
        handling[i].new.state \in {"deleting", "gone"} => Passed(handling[i].pod)

\* A pod that is not indexed has an event that the consistency store waits for.
OwnWritesCome ==
    InCache => \A p \in PodIds :
        pods[p].state # "none" /\ podCache[p].state = "none" =>
            \E i \in 1 .. Len(podEvents) : i <= wrote.pods /\ podEvents[i].pod = p

LogInv ==
    /\ WorldTypeOK /\ GoneIsLast /\ VersionsFollow /\ HandledIsIndexed /\ OwnWritesCome

\* The expectations count their keys, and a deleted pod that is indexed as active
\* is one of them.
KnownPods == worker.todo \cup worker.claimed \cup worker.doing \cup doomed
ExpectationsHold ==
    /\ exp.del = Cardinality(exp.uids) /\ (~exp.exists => exp.uids = {})
    /\ \A p \in KnownPods : podCache[p].state # "none"
    /\ InCache => \A p \in doomed : Active(podCache[p]) => p \in exp.uids

\* A sync that may create or delete has seen all deletions of the one before.
MayManage == worker.pc \in {"manage", "create"} \/ (worker.pc = "claim" /\ worker.needs)
NothingDoomed ==
    /\ MayManage => /\ exp.uids = {}
                    /\ \A p \in doomed : ~Active(podCache[p])
                    /\ \A p \in doomed : p \notin worker.todo /\ p \notin worker.claimed
    /\ worker.pc = "delete" =>
           /\ \A p \in doomed : p \notin worker.doing
           /\ InCache => \A p \in worker.doing : Active(podCache[p]) => p \in exp.uids
    /\ worker.pc # "delete" => worker.doing = {}

\* The worker counts every pod of the ReplicaSet, but for those it just created.
MyPods == {p \in PodIds : Mine(p)}
ToCreate == Least(-Diff, Burst)
AllCounted ==
    /\ worker.pc = "claim" /\ ~worker.err /\ worker.copy.state = "live" =>
           MyPods \subseteq worker.todo \cup worker.claimed
    /\ worker.pc \in {"manage", "delete"} => MyPods \subseteq worker.claimed
    /\ worker.pc \in {"claim", "manage"} => worker.made = 0
    /\ worker.pc = "create" =>
           /\ Cardinality(MyPods \ worker.claimed) <= worker.made
           /\ Diff < 0 /\ worker.calls <= worker.batch /\ worker.batch <= worker.left
           /\ worker.made <= ToCreate - worker.left + worker.batch - worker.calls

WorkInv == WorkTypeOK /\ ExpectationsHold /\ NothingDoomed /\ AllCounted

RSInv == LogInv /\ WorkInv

----
(* Numbers, sets and sequences.                                            *)

LEMMA MinIsIn ==
    ASSUME NEW S \in SUBSET Nat, S # {}
    PROVE  Min(S) \in S
<1>1. PICK i \in S : \A j \in S : ~(<<j, i>> \in OpToRel(<, Nat))
  BY NatLessThanWellFounded, WFMin
<1>2. \A j \in S : ~(j < i)
  BY <1>1 DEF OpToRel
<1>3. \A j \in S : i <= j
  BY <1>2
<1> QED BY <1>3 DEF Min

LEMMA PodIdsAreFinite == PodIds \in SUBSET Nat /\ IsFiniteSet(PodIds)
<1>1. MaxPods \in Nat /\ 1 \in Int /\ MaxPods \in Int
  BY ReplicaSetAssumption
<1> QED BY <1>1, FS_Interval DEF PodIds

LEMMA PodSets ==
    ASSUME NEW S \in SUBSET PodIds
    PROVE  /\ IsFiniteSet(S) /\ Cardinality(S) \in Nat
           /\ S # {} => Min(S) \in S
<1>1. IsFiniteSet(S)
  BY PodIdsAreFinite, FS_Subset
<1> QED BY <1>1, PodIdsAreFinite, FS_CardinalityType, MinIsIn

LEMMA AppendFacts ==
    ASSUME NEW S, NEW s \in Seq(S), NEW x \in S
    PROVE  /\ Append(s, x) \in Seq(S) /\ Len(Append(s, x)) = Len(s) + 1 /\ Len(s) \in Nat
           /\ \A i \in 1 .. Len(s) : Append(s, x)[i] = s[i] /\ s[i] \in S
           /\ Append(s, x)[Len(s) + 1] = x
  OBVIOUS

LEMMA TailFacts ==
    ASSUME NEW S, NEW s \in Seq(S), s # <<>>
    PROVE  /\ Tail(s) \in Seq(S) /\ Len(Tail(s)) = Len(s) - 1 /\ Len(s) \in Nat \ {0}
           /\ Head(s) = s[1] /\ Head(s) \in S
           /\ \A i \in 1 .. Len(Tail(s)) : Tail(s)[i] = s[i + 1] /\ s[i + 1] \in S
  OBVIOUS

LEMMA AfterIsTransitive ==
    ASSUME NEW u, NEW v, NEW w, After(u, v), After(v, w)
    PROVE  After(u, w)
  BY DEF After

----
(* What the API server and the informers do.                               *)

LEMMA LogStays ==
    ASSUME LogInv, UNCHANGED <<rs, pods, rsEvents, podEvents, rsCache, podCache, handling, wrote>>
    PROVE  LogInv'
  BY DEF LogInv, WorldTypeOK, GoneIsLast, VersionsFollow, HandledIsIndexed, Passed, OwnWritesCome,
         InCache

\* A pod is written: created, in which case the consistency store waits for all
\* that is to come, or changed into a later version.
LEMMA WritePodKeeps ==
    ASSUME LogInv, NEW p \in PodIds, NEW w \in PodType, WritePod(p, w), After(pods[p], w),
           UNCHANGED <<rs, rsEvents, rsCache, podCache, handling>>, wrote' \in WroteType,
           (wrote' = wrote /\ pods[p].state # "none") \/ wrote'.pods = Len(podEvents')
    PROVE  LogInv'
<1> DEFINE e == [pod |-> p, obj |-> w]
           n == Len(podEvents)
<1>1. /\ pods \in [PodIds -> PodType] /\ podCache \in [PodIds -> PodType]
      /\ podEvents \in Seq(PodEvents) /\ e \in PodEvents /\ e.pod = p /\ e.obj = w
  BY DEF LogInv, WorldTypeOK, PodEvents
<1>2. /\ pods' = [pods EXCEPT ![p] = w] /\ podEvents' = Append(podEvents, e)
  BY DEF WritePod
<1> HIDE DEF e
<1>3. /\ podEvents' \in Seq(PodEvents) /\ Len(podEvents') = n + 1 /\ n \in Nat
      /\ \A i \in 1 .. n : podEvents'[i] = podEvents[i] /\ podEvents[i] \in PodEvents
      /\ podEvents'[n + 1] = e
  BY <1>1, <1>2, AppendFacts
<1> HIDE DEF n
<1>4. /\ pods' \in [PodIds -> PodType] /\ pods'[p] = w
      /\ \A q \in PodIds : q # p => pods'[q] = pods[q]
  BY <1>1, <1>2
<1>5. WorldTypeOK'
  BY <1>3, <1>4 DEF LogInv, WorldTypeOK
<1>6. GoneIsLast' /\ HandledIsIndexed'
  BY DEF LogInv, GoneIsLast, HandledIsIndexed, Passed
<1>7. \A i \in 1 .. n : podEvents[i].pod \in PodIds
  BY <1>3 DEF PodEvents
<1>8. VersionsFollow'
  <2>1. \A q \in PodIds : IF pods'[q].state = "none" THEN podCache'[q].state = "none"
                          ELSE After(podCache'[q], pods'[q])
    <3>1. w.state # "none"
      BY DEF After
    <3>2. After(podCache[p], w)
      <4>1. CASE pods[p].state = "none"
        BY <3>1, <4>1 DEF LogInv, VersionsFollow, After
      <4>2. CASE pods[p].state # "none"
        BY <4>2, AfterIsTransitive DEF LogInv, VersionsFollow
      <4> QED BY <4>1, <4>2
    <3> QED BY <1>4, <3>1, <3>2 DEF LogInv, VersionsFollow
  <2>2. \A i \in 1 .. n : podEvents[i].pod = p => After(podEvents[i].obj, w)
    BY <1>7, AfterIsTransitive DEF LogInv, VersionsFollow, n
  <2>3. \A i \in 1 .. Len(podEvents') :
           /\ After(podCache'[podEvents'[i].pod], podEvents'[i].obj)
           /\ After(podEvents'[i].obj, pods'[podEvents'[i].pod])
    <3>1. ASSUME NEW i \in 1 .. n
          PROVE  /\ After(podCache'[podEvents'[i].pod], podEvents'[i].obj)
                 /\ After(podEvents'[i].obj, pods'[podEvents'[i].pod])
      BY <1>3, <1>4, <1>7, <2>2 DEF LogInv, VersionsFollow, n
    <3>2. After(podCache'[p], w) /\ After(w, w)
      BY <1>4, <2>1 DEF After
    <3> QED BY <1>1, <1>3, <1>4, <3>1, <3>2
  <2>4. \A i, j \in 1 .. Len(podEvents') :
           i < j /\ podEvents'[i].pod = podEvents'[j].pod =>
               After(podEvents'[i].obj, podEvents'[j].obj)
    <3>1. ASSUME NEW i \in 1 .. n + 1, NEW j \in 1 .. n + 1, i < j,
                 podEvents'[i].pod = podEvents'[j].pod
          PROVE  After(podEvents'[i].obj, podEvents'[j].obj)
      <4>1. i \in 1 .. n /\ podEvents'[i] = podEvents[i]
        BY <1>3, <3>1
      <4>2. CASE j = n + 1
        BY <1>1, <1>3, <2>2, <3>1, <4>1, <4>2
      <4>3. CASE j \in 1 .. n
        BY <1>3, <3>1, <4>1, <4>3 DEF LogInv, VersionsFollow, n
      <4> QED BY <1>3, <4>2, <4>3
    <3> QED BY <1>3, <3>1
  <2> QED BY <2>1, <2>3, <2>4 DEF VersionsFollow
<1>9. OwnWritesCome'
  <2>1. SUFFICES ASSUME InCache, NEW q \in PodIds, pods'[q].state # "none", podCache[q].state = "none"
                 PROVE  \E i \in 1 .. Len(podEvents') : i <= wrote'.pods /\ podEvents'[i].pod = q
    BY DEF OwnWritesCome, InCache
  <2>2. CASE pods[q].state # "none"
    <3>1. PICK i \in 1 .. n : i <= wrote.pods /\ podEvents[i].pod = q
      BY <2>1, <2>2 DEF LogInv, OwnWritesCome, n
    <3>2. i \in 1 .. Len(podEvents') /\ podEvents'[i].pod = q /\ i <= Len(podEvents')
      BY <1>3, <3>1
    <3> QED BY <3>1, <3>2
  <2>3. CASE pods[q].state = "none"
    <3>1. q = p /\ wrote'.pods = n + 1
      BY <1>3, <1>4, <2>1, <2>3
    <3>2. n + 1 \in 1 .. Len(podEvents') /\ n + 1 <= wrote'.pods /\ podEvents'[n + 1].pod = q
      BY <1>1, <1>3, <3>1
    <3> QED BY <3>2
  <2> QED BY <2>2, <2>3
<1> QED BY <1>5, <1>6, <1>8, <1>9 DEF LogInv

LEMMA WriteRSKeeps ==
    ASSUME LogInv, rs.state # "gone", NEW new \in RSType, WriteRS(new),
           UNCHANGED <<pods, podEvents, rsCache, podCache, handling>>,
           wrote' \in WroteType, wrote'.pods = wrote.pods
    PROVE  LogInv'
<1> DEFINE n == Len(rsEvents)
<1>1. rs \in RSType /\ rsEvents \in Seq(RSType)
  BY DEF LogInv, WorldTypeOK
<1>2. rs' \in RSType
  <2>1. rs.ver + 1 \in Nat
    BY <1>1 DEF RSType
  <2>2. rs' = [new EXCEPT !.ver = rs.ver + 1]
    BY DEF WriteRS
  <2> QED BY <2>1, <2>2 DEF RSType
<1>3. /\ rsEvents' \in Seq(RSType) /\ Len(rsEvents') = n + 1 /\ n \in Nat
      /\ \A i \in 1 .. n : rsEvents'[i] = rsEvents[i]
      /\ rsEvents'[n + 1] = rs'
  BY <1>1, <1>2, AppendFacts DEF WriteRS
<1>4. rsCache.state # "gone" /\ \A i \in 1 .. n : rsEvents[i].state # "gone"
  BY DEF LogInv, GoneIsLast
<1> HIDE DEF n
<1>5. WorldTypeOK'
  BY <1>2, <1>3 DEF LogInv, WorldTypeOK
<1>6. GoneIsLast'
  <2>1. ASSUME NEW i \in 1 .. n + 1, rsEvents'[i].state = "gone"
        PROVE  i = n + 1 /\ rs'.state = "gone"
    BY <1>3, <1>4, <2>1
  <2> QED BY <1>3, <1>4, <2>1 DEF GoneIsLast
<1>7. VersionsFollow' /\ HandledIsIndexed'
  BY DEF LogInv, VersionsFollow, HandledIsIndexed, Passed
<1>8. OwnWritesCome'
  BY DEF LogInv, OwnWritesCome, InCache
<1> QED BY <1>5, <1>6, <1>7, <1>8 DEF LogInv

LEMMA HandleRSKeepsLog == ASSUME LogInv, HandleRS PROVE LogInv' /\ (InCache' => InCache)
<1> DEFINE n == Len(rsEvents)
<1>1. /\ rsEvents \in Seq(RSType) /\ rsEvents # <<>> /\ rsCache' = Head(rsEvents)
      /\ rsEvents' = Tail(rsEvents)
      /\ UNCHANGED <<rs, pods, podEvents, podCache, handling>>
  BY DEF LogInv, WorldTypeOK, HandleRS
<1>2. /\ rsEvents' \in Seq(RSType) /\ Len(rsEvents') = n - 1 /\ n \in Nat \ {0}
      /\ rsCache' = rsEvents[1] /\ rsCache' \in RSType
      /\ \A i \in 1 .. n - 1 : rsEvents'[i] = rsEvents[i + 1]
  BY <1>1, TailFacts
<1>3. rsCache.state # "gone"
  BY <1>1 DEF LogInv, GoneIsLast
<1>4. /\ wrote' \in WroteType
      /\ rsCache'.state # "gone" => wrote'.pods = wrote.pods
  BY DEF HandleRS, LogInv, WorldTypeOK, WroteType, Seen
<1>5. WorldTypeOK'
  BY <1>1, <1>2, <1>4 DEF LogInv, WorldTypeOK
<1>6. GoneIsLast'
  <2>1. \A i \in 1 .. n : rsEvents[i].state = "gone" => i = n /\ rs.state = "gone"
    BY DEF LogInv, GoneIsLast
  <2>2. rsCache'.state = "gone" => n = 1 /\ rs.state = "gone"
    BY <1>2, <2>1
  <2>3. n = 1 => rsEvents' = <<>>
    BY <1>2
  <2>4. \A i \in 1 .. n - 1 : rsEvents'[i].state = "gone" => i = n - 1 /\ rs.state = "gone"
    <3>1. ASSUME NEW i \in 1 .. n - 1, rsEvents'[i].state = "gone"
          PROVE  i = n - 1 /\ rs.state = "gone"
      <4>1. i + 1 \in 1 .. n /\ rsEvents[i + 1].state = "gone"
        BY <1>2, <3>1
      <4> QED BY <1>2, <2>1, <4>1
    <3> QED BY <3>1
  <2> QED BY <1>1, <1>2, <2>2, <2>3, <2>4 DEF GoneIsLast
<1>7. VersionsFollow' /\ HandledIsIndexed'
  BY <1>1 DEF LogInv, VersionsFollow, HandledIsIndexed, Passed
<1>8. OwnWritesCome'
  BY <1>1, <1>3, <1>4 DEF LogInv, OwnWritesCome, InCache
<1> QED BY <1>3, <1>5, <1>6, <1>7, <1>8 DEF LogInv, InCache

LEMMA IndexPodKeepsLog ==
    ASSUME LogInv, IndexPod
    PROVE  /\ LogInv'
           /\ \A p \in PodIds : podCache[p].state # "none" =>
                  podCache'[p].state # "none" /\ (Active(podCache'[p]) => Active(podCache[p]))
<1> DEFINE n == Len(podEvents)
           e == Head(podEvents)
           m == Len(handling)
           h == [pod |-> e.pod, old |-> podCache[e.pod], new |-> e.obj]
<1>1. /\ pods \in [PodIds -> PodType] /\ podCache \in [PodIds -> PodType]
      /\ podEvents \in Seq(PodEvents) /\ handling \in Seq(Handled) /\ wrote \in WroteType
      /\ podEvents # <<>>
  BY DEF LogInv, WorldTypeOK, IndexPod
<1>2. /\ podCache' = [podCache EXCEPT ![e.pod] = e.obj]
      /\ handling' = Append(handling, h)
      /\ podEvents' = Tail(podEvents)
      /\ wrote' = [wrote EXCEPT !.pods = Seen(wrote.pods)]
      /\ UNCHANGED <<rs, pods, rsEvents, rsCache>>
  BY DEF IndexPod
<1>3. /\ podEvents' \in Seq(PodEvents) /\ Len(podEvents') = n - 1 /\ n \in Nat \ {0}
      /\ e = podEvents[1] /\ e \in PodEvents
      /\ \A i \in 1 .. n - 1 : podEvents'[i] = podEvents[i + 1]
  BY <1>1, <1>2, TailFacts
<1>4. e.pod \in PodIds /\ e.obj \in PodType
  BY <1>3 DEF PodEvents
<1>5. h \in Handled /\ h.pod = e.pod /\ h.new = e.obj
  BY <1>1, <1>4 DEF Handled
<1>6. /\ podCache' \in [PodIds -> PodType] /\ podCache'[e.pod] = e.obj
      /\ \A q \in PodIds : q # e.pod => podCache'[q] = podCache[q]
  BY <1>1, <1>2, <1>4
<1>7. /\ wrote' \in WroteType
      /\ wrote.pods \in Nat /\ wrote'.pods = Seen(wrote.pods)
  <2>1. wrote.pods \in Nat /\ wrote' = [wrote EXCEPT !.pods = Seen(wrote.pods)]
    BY <1>1, <1>2 DEF WroteType
  <2>2. Seen(wrote.pods) \in Nat
    BY <2>1 DEF Seen
  <2> QED BY <1>1, <2>1, <2>2 DEF WroteType
<1> HIDE DEF e, h
<1>8. /\ handling' \in Seq(Handled) /\ Len(handling') = m + 1 /\ m \in Nat
      /\ \A i \in 1 .. m : handling'[i] = handling[i] /\ handling[i] \in Handled
      /\ handling'[m + 1] = h
  BY <1>1, <1>2, <1>5, AppendFacts
<1>9. After(podCache[e.pod], e.obj) /\ After(e.obj, pods[e.pod])
  BY <1>3 DEF LogInv, VersionsFollow
<1>10. \A j \in 1 .. n : 1 < j /\ podEvents[j].pod = e.pod => After(e.obj, podEvents[j].obj)
  BY <1>3 DEF LogInv, VersionsFollow
<1>11. /\ \A i \in 1 .. n - 1 : i + 1 \in 1 .. n /\ 1 < i + 1
       /\ \A i, j \in 1 .. n - 1 : i < j => i + 1 < j + 1
  BY <1>3
<1>12. \A p \in PodIds : podCache[p].state # "none" =>
           podCache'[p].state # "none" /\ (Active(podCache'[p]) => Active(podCache[p]))
  BY <1>6, <1>9 DEF After
<1>13. WorldTypeOK'
  BY <1>2, <1>3, <1>6, <1>7, <1>8 DEF LogInv, WorldTypeOK
<1>14. GoneIsLast'
  BY <1>2 DEF LogInv, GoneIsLast
<1>15. VersionsFollow'
  <2>1. \A q \in PodIds : IF pods'[q].state = "none" THEN podCache'[q].state = "none"
                          ELSE After(podCache'[q], pods'[q])
    <3>1. pods[e.pod].state # "none"
      BY <1>9 DEF After
    <3> QED BY <1>2, <1>6, <1>9, <3>1 DEF LogInv, VersionsFollow
  <2>2. ASSUME NEW i \in 1 .. n - 1
        PROVE  /\ After(podCache'[podEvents'[i].pod], podEvents'[i].obj)
               /\ After(podEvents'[i].obj, pods'[podEvents'[i].pod])
    <3>1. /\ i + 1 \in 1 .. n /\ podEvents'[i] = podEvents[i + 1]
          /\ After(podCache[podEvents[i + 1].pod], podEvents[i + 1].obj)
          /\ After(podEvents[i + 1].obj, pods[podEvents[i + 1].pod])
          /\ podEvents[i + 1].pod = e.pod => After(e.obj, podEvents[i + 1].obj)
      BY <1>3, <1>10, <1>11 DEF LogInv, VersionsFollow
    <3>2. podEvents[i + 1].pod \in PodIds
      <4>1. podEvents[i + 1] \in PodEvents
        BY <1>1, <3>1
      <4> QED BY <4>1 DEF PodEvents
    <3> QED BY <1>2, <1>6, <3>1, <3>2
  <2>3. ASSUME NEW i \in 1 .. n - 1, NEW j \in 1 .. n - 1, i < j,
               podEvents'[i].pod = podEvents'[j].pod
        PROVE  After(podEvents'[i].obj, podEvents'[j].obj)
    <3>1. /\ i + 1 \in 1 .. n /\ j + 1 \in 1 .. n /\ i + 1 < j + 1
          /\ podEvents'[i] = podEvents[i + 1] /\ podEvents'[j] = podEvents[j + 1]
      BY <1>3, <1>11, <2>3
    <3> QED BY <2>3, <3>1 DEF LogInv, VersionsFollow
  <2> QED BY <1>3, <2>1, <2>2, <2>3 DEF VersionsFollow
<1>16. HandledIsIndexed'
  <2>1. ASSUME NEW i \in 1 .. m, handling[i].new.state \in {"deleting", "gone"}
        PROVE  podCache'[handling[i].pod].state \notin {"none", "active"}
    <3>1. handling[i].pod \in PodIds /\ podCache[handling[i].pod].state \notin {"none", "active"}
      BY <1>8, <2>1 DEF LogInv, HandledIsIndexed, Passed, Handled
    <3> QED BY <1>12, <3>1 DEF Active
  <2>2. h.new.state \in {"deleting", "gone"} => podCache'[h.pod].state \notin {"none", "active"}
    BY <1>5, <1>6
  <2> QED BY <1>8, <2>1, <2>2 DEF HandledIsIndexed, Passed
<1>17. OwnWritesCome'
  <2>1. SUFFICES ASSUME InCache, NEW q \in PodIds, pods[q].state # "none", podCache'[q].state = "none"
                 PROVE  \E i \in 1 .. n - 1 : i <= wrote'.pods /\ podEvents'[i].pod = q
    BY <1>2, <1>3 DEF OwnWritesCome, InCache
  <2>2. q # e.pod
    BY <1>6, <1>9, <2>1 DEF After
  <2>3. PICK i \in 1 .. n : i <= wrote.pods /\ podEvents[i].pod = q
    BY <1>6, <2>1, <2>2 DEF LogInv, OwnWritesCome
  <2>4. i # 1 /\ i - 1 \in 1 .. n - 1 /\ i = (i - 1) + 1
    BY <1>3, <2>2, <2>3
  <2>5. podEvents'[i - 1] = podEvents[i] /\ i - 1 <= wrote'.pods
    BY <1>3, <1>7, <2>3, <2>4 DEF Seen
  <2> QED BY <2>3, <2>4, <2>5
<1> QED BY <1>12, <1>13, <1>14, <1>15, <1>16, <1>17 DEF LogInv

LEMMA HandlePodKeepsLog == ASSUME LogInv, HandlePod PROVE LogInv'
<1>1. /\ handling \in Seq(Handled) /\ handling # <<>> /\ handling' = Tail(handling)
      /\ UNCHANGED <<rs, pods, rsEvents, podEvents, rsCache, podCache, wrote>>
  BY DEF LogInv, WorldTypeOK, HandlePod, apiVars
<1>2. /\ handling' \in Seq(Handled) /\ Len(handling') = Len(handling) - 1
      /\ Len(handling) \in Nat \ {0}
      /\ \A i \in 1 .. Len(handling') : handling'[i] = handling[i + 1]
  BY <1>1, TailFacts
<1>3. HandledIsIndexed'
  <2>1. \A i \in 1 .. Len(handling') : i + 1 \in 1 .. Len(handling)
    BY <1>2
  <2> QED BY <1>1, <1>2, <2>1 DEF LogInv, HandledIsIndexed, Passed
<1> QED
  BY <1>1, <1>2, <1>3 DEF LogInv, WorldTypeOK, GoneIsLast, VersionsFollow, OwnWritesCome, InCache

----
(* What that means for the worker.                                         *)

\* Nothing the worker counts appears, nothing it deleted comes back.
LEMMA WorldMoves ==
    ASSUME WorkInv, UNCHANGED <<worker, doomed>>, exp' \in ExpType,
           \A p \in PodIds : podCache[p].state # "none" =>
               podCache'[p].state # "none" /\ (Active(podCache'[p]) => Active(podCache[p])),
           InCache' => InCache, MyPods' \subseteq MyPods,
           exp'.uids \subseteq exp.uids, exp'.del = Cardinality(exp'.uids),
           ~exp'.exists => exp'.uids = {},
           \A p \in exp.uids : p \notin exp'.uids => ~InCache' \/ ~Active(podCache'[p])
    PROVE  WorkInv'
<1>1. WorkTypeOK /\ worker' = worker /\ doomed' = doomed
  BY DEF WorkInv
<1>2. KnownPods \subseteq PodIds /\ KnownPods' = KnownPods
  BY <1>1 DEF KnownPods, WorkTypeOK, WorkerType
<1>3. \A p \in KnownPods : podCache'[p].state # "none" /\ (Active(podCache'[p]) => Active(podCache[p]))
  BY <1>2 DEF WorkInv, ExpectationsHold
<1>4. doomed \subseteq KnownPods /\ worker.doing \subseteq KnownPods
  BY DEF KnownPods
<1>5. WorkTypeOK'
  BY <1>1 DEF WorkTypeOK
<1>6. ExpectationsHold'
  <2>1. ASSUME InCache', NEW p \in doomed, Active(podCache'[p]) PROVE p \in exp'.uids
    <3>1. p \in exp.uids
      BY <1>3, <1>4, <2>1 DEF WorkInv, ExpectationsHold
    <3>2. p \in PodIds
      BY <1>2, <1>4
    <3> QED BY <2>1, <3>1
  <2> QED BY <1>1, <1>2, <1>3, <2>1 DEF ExpectationsHold
<1>7. NothingDoomed'
  <2>1. MayManage' <=> MayManage
    BY <1>1 DEF MayManage
  <2>2. MayManage' => /\ exp'.uids = {}
                      /\ \A p \in doomed' : ~Active(podCache'[p])
                      /\ \A p \in doomed' : p \notin worker'.todo /\ p \notin worker'.claimed
    BY <1>1, <1>3, <1>4, <2>1 DEF WorkInv, NothingDoomed
  <2>3. ASSUME worker.pc = "delete", InCache', NEW p \in worker.doing, Active(podCache'[p])
        PROVE  p \in exp'.uids
    <3>1. p \in exp.uids
      BY <1>3, <1>4, <2>3 DEF WorkInv, NothingDoomed
    <3> QED BY <2>3, <3>1
  <2> QED BY <1>1, <2>2, <2>3 DEF WorkInv, NothingDoomed
<1>8. AllCounted'
  <2>1. /\ (MyPods \ worker.claimed) \in SUBSET PodIds
        /\ (MyPods' \ worker.claimed) \in SUBSET PodIds
    BY DEF MyPods
  <2>2. Cardinality(MyPods' \ worker.claimed) <= Cardinality(MyPods \ worker.claimed)
    <3>1. (MyPods' \ worker.claimed) \in SUBSET (MyPods \ worker.claimed)
      OBVIOUS
    <3> QED BY <2>1, <3>1, PodSets, FS_Subset
  <2>3. /\ Cardinality(MyPods' \ worker.claimed) \in Nat
        /\ Cardinality(MyPods \ worker.claimed) \in Nat
    BY <2>1, PodSets
  <2>4. worker.made \in Nat
    BY <1>1 DEF WorkTypeOK, WorkerType
  <2> DEFINE before == Cardinality(MyPods \ worker.claimed)
             after  == Cardinality(MyPods' \ worker.claimed)
  <2> HIDE DEF before, after
  <2>5. before <= worker.made => after <= worker.made
    BY <2>2, <2>3, <2>4 DEF before, after
  <2>6. worker'.pc = "create" =>
          /\ Cardinality(MyPods' \ worker'.claimed) <= worker'.made
          /\ Diff' < 0 /\ worker'.calls <= worker'.batch /\ worker'.batch <= worker'.left
          /\ worker'.made <= ToCreate' - worker'.left + worker'.batch - worker'.calls
    BY <1>1, <2>5 DEF WorkInv, AllCounted, Diff, ToCreate, before, after
  <2> QED BY <1>1, <2>6 DEF WorkInv, AllCounted
<1> QED BY <1>5, <1>6, <1>7, <1>8 DEF WorkInv

LEMMA ObservedDeletion ==
    ASSUME NEW e \in ExpType, e.del = Cardinality(e.uids), ~e.exists => e.uids = {},
           NEW p \in PodIds, NEW f, f = DeletionObserved(e, p)
    PROVE  /\ f \in ExpType /\ f.uids = e.uids \ {p} /\ f.del = Cardinality(f.uids)
           /\ f.add = e.add /\ (f.exists <=> e.exists)
<1>1. IsFiniteSet(e.uids) /\ Cardinality(e.uids) \in Nat
  BY PodSets DEF ExpType
<1>2. CASE p \notin e.uids
  <2>1. f = e
    BY <1>2 DEF DeletionObserved
  <2> QED BY <1>2, <2>1
<1>3. CASE p \in e.uids
  <2>1. e.exists
    BY <1>3
  <2>2. f = [e EXCEPT !.uids = e.uids \ {p}, !.del = e.del - 1]
    BY <1>3, <2>1 DEF DeletionObserved
  <2>3. /\ f \in ExpType /\ f.uids = e.uids \ {p} /\ f.del = e.del - 1
        /\ f.add = e.add /\ (f.exists <=> e.exists)
    <3>1. e.uids \ {p} \in SUBSET PodIds /\ e.del - 1 \in Int
      BY DEF ExpType
    <3> QED BY <2>2, <3>1 DEF ExpType
  <2>4. Cardinality(e.uids \ {p}) = Cardinality(e.uids) - 1
    BY <1>1, <1>3, FS_RemoveElement
  <2> QED BY <2>3, <2>4
<1> QED BY <1>2, <1>3

LEMMA NoExpHolds == NoExp \in ExpType /\ NoExp.uids = {} /\ NoExp.del = Cardinality(NoExp.uids)
  BY FS_EmptySet DEF NoExp, ExpType

\* A pod that is written may stop to be the ReplicaSet's.
LEMMA FewerPods ==
    ASSUME LogInv, NEW p \in PodIds, NEW w \in PodType, WritePod(p, w),
           Active(w) /\ w.owned /\ w.match => Mine(p)
    PROVE  MyPods' \subseteq MyPods
<1>1. pods \in [PodIds -> PodType] /\ pods' = [pods EXCEPT ![p] = w]
  BY DEF LogInv, WorldTypeOK, WritePod
<1>2. pods'[p] = w /\ \A q \in PodIds : q # p => pods'[q] = pods[q]
  BY <1>1
<1> QED BY <1>2 DEF MyPods, Mine

LEMMA HandleRSKeeps == ASSUME RSInv, HandleRS PROVE RSInv'
<1>1. LogInv' /\ (InCache' => InCache)
  BY HandleRSKeepsLog DEF RSInv
<1>2. UNCHANGED <<worker, doomed, pods, podCache>>
  BY DEF HandleRS
<1>3. (~InCache' /\ exp' = NoExp) \/ exp' = exp
  BY DEF HandleRS, InCache
<1>4. /\ exp \in ExpType /\ exp.del = Cardinality(exp.uids) /\ (~exp.exists => exp.uids = {})
  BY DEF RSInv, WorkInv, WorkTypeOK, ExpectationsHold
<1>5. /\ exp' \in ExpType /\ exp'.del = Cardinality(exp'.uids) /\ (~exp'.exists => exp'.uids = {})
      /\ exp'.uids \subseteq exp.uids
      /\ \A p \in exp.uids : p \notin exp'.uids => ~InCache' \/ ~Active(podCache'[p])
  BY <1>3, <1>4, NoExpHolds
<1>6. MyPods' = MyPods
  BY <1>2 DEF MyPods, Mine
<1>7. WorkInv'
  BY <1>1, <1>2, <1>5, <1>6, WorldMoves DEF RSInv
<1> QED BY <1>1, <1>7 DEF RSInv

LEMMA IndexPodKeeps == ASSUME RSInv, IndexPod PROVE RSInv'
<1>1. /\ LogInv'
      /\ \A p \in PodIds : podCache[p].state # "none" =>
             podCache'[p].state # "none" /\ (Active(podCache'[p]) => Active(podCache[p]))
  BY IndexPodKeepsLog DEF RSInv
<1>2. UNCHANGED <<worker, doomed, exp, pods, rsCache>>
  BY DEF IndexPod
<1>3. MyPods' = MyPods /\ (InCache' <=> InCache)
  BY <1>2 DEF MyPods, Mine, InCache
<1>4. /\ exp \in ExpType /\ exp.del = Cardinality(exp.uids) /\ (~exp.exists => exp.uids = {})
  BY DEF RSInv, WorkInv, WorkTypeOK, ExpectationsHold
<1>5. WorkInv'
  BY <1>1, <1>2, <1>3, <1>4, WorldMoves DEF RSInv
<1> QED BY <1>1, <1>5 DEF RSInv

LEMMA HandlePodKeeps == ASSUME RSInv, HandlePod PROVE RSInv'
<1> DEFINE h == Head(handling)
<1>1. /\ UNCHANGED <<worker, doomed, pods, podCache, rsCache>>
      /\ handling \in Seq(Handled) /\ handling # <<>>
  BY DEF HandlePod, apiVars, RSInv, LogInv, WorldTypeOK
<1>2. h \in Handled /\ Len(handling) \in Nat \ {0} /\ h = handling[1]
  BY <1>1, TailFacts
<1>3. MyPods' = MyPods /\ (InCache' <=> InCache)
  BY <1>1 DEF MyPods, Mine, InCache
<1>4. /\ exp \in ExpType /\ exp.del = Cardinality(exp.uids) /\ (~exp.exists => exp.uids = {})
  BY DEF RSInv, WorkInv, WorkTypeOK, ExpectationsHold
<1>5. /\ exp' \in ExpType /\ exp'.del = Cardinality(exp'.uids) /\ (~exp'.exists => exp'.uids = {})
      /\ exp'.uids \subseteq exp.uids
      /\ \A p \in exp.uids : p \notin exp'.uids => ~Active(podCache[p])
  <2>1. CASE exp' = exp
    BY <1>4, <2>1
  <2>2. CASE exp' = CreationsObserved(exp, 1)
    <3>1. /\ exp' \in ExpType /\ exp'.uids = exp.uids /\ exp'.del = exp.del
          /\ (exp'.exists <=> exp.exists)
      BY <1>4, <2>2 DEF CreationsObserved, ExpType
    <3> QED BY <1>4, <3>1
  <2>3. CASE h.new.state \in {"deleting", "gone"} /\ exp' = DeletionObserved(exp, h.pod)
    <3>1. Passed(h.pod)
      BY <1>2, <2>3 DEF RSInv, LogInv, HandledIsIndexed
    <3>2. h.pod \in PodIds
      BY <1>2 DEF Handled
    <3>3. /\ exp' \in ExpType /\ exp'.uids = exp.uids \ {h.pod}
          /\ exp'.del = Cardinality(exp'.uids) /\ (exp'.exists <=> exp.exists)
      BY <1>4, <2>3, <3>2, ObservedDeletion
    <3>4. ~Active(podCache[h.pod])
      BY <3>1 DEF Passed, Active
    <3> QED BY <1>4, <3>3, <3>4
  <2> QED BY <2>1, <2>2, <2>3 DEF HandlePod, PodDeleted, PodAdded, PodUpdated
<1>6. \A p \in PodIds : podCache[p].state # "none" =>
          podCache'[p].state # "none" /\ (Active(podCache'[p]) => Active(podCache[p]))
  BY <1>1
<1>7. \A p \in exp.uids : p \notin exp'.uids => ~InCache' \/ ~Active(podCache'[p])
  BY <1>1, <1>5
<1>8. WorkInv'
  BY <1>1, <1>3, <1>5, <1>6, <1>7, WorldMoves DEF RSInv
<1> QED BY <1>8, HandlePodKeepsLog DEF RSInv

\* What only touches what the API server holds, or nothing.
LEMMA WorkStays ==
    ASSUME RSInv, UNCHANGED <<worker, doomed, exp, podCache, rsCache>>, MyPods' \subseteq MyPods
    PROVE  WorkInv'
<1>1. InCache' <=> InCache
  BY DEF InCache
<1>2. /\ exp \in ExpType /\ exp.del = Cardinality(exp.uids) /\ (~exp.exists => exp.uids = {})
  BY DEF RSInv, WorkInv, WorkTypeOK, ExpectationsHold
<1> QED BY <1>1, <1>2, WorldMoves DEF RSInv

LEMMA PodTypes ==
    ASSUME LogInv, NEW p \in PodIds
    PROVE  /\ pods[p] \in PodType
           /\ \A s \in {"none", "active", "done", "deleting", "gone"} :
                /\ [pods[p] EXCEPT !.state = s] \in PodType
                /\ [pods[p] EXCEPT !.state = s].state = s
                /\ [pods[p] EXCEPT !.state = s].match <=> pods[p].match
                /\ [pods[p] EXCEPT !.state = s].owned <=> pods[p].owned
  BY DEF LogInv, WorldTypeOK, PodType

LEMMA PodChangesKeeps == ASSUME RSInv, NEW p \in PodIds, PodChanges(p) PROVE RSInv'
<1>1. /\ UNCHANGED <<rs, rsEvents, rsCache, podCache, handling, wrote, exp, worker, doomed>>
      /\ Active(pods[p])
  BY DEF PodChanges, Counted, cacheVars
<1>2. PICK w \in PodType : WritePod(p, w) /\ After(pods[p], w)
                           /\ (Active(w) /\ w.owned /\ w.match => Mine(p))
  <2>1. CASE \E s \in {"done", "deleting", "gone"} : WritePod(p, [pods[p] EXCEPT !.state = s])
    <3>1. PICK s \in {"done", "deleting", "gone"} : WritePod(p, [pods[p] EXCEPT !.state = s])
      BY <2>1
    <3> QED BY <1>1, <3>1, PodTypes DEF RSInv, After, Active, Mine
  <2>2. CASE pods[p].match /\ WritePod(p, [pods[p] EXCEPT !.match = FALSE])
    <3>1. pods[p] \in PodType
      BY PodTypes DEF RSInv
    <3>2. /\ [pods[p] EXCEPT !.match = FALSE] \in PodType
          /\ [pods[p] EXCEPT !.match = FALSE].state = pods[p].state
          /\ ~[pods[p] EXCEPT !.match = FALSE].match
      BY <3>1 DEF PodType
    <3> QED BY <1>1, <2>2, <3>2 DEF After, Active, Mine
  <2> QED BY <2>1, <2>2 DEF PodChanges
<1>3. wrote' \in WroteType /\ pods[p].state # "none"
  BY <1>1 DEF RSInv, LogInv, WorldTypeOK, Active
<1>4. LogInv'
  BY <1>1, <1>2, <1>3, WritePodKeeps DEF RSInv
<1>5. MyPods' \subseteq MyPods
  BY <1>2, FewerPods DEF RSInv
<1> QED BY <1>1, <1>4, <1>5, WorkStays DEF RSInv

LEMMA PodGoesKeeps == ASSUME RSInv, NEW p \in PodIds, PodGoes(p) PROVE RSInv'
<1> DEFINE w == [pods[p] EXCEPT !.state = "gone"]
<1>1. /\ UNCHANGED <<rs, rsEvents, rsCache, podCache, handling, wrote, exp, worker, doomed>>
      /\ pods[p].state = "deleting" /\ WritePod(p, w)
  BY DEF PodGoes, cacheVars
<1>2. w \in PodType /\ w.state = "gone" /\ (w.match <=> pods[p].match)
  BY PodTypes DEF RSInv
<1> HIDE DEF w
<1>3. After(pods[p], w) /\ ~Active(w)
  BY <1>2 DEF After, Active
<1>4. wrote' \in WroteType
  BY <1>1 DEF RSInv, LogInv, WorldTypeOK
<1>5. LogInv'
  BY <1>1, <1>2, <1>3, <1>4, WritePodKeeps DEF RSInv
<1>6. MyPods' \subseteq MyPods
  BY <1>1, <1>2, <1>3, FewerPods DEF RSInv
<1> QED BY <1>1, <1>5, <1>6, WorkStays DEF RSInv

LEMMA ReplicaSetChanges ==
    ASSUME RSInv, rs.state # "gone", NEW new \in RSType, WriteRS(new),
           UNCHANGED <<pods, podEvents, rsCache, podCache, handling, wrote, exp, worker, doomed>>
    PROVE  RSInv'
<1>1. wrote' \in WroteType
  BY DEF RSInv, LogInv, WorldTypeOK
<1>2. LogInv'
  BY <1>1, WriteRSKeeps DEF RSInv
<1>3. MyPods' = MyPods
  BY DEF MyPods, Mine
<1> QED BY <1>2, <1>3, WorkStays DEF RSInv

LEMMA UsersKeep == ASSUME RSInv, Scale \/ DeleteRS PROVE RSInv'
<1>1. rs \in RSType
  BY DEF RSInv, LogInv, WorldTypeOK
<1>2. UNCHANGED <<pods, podEvents, rsCache, podCache, handling, wrote, exp, worker, doomed>>
  BY DEF Scale, DeleteRS, Counted, cacheVars
<1>3. CASE Scale
  <2>1. PICK n \in 0 .. MaxReplicas : WriteRS([rs EXCEPT !.replicas = n, !.gen = rs.gen + 1])
    BY <1>3 DEF Scale
  <2>2. [rs EXCEPT !.replicas = n, !.gen = rs.gen + 1] \in RSType
    <3>1. n \in Nat /\ rs.gen + 1 \in Nat
      BY <1>1, ReplicaSetAssumption DEF RSType
    <3> QED BY <1>1, <3>1 DEF RSType
  <2>3. rs.state # "gone"
    BY <1>3 DEF Scale
  <2> QED BY <1>2, <2>1, <2>2, <2>3, ReplicaSetChanges
<1>4. CASE DeleteRS
  <2>1. PICK s \in {"deleting", "gone"} : WriteRS([rs EXCEPT !.state = s])
    BY <1>4 DEF DeleteRS
  <2>2. [rs EXCEPT !.state = s] \in RSType
    BY <1>1 DEF RSType
  <2> QED BY <1>2, <1>4, <2>1, <2>2, ReplicaSetChanges DEF DeleteRS
<1> QED BY <1>3, <1>4

LEMMA DueKeeps == ASSUME RSInv, Due \/ UNCHANGED rsVars PROVE RSInv'
<1>1. UNCHANGED <<rs, pods, rsEvents, podEvents, rsCache, podCache, handling, wrote, exp, worker, doomed>>
  BY Zenon DEF Due, rsVars, apiVars, cacheVars
<1>2. MyPods' = MyPods
  BY <1>1 DEF MyPods, Mine
<1> QED BY <1>1, <1>2, LogStays, WorkStays DEF RSInv

----
(* The worker.                                                             *)

LEMMA WorkerTypes ==
    ASSUME WorkTypeOK
    PROVE  /\ exp \in ExpType /\ worker \in WorkerType /\ doomed \subseteq PodIds
           /\ worker.todo \subseteq PodIds /\ worker.claimed \subseteq PodIds
           /\ worker.doing \subseteq PodIds /\ worker.needs \in BOOLEAN /\ worker.err \in BOOLEAN
           /\ worker.left \in Nat /\ worker.batch \in Nat /\ worker.calls \in Nat /\ worker.made \in Nat
           /\ worker.pc # "idle" => worker.copy \in RSType
           /\ Cardinality(worker.claimed) \in Nat
<1>1. /\ exp \in ExpType /\ worker \in WorkerType /\ doomed \subseteq PodIds
      /\ worker.todo \subseteq PodIds /\ worker.claimed \subseteq PodIds
      /\ worker.doing \subseteq PodIds /\ worker.needs \in BOOLEAN /\ worker.err \in BOOLEAN
      /\ worker.left \in Nat /\ worker.batch \in Nat /\ worker.calls \in Nat /\ worker.made \in Nat
      /\ worker.pc # "idle" => worker.copy \in RSType
  BY DEF WorkTypeOK, WorkerType
<1> QED BY <1>1, PodSets

LEMMA AtRestIsAWorker ==
    /\ AtRest \in WorkerType /\ AtRest.pc = "idle" /\ AtRest.todo = {} /\ AtRest.claimed = {}
    /\ AtRest.doing = {}
<1>1. [state |-> "gone"] \in RSCopies
  BY DEF RSCopies
<1> QED BY <1>1 DEF AtRest, WorkerType

\* A sync ends; a ReplicaSet that is gone takes the expectations with it.
LEMMA EndKeeps ==
    ASSUME RSInv, worker' = AtRest, UNCHANGED <<doomed, podCache, rsCache>>,
           exp' = exp \/ (exp' = NoExp /\ ~InCache)
    PROVE  WorkInv'
<1>1. WorkTypeOK /\ ExpectationsHold
  BY DEF RSInv, WorkInv
<1>2. exp' \in ExpType /\ exp'.del = Cardinality(exp'.uids) /\ (~exp'.exists => exp'.uids = {})
  BY <1>1, NoExpHolds DEF WorkTypeOK, ExpectationsHold
<1>3. InCache' <=> InCache
  BY DEF InCache
<1>4. KnownPods' \subseteq KnownPods
  BY AtRestIsAWorker DEF KnownPods
<1>5. WorkTypeOK'
  BY <1>1, <1>2, AtRestIsAWorker DEF WorkTypeOK
<1>6. ExpectationsHold'
  <2>1. \A p \in KnownPods' : podCache'[p].state # "none"
    BY <1>1, <1>4 DEF ExpectationsHold
  <2>2. InCache' => \A p \in doomed' : Active(podCache'[p]) => p \in exp'.uids
    BY <1>1, <1>3 DEF ExpectationsHold
  <2> QED BY <1>2, <2>1, <2>2 DEF ExpectationsHold
<1>7. NothingDoomed' /\ AllCounted'
  BY AtRestIsAWorker DEF NothingDoomed, AllCounted, MayManage
<1> QED BY <1>5, <1>6, <1>7 DEF WorkInv

\* A sync goes on to the status, or goes on with it.
LEMMA StatusKeeps ==
    ASSUME RSInv, worker' \in WorkerType, worker'.pc \in {"status", "reread", "again"},
           worker.pc # "idle", worker'.copy = worker.copy, worker'.todo = worker.todo,
           worker'.claimed = worker.claimed, worker'.doing = {},
           UNCHANGED <<doomed, podCache, rsCache>>, exp' \in ExpType, exp'.uids = exp.uids,
           exp'.del = exp.del, exp'.exists <=> exp.exists
    PROVE  WorkInv'
<1>1. WorkTypeOK /\ ExpectationsHold
  BY DEF RSInv, WorkInv
<1>2. WorkTypeOK'
  BY <1>1 DEF WorkTypeOK
<1>3. KnownPods' \subseteq KnownPods
  BY DEF KnownPods
<1>4. InCache' <=> InCache
  BY DEF InCache
<1>5. ExpectationsHold'
  <2>1. \A p \in KnownPods' : podCache'[p].state # "none"
    BY <1>1, <1>3 DEF ExpectationsHold
  <2>2. InCache' => \A p \in doomed' : Active(podCache'[p]) => p \in exp'.uids
    BY <1>1, <1>4 DEF ExpectationsHold
  <2> QED BY <1>1, <2>1, <2>2 DEF ExpectationsHold
<1>6. NothingDoomed' /\ AllCounted'
  BY DEF NothingDoomed, AllCounted, MayManage
<1> QED BY <1>2, <1>5, <1>6 DEF WorkInv

LEMMA GetKeeps == ASSUME RSInv, GetNotReady \/ GetNotFound PROVE RSInv'
<1>1. /\ UNCHANGED <<rs, pods, rsEvents, podEvents, rsCache, podCache, handling, wrote, worker, doomed>>
      /\ exp' = exp \/ (exp' = NoExp /\ ~InCache)
  BY DEF GetNotReady, GetNotFound, OthersUnchanged, apiVars, cacheVars
<1>2. LogInv'
  BY <1>1, LogStays DEF RSInv
<1>3. MyPods' = MyPods /\ (InCache' <=> InCache)
  BY <1>1 DEF MyPods, Mine, InCache
<1>4. /\ exp \in ExpType /\ exp.del = Cardinality(exp.uids) /\ (~exp.exists => exp.uids = {})
  BY DEF RSInv, WorkInv, WorkTypeOK, ExpectationsHold
<1>5. /\ exp' \in ExpType /\ exp'.del = Cardinality(exp'.uids) /\ (~exp'.exists => exp'.uids = {})
      /\ exp'.uids \subseteq exp.uids
      /\ \A p \in exp.uids : p \notin exp'.uids => ~InCache' \/ ~Active(podCache'[p])
  BY <1>1, <1>3, <1>4, NoExpHolds
<1>6. WorkInv'
  BY <1>1, <1>3, <1>5, WorldMoves DEF RSInv
<1> QED BY <1>2, <1>6 DEF RSInv

\* The consistency store is why all pods are indexed when a sync starts, and the
\* expectations are why one that may delete finds no pod that it deleted.
LEMMA StartSyncKeeps == ASSUME RSInv, StartSync PROVE RSInv'
<1> DEFINE active == {p \in PodIds : Active(podCache[p])}
           w == [AtRest EXCEPT !.pc = "claim", !.copy = rsCache, !.needs = satisfiedExpectations,
                               !.todo = active, !.body = rsCache.ver]
<1>1. /\ UNCHANGED <<rs, pods, rsEvents, podEvents, rsCache, podCache, handling, wrote, exp, doomed>>
      /\ worker' = w /\ ensureReady /\ InCache
  BY DEF StartSync, OthersUnchanged, apiVars, cacheVars
<1>2. LogInv'
  BY <1>1, LogStays DEF RSInv
<1>3. /\ LogInv /\ WorkTypeOK /\ ExpectationsHold /\ NothingDoomed /\ rsCache \in RSType
      /\ wrote \in WroteType
  BY DEF RSInv, WorkInv, LogInv, WorldTypeOK
<1>4. rsCache \in RSCopies /\ rsCache.ver \in Nat /\ active \in SUBSET PodIds
      /\ satisfiedExpectations \in BOOLEAN
  BY <1>3 DEF RSCopies, RSType, satisfiedExpectations, Fulfilled
<1>5. /\ w \in WorkerType /\ w.pc = "claim" /\ w.copy = rsCache /\ (w.needs <=> satisfiedExpectations)
      /\ w.todo = active /\ w.claimed = {} /\ w.doing = {} /\ w.made = 0
  BY <1>4 DEF WorkerType, AtRest
<1>6. \A p \in active : p \in PodIds /\ Active(podCache[p])
  OBVIOUS
<1>7. MyPods \subseteq active
  <2>1. SUFFICES ASSUME NEW p \in PodIds, Mine(p) PROVE Active(podCache[p])
    BY DEF MyPods
  <2>2. pods[p].state = "active"
    BY <2>1 DEF Mine, Active
  <2>3. podCache[p].state # "none"
    BY <1>1, <1>3, <2>2 DEF LogInv, OwnWritesCome, ensureReady
  <2>4. After(podCache[p], pods[p])
    BY <1>3, <2>2 DEF LogInv, VersionsFollow
  <2> QED BY <2>2, <2>3, <2>4 DEF After, Active
<1> HIDE DEF w, active
<1>8. satisfiedExpectations => exp.uids = {}
  <2>1. IsFiniteSet(exp.uids) /\ Cardinality(exp.uids) \in Nat
    BY <1>3, PodSets DEF WorkTypeOK, ExpType
  <2>2. satisfiedExpectations /\ exp.exists => Cardinality(exp.uids) = 0
    BY <1>3, <2>1 DEF satisfiedExpectations, Fulfilled, ExpectationsHold
  <2> QED BY <1>3, <2>1, <2>2, FS_EmptySet DEF ExpectationsHold
<1>9. WorkTypeOK'
  BY <1>1, <1>3, <1>5 DEF WorkTypeOK
<1>10. \A p \in doomed : Active(podCache[p]) => p \in exp.uids
  BY <1>1, <1>3 DEF ExpectationsHold
<1>11. ExpectationsHold'
  <2>1. \A p \in KnownPods' : podCache'[p].state # "none"
    <3>1. \A p \in doomed : podCache[p].state # "none"
      BY <1>3 DEF ExpectationsHold, KnownPods
    <3> QED BY <1>1, <1>5, <1>6, <3>1 DEF KnownPods, Active
  <2> QED BY <1>1, <1>3, <1>10, <2>1 DEF ExpectationsHold
<1>12. NothingDoomed'
  BY <1>1, <1>5, <1>6, <1>8, <1>10 DEF NothingDoomed, MayManage
<1>13. MyPods' = MyPods
  BY <1>1 DEF MyPods, Mine
<1>14. AllCounted'
  BY <1>1, <1>5, <1>7, <1>13 DEF AllCounted
<1> QED BY <1>2, <1>9, <1>11, <1>12, <1>14 DEF RSInv, WorkInv

\* One pod was looked at: it is claimed, or it is not the ReplicaSet's.
LEMMA ClaimStep ==
    ASSUME RSInv, NEW p \in PodIds, Claims(p), worker' \in WorkerType, worker'.pc = "claim",
           worker'.copy = worker.copy, worker'.needs <=> worker.needs,
           worker'.doing = worker.doing, worker'.made = worker.made,
           worker'.todo = worker.todo \ {p} \/ worker'.todo = worker.todo,
           worker'.claimed = worker.claimed \/ worker'.claimed = worker.claimed \cup {p},
           UNCHANGED <<exp, doomed, podCache, rsCache>>,
           MyPods' \subseteq MyPods \cup {p}, worker.err => worker'.err,
           worker.copy.state # "live" \/ worker'.err \/ p \notin MyPods'
               \/ p \in worker'.todo \cup worker'.claimed
    PROVE  WorkInv'
<1>1. WorkTypeOK /\ ExpectationsHold /\ NothingDoomed /\ AllCounted
  BY DEF RSInv, WorkInv
<1>2. worker.pc = "claim" /\ p \in worker.todo
  <2>1. worker.todo \in SUBSET PodIds /\ worker.todo # {} /\ p = Min(worker.todo)
    BY <1>1, WorkerTypes DEF Claims
  <2> QED BY <2>1, PodSets DEF Claims
<1>3. /\ worker'.todo \subseteq worker.todo /\ worker'.claimed \subseteq worker.claimed \cup worker.todo
      /\ worker.todo \ {p} \subseteq worker'.todo /\ worker.claimed \subseteq worker'.claimed
  BY <1>2
<1>4. KnownPods' \subseteq KnownPods
  BY <1>3 DEF KnownPods
<1>5. InCache' <=> InCache
  BY DEF InCache
<1>6. WorkTypeOK'
  BY <1>1, <1>2 DEF WorkTypeOK
<1>7. ExpectationsHold'
  <2>1. \A q \in KnownPods' : podCache'[q].state # "none"
    BY <1>1, <1>4 DEF ExpectationsHold
  <2> QED BY <1>1, <1>5, <2>1 DEF ExpectationsHold
<1>8. NothingDoomed'
  <2>1. MayManage' <=> worker.needs
    BY <1>2 DEF MayManage
  <2>2. worker.needs => /\ exp.uids = {}
                        /\ \A q \in doomed : ~Active(podCache[q])
                        /\ \A q \in doomed : q \notin worker.todo /\ q \notin worker.claimed
    BY <1>1, <1>2 DEF NothingDoomed, MayManage
  <2>3. \A q : q \notin worker.todo /\ q \notin worker.claimed => q \notin worker'.todo /\ q \notin worker'.claimed
    BY <1>3
  <2>4. worker'.doing = {}
    BY <1>1, <1>2 DEF NothingDoomed
  <2>5. MayManage' => /\ exp'.uids = {}
                      /\ \A q \in doomed' : ~Active(podCache'[q])
                      /\ \A q \in doomed' : q \notin worker'.todo /\ q \notin worker'.claimed
    BY <2>1, <2>2, <2>3
  <2> QED BY <2>4, <2>5 DEF NothingDoomed
<1>9. AllCounted'
  <2>1. ASSUME ~worker'.err, worker'.copy.state = "live"
        PROVE  MyPods' \subseteq worker'.todo \cup worker'.claimed
    <3>1. MyPods \subseteq worker.todo \cup worker.claimed
      BY <1>1, <1>2, <2>1 DEF AllCounted
    <3> QED BY <1>3, <2>1, <3>1
  <2>2. worker'.made = 0
    BY <1>1, <1>2 DEF AllCounted
  <2> QED BY <2>1, <2>2 DEF AllCounted
<1> QED BY <1>6, <1>7, <1>8, <1>9 DEF WorkInv

\* What the worker does with a pod follows from what is indexed; the pod may have
\* changed since, but only onward.
LEMMA CachedIsOlder ==
    ASSUME RSInv, NEW p \in PodIds, Claims(p)
    PROVE  /\ Mine(p) => Cached(p).match
           /\ worker \in WorkerType /\ worker.pc = "claim" /\ p \in worker.todo
           /\ worker.todo \in SUBSET PodIds /\ worker.claimed \in SUBSET PodIds
           /\ pods[p] \in PodType
<1>1. WorkTypeOK /\ LogInv
  BY DEF RSInv, WorkInv
<1>2. worker.todo \in SUBSET PodIds /\ worker.todo # {} /\ p = Min(worker.todo)
  BY <1>1, WorkerTypes DEF Claims
<1>3. p \in worker.todo
  BY <1>2, PodSets
<1>4. Cached(p).state # "none"
  BY <1>3 DEF RSInv, WorkInv, ExpectationsHold, KnownPods, Cached
<1>5. pods[p].state = "active" => After(Cached(p), pods[p])
  BY <1>1 DEF LogInv, VersionsFollow, Cached
<1>6. Mine(p) => Cached(p).match
  BY <1>4, <1>5 DEF Mine, Active, After
<1>7. worker \in WorkerType /\ worker.claimed \in SUBSET PodIds /\ pods[p] \in PodType
  BY <1>1, WorkerTypes, PodTypes
<1> QED BY <1>2, <1>3, <1>6, <1>7 DEF Claims

LEMMA WorkerPasses ==
    ASSUME worker \in WorkerType, NEW T \in SUBSET PodIds, NEW w, w = [worker EXCEPT !.todo = T]
    PROVE  /\ w \in WorkerType /\ w.pc = worker.pc /\ w.copy = worker.copy
           /\ (w.needs <=> worker.needs) /\ (w.err <=> worker.err) /\ w.doing = worker.doing
           /\ w.made = worker.made /\ w.todo = T /\ w.claimed = worker.claimed
  BY DEF WorkerType

LEMMA ClaimAtOnceKeeps == ASSUME RSInv, NEW p \in PodIds, ClaimAtOnce(p) PROVE RSInv'
<1>1. /\ Claims(p)
      /\ UNCHANGED <<rs, pods, rsEvents, podEvents, rsCache, podCache, handling, wrote, exp, doomed>>
  BY DEF ClaimAtOnce, OthersUnchanged, apiVars, cacheVars
<1>2. LogInv'
  BY <1>1, LogStays DEF RSInv
<1>3. /\ Mine(p) => Cached(p).match
      /\ worker \in WorkerType /\ worker.pc = "claim" /\ p \in worker.todo
      /\ worker.todo \in SUBSET PodIds /\ worker.claimed \in SUBSET PodIds
  BY <1>1, CachedIsOlder
<1>4. MyPods' = MyPods /\ (p \in MyPods => Mine(p))
  BY <1>1 DEF MyPods, Mine
<1>5. CASE worker' = [worker EXCEPT !.todo = worker.todo \ {p}, !.claimed = worker.claimed \cup {p}]
  <2> DEFINE T == worker.todo \ {p}
             C == worker.claimed \cup {p}
  <2>1. T \in SUBSET PodIds /\ C \in SUBSET PodIds /\ p \in C
    BY <1>3
  <2>2. T = worker.todo \ {p} /\ C = worker.claimed \cup {p}
    OBVIOUS
  <2>3. worker' = [worker EXCEPT !.todo = T, !.claimed = C]
    BY <1>5
  <2> HIDE DEF T, C
  <2>4. /\ worker' \in WorkerType /\ worker'.pc = worker.pc /\ worker'.copy = worker.copy
        /\ (worker'.needs <=> worker.needs) /\ (worker'.err <=> worker.err)
        /\ worker'.doing = worker.doing
        /\ worker'.made = worker.made /\ worker'.todo = T /\ worker'.claimed = C
    BY <1>3, <2>1, <2>3 DEF WorkerType
  <2>5. WorkInv'
    BY <1>1, <1>3, <1>4, <2>1, <2>2, <2>4, ClaimStep
  <2> QED BY <1>2, <2>5 DEF RSInv
<1>6. CASE /\ worker' = [worker EXCEPT !.todo = worker.todo \ {p}]
           /\ worker.copy.state = "live" => ~Cached(p).match
  <2> DEFINE T == worker.todo \ {p}
  <2>1. T \in SUBSET PodIds
    BY <1>3
  <2>2. T = worker.todo \ {p}
    OBVIOUS
  <2>3. worker' = [worker EXCEPT !.todo = T]
    BY <1>6
  <2> HIDE DEF T
  <2>4. /\ worker' \in WorkerType /\ worker'.pc = worker.pc /\ worker'.copy = worker.copy
        /\ (worker'.needs <=> worker.needs) /\ (worker'.err <=> worker.err)
        /\ worker'.doing = worker.doing
        /\ worker'.made = worker.made /\ worker'.todo = T /\ worker'.claimed = worker.claimed
    BY <1>3, <2>1, <2>3, WorkerPasses
  <2>5. worker.copy.state # "live" \/ p \notin MyPods'
    BY <1>3, <1>4, <1>6
  <2>6. WorkInv'
    BY <1>1, <1>3, <1>4, <2>2, <2>4, <2>5, ClaimStep
  <2> QED BY <1>2, <2>6 DEF RSInv
<1> QED BY <1>5, <1>6 DEF ClaimAtOnce

LEMMA ReleaseKeeps == ASSUME RSInv, NEW p \in PodIds, Release(p) PROVE RSInv'
<1>1. /\ Claims(p) /\ Releases(p)
      /\ UNCHANGED <<rs, rsEvents, rsCache, podCache, handling, wrote, exp, doomed>>
      /\ worker' = [worker EXCEPT !.todo = worker.todo \ {p}]
  BY DEF Release, OthersUnchanged, cacheVars
<1>2. /\ Mine(p) => Cached(p).match
      /\ worker \in WorkerType /\ worker.pc = "claim" /\ p \in worker.todo
      /\ worker.todo \in SUBSET PodIds /\ worker.claimed \in SUBSET PodIds /\ pods[p] \in PodType
  BY <1>1, CachedIsOlder
<1>3. ~Mine(p)
  BY <1>1, <1>2 DEF Releases
<1>4. LogInv' /\ MyPods' \subseteq MyPods
  <2>1. CASE NotThere(pods[p])
    <3>1. UNCHANGED <<pods, podEvents>>
      BY <2>1 DEF Release
    <3> QED BY <1>1, <3>1, LogStays DEF RSInv, MyPods, Mine
  <2>2. CASE ~NotThere(pods[p])
    <3> DEFINE w == [pods[p] EXCEPT !.owned = FALSE]
    <3>1. WritePod(p, w) /\ pods[p].state # "none"
      BY <2>2 DEF Release, NotThere
    <3>2. w \in PodType /\ w.state = pods[p].state /\ ~w.owned /\ (w.match <=> pods[p].match)
      BY <1>2 DEF PodType
    <3> HIDE DEF w
    <3>3. After(pods[p], w)
      BY <3>1, <3>2 DEF After, Active
    <3>4. wrote' \in WroteType
      BY <1>1 DEF RSInv, LogInv, WorldTypeOK
    <3>5. LogInv'
      BY <1>1, <3>1, <3>2, <3>3, <3>4, WritePodKeeps DEF RSInv
    <3> QED BY <3>1, <3>2, <3>5, FewerPods DEF RSInv
  <2> QED BY <2>1, <2>2
<1>5. p \notin MyPods'
  BY <1>3, <1>4 DEF MyPods
<1> DEFINE T == worker.todo \ {p}
<1>6. T \in SUBSET PodIds
  BY <1>2
<1>7. T = worker.todo \ {p} /\ worker' = [worker EXCEPT !.todo = T]
  BY <1>1
<1> HIDE DEF T
<1>8. /\ worker' \in WorkerType /\ worker'.pc = worker.pc /\ worker'.copy = worker.copy
      /\ (worker'.needs <=> worker.needs) /\ (worker'.err <=> worker.err)
      /\ worker'.doing = worker.doing
      /\ worker'.made = worker.made /\ worker'.todo = T /\ worker'.claimed = worker.claimed
  BY <1>2, <1>6, <1>7, WorkerPasses
<1>9. WorkInv'
  BY <1>1, <1>2, <1>4, <1>5, <1>7, <1>8, ClaimStep
<1> QED BY <1>4, <1>9 DEF RSInv

LEMMA CanAdoptKeeps == ASSUME RSInv, NEW p \in PodIds, CanAdopt(p) PROVE RSInv'
<1> DEFINE a == IF rs.state = "live" THEN "yes" ELSE "no"
<1>1. /\ Claims(p) /\ worker' = [worker EXCEPT !.canAdopt = a]
      /\ UNCHANGED <<rs, pods, rsEvents, podEvents, rsCache, podCache, handling, wrote, exp, doomed>>
  BY DEF CanAdopt, OthersUnchanged, apiVars, cacheVars
<1>2. a \in {"unknown", "yes", "no"}
  OBVIOUS
<1> HIDE DEF a
<1>3. worker \in WorkerType /\ worker.pc = "claim" /\ p \in worker.todo
  BY <1>1, CachedIsOlder
<1>4. /\ worker' \in WorkerType /\ worker'.pc = worker.pc /\ worker'.copy = worker.copy
      /\ (worker'.needs <=> worker.needs) /\ (worker'.err <=> worker.err)
      /\ worker'.doing = worker.doing
      /\ worker'.made = worker.made /\ worker'.todo = worker.todo /\ worker'.claimed = worker.claimed
  BY <1>1, <1>2, <1>3 DEF WorkerType
<1>5. MyPods' = MyPods
  BY <1>1 DEF MyPods, Mine
<1>6. WorkInv'
  BY <1>1, <1>3, <1>4, <1>5, ClaimStep
<1> QED BY <1>1, <1>6, LogStays DEF RSInv

LEMMA AdoptKeeps == ASSUME RSInv, NEW p \in PodIds, Adopt(p) PROVE RSInv'
<1>1. /\ Claims(p)
      /\ UNCHANGED <<rs, rsEvents, rsCache, podCache, handling, exp, doomed>>
  BY DEF Adopt, OthersUnchanged, cacheVars
<1>2. /\ worker \in WorkerType /\ worker.pc = "claim" /\ p \in worker.todo
      /\ worker.todo \in SUBSET PodIds /\ worker.claimed \in SUBSET PodIds /\ pods[p] \in PodType
  BY <1>1, CachedIsOlder
<1> DEFINE T == worker.todo \ {p}
           C == worker.claimed \cup {p}
<1>3. T \in SUBSET PodIds /\ C \in SUBSET PodIds /\ p \in C
  BY <1>2
<1>4. T = worker.todo \ {p} /\ C = worker.claimed \cup {p}
  OBVIOUS
<1>5. CASE worker.canAdopt = "yes" /\ ~NotThere(pods[p])
  <2> DEFINE w == [pods[p] EXCEPT !.owned = TRUE]
  <2>1. /\ WritePod(p, w) /\ worker' = [worker EXCEPT !.todo = T, !.claimed = C]
        /\ wrote' = [wrote EXCEPT !.pods = Len(podEvents')] /\ pods[p].state # "none"
    BY <1>5 DEF Adopt, NotThere
  <2>2. w \in PodType /\ w.state = pods[p].state /\ (w.match <=> pods[p].match)
    BY <1>2 DEF PodType
  <2> HIDE DEF w, T, C
  <2>3. After(pods[p], w)
    BY <2>1, <2>2 DEF After, Active
  <2>4. wrote' \in WroteType /\ wrote'.pods = Len(podEvents')
    <3>1. /\ wrote \in WroteType /\ podEvents \in Seq(PodEvents) /\ [pod |-> p, obj |-> w] \in PodEvents
      BY <2>2 DEF RSInv, LogInv, WorldTypeOK, PodEvents
    <3>2. Len(podEvents') \in Nat
      BY <2>1, <3>1, AppendFacts DEF WritePod
    <3> QED BY <2>1, <3>1, <3>2 DEF WroteType
  <2>5. LogInv'
    BY <1>1, <2>1, <2>2, <2>3, <2>4, WritePodKeeps DEF RSInv
  <2>6. MyPods' \subseteq MyPods \cup {p}
    <3>1. pods' = [pods EXCEPT ![p] = w] /\ pods \in [PodIds -> PodType]
      BY <2>1 DEF WritePod, RSInv, LogInv, WorldTypeOK
    <3>2. \A q \in PodIds : q # p => pods'[q] = pods[q]
      BY <3>1
    <3> QED BY <3>2 DEF MyPods, Mine
  <2>7. /\ worker' \in WorkerType /\ worker'.pc = worker.pc /\ worker'.copy = worker.copy
        /\ (worker'.needs <=> worker.needs) /\ (worker'.err <=> worker.err)
        /\ worker'.doing = worker.doing
        /\ worker'.made = worker.made /\ worker'.todo = T /\ worker'.claimed = C
    BY <1>2, <1>3, <2>1 DEF WorkerType
  <2>8. WorkInv'
    BY <1>1, <1>2, <1>3, <1>4, <2>6, <2>7, ClaimStep
  <2> QED BY <2>5, <2>8 DEF RSInv
<1>6. CASE ~(worker.canAdopt = "yes" /\ ~NotThere(pods[p]))
  <2> DEFINE err == worker.err \/ worker.canAdopt = "no"
  <2>1. /\ UNCHANGED <<pods, podEvents, wrote>>
        /\ worker' = [worker EXCEPT !.todo = T, !.err = worker.err \/ worker.canAdopt = "no"]
    BY <1>6 DEF Adopt
  <2>2. /\ worker' \in WorkerType /\ worker'.pc = worker.pc /\ worker'.copy = worker.copy
        /\ (worker'.needs <=> worker.needs)
        /\ worker'.doing = worker.doing
        /\ worker'.made = worker.made /\ worker'.todo = T /\ worker'.claimed = worker.claimed
    BY <1>2, <1>3, <2>1 DEF WorkerType
  <2>3. worker'.err <=> (worker.err \/ worker.canAdopt = "no")
    BY <1>2, <1>3, <2>1 DEF WorkerType
  <2>4. MyPods' = MyPods
    BY <2>1 DEF MyPods, Mine
  <2>5. worker.canAdopt = "no" \/ NotThere(pods[p])
    BY <1>2, <1>6 DEF Adopt, WorkerType
  <2>6. worker'.err \/ p \notin MyPods'
    BY <2>3, <2>4, <2>5 DEF MyPods, Mine, NotThere, Active
  <2>7. WorkInv'
    BY <1>1, <1>2, <1>4, <2>2, <2>3, <2>4, <2>6, ClaimStep
  <2> QED BY <1>1, <2>1, <2>7, LogStays DEF RSInv
<1> QED BY <1>5, <1>6

\* A step of the worker to its status, that touches nothing else.
LEMMA StatusNext ==
    ASSUME RSInv, NEW pc \in {"status", "reread", "again"}, NEW body \in Nat,
           worker.pc # "idle", worker.doing = {},
           worker' = [worker EXCEPT !.pc = pc, !.body = body],
           UNCHANGED <<rs, pods, rsEvents, podEvents, rsCache, podCache, handling, wrote, exp, doomed>>
    PROVE  RSInv'
<1>1. worker \in WorkerType /\ exp \in ExpType
  BY WorkerTypes DEF RSInv, WorkInv
<1>2. /\ worker' \in WorkerType /\ worker'.pc = pc /\ worker'.copy = worker.copy
      /\ worker'.todo = worker.todo /\ worker'.claimed = worker.claimed
      /\ worker'.doing = worker.doing
  BY <1>1 DEF WorkerType
<1>3. WorkInv'
  BY <1>1, <1>2, StatusKeeps
<1> QED BY <1>3, LogStays DEF RSInv

LEMMA ToStatus ==
    ASSUME RSInv, worker.pc # "idle", worker.doing = {}, NEW pc \in {"status", "reread", "again"},
           worker' = [worker EXCEPT !.pc = pc],
           UNCHANGED <<rs, pods, rsEvents, podEvents, rsCache, podCache, handling, wrote, exp, doomed>>
    PROVE  RSInv'
<1>1. worker.body \in Nat /\ worker' = [worker EXCEPT !.pc = pc, !.body = worker.body]
  BY DEF RSInv, WorkInv, WorkTypeOK, WorkerType
<1> QED BY <1>1, StatusNext

\* A step of the worker to manageReplicas, or from one batch to the next.
LEMMA ClaimedKeeps == ASSUME RSInv, Claimed PROVE RSInv'
<1>1. /\ worker.pc = "claim" /\ worker.todo = {}
      /\ UNCHANGED <<rs, pods, rsEvents, podEvents, rsCache, podCache, handling, wrote, exp, doomed>>
  BY DEF Claimed, OthersUnchanged, apiVars, cacheVars
<1>2. LogInv'
  BY <1>1, LogStays DEF RSInv
<1>3. WorkTypeOK /\ ExpectationsHold /\ NothingDoomed /\ AllCounted
  BY DEF RSInv, WorkInv
<1>4. CASE worker.err
  <2>1. worker' = AtRest
    BY <1>4 DEF Claimed, Ends
  <2> QED BY <1>1, <1>2, <2>1, EndKeeps DEF RSInv
<1>5. CASE ~worker.err /\ ~(worker.needs /\ worker.copy.state = "live")
  <2>1. worker' = [worker EXCEPT !.pc = "status"] /\ worker.doing = {}
    BY <1>1, <1>3, <1>5 DEF Claimed, NothingDoomed
  <2> QED BY <1>1, <2>1, ToStatus
<1>6. CASE ~worker.err /\ worker.needs /\ worker.copy.state = "live"
  <2>1. worker' = [worker EXCEPT !.pc = "manage"]
    BY <1>6 DEF Claimed
  <2>2. /\ worker' \in WorkerType /\ worker'.pc = "manage" /\ worker'.copy = worker.copy
        /\ worker'.todo = worker.todo /\ worker'.claimed = worker.claimed
        /\ worker'.doing = worker.doing /\ worker'.made = worker.made
    BY <1>3, <2>1 DEF WorkTypeOK, WorkerType
  <2>3. MyPods' = MyPods /\ (InCache' <=> InCache) /\ KnownPods' = KnownPods
    BY <1>1, <2>2 DEF MyPods, Mine, InCache, KnownPods
  <2>4. WorkTypeOK'
    BY <1>1, <1>3, <2>2 DEF WorkTypeOK
  <2>5. ExpectationsHold'
    BY <1>1, <1>3, <2>3 DEF ExpectationsHold
  <2>6. NothingDoomed'
    BY <1>1, <1>3, <1>6, <2>2 DEF NothingDoomed, MayManage
  <2>7. AllCounted'
    BY <1>1, <1>3, <1>6, <2>2, <2>3 DEF AllCounted
  <2> QED BY <1>2, <2>4, <2>5, <2>6, <2>7 DEF RSInv, WorkInv
<1> QED BY <1>4, <1>5, <1>6

LEMMA EnoughKeeps == ASSUME RSInv, Enough \/ Deleted PROVE RSInv'
<1>1. /\ worker.pc \in {"manage", "delete"} /\ worker.doing = {}
      /\ worker' = [worker EXCEPT !.pc = "status"]
      /\ UNCHANGED <<rs, pods, rsEvents, podEvents, rsCache, podCache, handling, wrote, exp, doomed>>
  BY DEF Enough, Deleted, OthersUnchanged, apiVars, cacheVars, RSInv, WorkInv, NothingDoomed
<1> QED BY <1>1, ToStatus

LEMMA DiffIsNumber ==
    ASSUME WorkTypeOK, worker.pc # "idle"
    PROVE  /\ Diff \in Int /\ Diff = Cardinality(worker.claimed) - worker.copy.replicas
           /\ Cardinality(worker.claimed) \in Nat /\ worker.copy.replicas \in Nat
           /\ Diff < 0 => /\ ToCreate \in Nat \ {0} /\ ToCreate <= -Diff
                          /\ Least(-Diff, Burst) = ToCreate
<1>1. Cardinality(worker.claimed) \in Nat /\ worker.copy.replicas \in Nat
  BY WorkerTypes DEF RSType
<1> QED BY <1>1, ReplicaSetAssumption DEF Diff, ToCreate, Least

LEMMA ExpectCreationsKeeps == ASSUME RSInv, ExpectCreations PROVE RSInv'
<1> DEFINE n == ToCreate
           b == Least(n, 1)
<1>1. /\ worker.pc = "manage" /\ Diff < 0
      /\ UNCHANGED <<rs, pods, rsEvents, podEvents, rsCache, podCache, handling, wrote, doomed>>
  BY DEF ExpectCreations, OthersUnchanged, apiVars, cacheVars
<1>2. WorkTypeOK /\ ExpectationsHold /\ NothingDoomed /\ AllCounted
  BY DEF RSInv, WorkInv
<1>3. n \in Nat \ {0} /\ n <= -Diff /\ Least(-Diff, Burst) = n /\ Diff \in Int
  BY <1>1, <1>2, DiffIsNumber
<1>4. /\ exp' = [exists |-> TRUE, add |-> n, del |-> 0, uids |-> exp.uids]
      /\ worker' = [worker EXCEPT !.pc = "create", !.left = n, !.batch = b, !.calls = b, !.doing = {}]
  BY <1>3 DEF ExpectCreations
<1>5. n \in Nat /\ b \in Nat /\ b <= n
  BY <1>3 DEF Least
<1>6. exp.uids = {}
  BY <1>1, <1>2 DEF NothingDoomed, MayManage
<1> HIDE DEF n, b
<1>7. /\ worker' \in WorkerType /\ worker'.pc = "create" /\ worker'.copy = worker.copy
      /\ worker'.todo = worker.todo /\ worker'.claimed = worker.claimed
      /\ worker'.doing = {} /\ worker'.made = worker.made
      /\ worker'.left = n /\ worker'.batch = b /\ worker'.calls = b
  BY <1>2, <1>4, <1>5 DEF WorkTypeOK, WorkerType
<1>8. /\ exp' \in ExpType /\ exp'.uids = {} /\ exp'.del = 0 /\ exp'.exists
  BY <1>2, <1>4, <1>5, <1>6 DEF WorkTypeOK, ExpType
<1>9. Cardinality({}) = 0
  BY FS_EmptySet
<1>10. MyPods' = MyPods /\ (InCache' <=> InCache) /\ KnownPods' \subseteq KnownPods
  BY <1>1, <1>7 DEF MyPods, Mine, InCache, KnownPods
<1>11. WorkTypeOK'
  BY <1>1, <1>2, <1>7, <1>8 DEF WorkTypeOK
<1>12. NothingDoomed'
  BY <1>1, <1>2, <1>7, <1>8 DEF NothingDoomed, MayManage
<1>13. ExpectationsHold'
  <2>1. \A p \in KnownPods' : podCache'[p].state # "none"
    BY <1>1, <1>2, <1>10 DEF ExpectationsHold
  <2>2. \A p \in doomed' : ~Active(podCache'[p])
    BY <1>1, <1>2 DEF NothingDoomed, MayManage
  <2> QED BY <1>8, <1>9, <2>1, <2>2 DEF ExpectationsHold
<1>14. AllCounted'
  <2>1. MyPods' \ worker'.claimed = {} /\ worker'.made = 0
    BY <1>1, <1>2, <1>7, <1>10 DEF AllCounted
  <2>2. Diff' = Diff /\ ToCreate' = n
    BY <1>7 DEF Diff, ToCreate, n
  <2>3. n - n + b - b = 0
    BY <1>5
  <2> QED BY <1>1, <1>5, <1>7, <1>9, <2>1, <2>2, <2>3 DEF AllCounted
<1> QED BY <1>1, <1>11, <1>12, <1>13, <1>14, LogStays DEF RSInv, WorkInv

\* A step of the worker within manageReplicas' creations: what it counts is right.
LEMMA CreatingKeeps ==
    ASSUME RSInv, worker.pc = "create", worker' \in WorkerType, worker'.pc = "create",
           worker'.copy = worker.copy, worker'.todo = worker.todo,
           worker'.claimed = worker.claimed, worker'.doing = worker.doing,
           worker'.calls <= worker'.batch, worker'.batch <= worker'.left,
           worker'.made <= ToCreate - worker'.left + worker'.batch - worker'.calls,
           Cardinality(MyPods' \ worker'.claimed) <= worker'.made,
           UNCHANGED <<exp, doomed, podCache, rsCache>>
    PROVE  WorkInv'
<1>1. WorkTypeOK /\ ExpectationsHold /\ NothingDoomed /\ AllCounted
  BY DEF RSInv, WorkInv
<1>2. (InCache' <=> InCache) /\ KnownPods' = KnownPods
  BY DEF InCache, KnownPods
<1>3. WorkTypeOK'
  BY <1>1 DEF WorkTypeOK
<1>4. ExpectationsHold'
  BY <1>1, <1>2 DEF ExpectationsHold
<1>5. NothingDoomed'
  BY <1>1 DEF NothingDoomed, MayManage
<1>6. Diff' = Diff /\ ToCreate' = ToCreate
  BY DEF Diff, ToCreate
<1>7. AllCounted'
  BY <1>1, <1>6 DEF AllCounted
<1> QED BY <1>3, <1>4, <1>5, <1>7 DEF WorkInv

\* One more pod is the ReplicaSet's.
LEMMA OneMorePod ==
    ASSUME RSInv, worker.pc = "create", worker.calls > 0, NEW p \in PodIds,
           MyPods' \subseteq MyPods \cup {p}
    PROVE  /\ Cardinality(MyPods' \ worker.claimed) <= worker.made + 1
           /\ Cardinality(MyPods') <= worker.copy.replicas
<1>1. /\ WorkTypeOK /\ AllCounted
  BY DEF RSInv, WorkInv
<1>2. /\ worker.made \in Nat /\ worker.left \in Nat /\ worker.batch \in Nat /\ worker.calls \in Nat
      /\ worker.claimed \in SUBSET PodIds
  BY <1>1, WorkerTypes
<1> DEFINE old == MyPods \ worker.claimed
           new == MyPods' \ worker.claimed
<1>3. /\ old \in SUBSET PodIds /\ new \in SUBSET PodIds /\ MyPods' \in SUBSET PodIds
      /\ new \in SUBSET (old \cup {p}) /\ MyPods' \in SUBSET (worker.claimed \cup new)
  BY DEF MyPods
<1> HIDE DEF old, new
<1>4. /\ IsFiniteSet(old) /\ IsFiniteSet(new) /\ IsFiniteSet(worker.claimed)
      /\ Cardinality(old) \in Nat /\ Cardinality(new) \in Nat /\ Cardinality(worker.claimed) \in Nat
      /\ Cardinality(MyPods') \in Nat
  BY <1>2, <1>3, PodSets
<1>5. Cardinality(new) <= Cardinality(old) + 1
  <2>1. IsFiniteSet(old \cup {p}) /\ Cardinality(old \cup {p}) <= Cardinality(old) + 1
    <3>1. /\ IsFiniteSet(old \cup {p})
          /\ Cardinality(old \cup {p}) = IF p \in old THEN Cardinality(old) ELSE Cardinality(old) + 1
      BY <1>4, FS_AddElement
    <3> QED BY <1>4, <3>1
  <2>2. Cardinality(old \cup {p}) \in Nat /\ Cardinality(new) <= Cardinality(old \cup {p})
    BY <1>3, <2>1, FS_Subset, FS_CardinalityType
  <2> QED BY <1>4, <2>1, <2>2
<1>6. Cardinality(old) <= worker.made
  BY <1>1 DEF AllCounted, old
<1>7. Cardinality(MyPods') <= Cardinality(worker.claimed) + Cardinality(new)
  <2>1. /\ IsFiniteSet(worker.claimed \cup new)
        /\ Cardinality(worker.claimed \cup new) =
               Cardinality(worker.claimed) + Cardinality(new) - Cardinality(worker.claimed \cap new)
    BY <1>4, FS_Union
  <2>2. worker.claimed \cap new = {}
    BY DEF new
  <2>3. Cardinality({}) = 0
    BY FS_EmptySet
  <2>4. /\ Cardinality(worker.claimed \cup new) \in Nat
        /\ Cardinality(MyPods') <= Cardinality(worker.claimed \cup new)
    BY <1>3, <2>1, FS_Subset, FS_CardinalityType
  <2> QED BY <1>4, <2>1, <2>2, <2>3, <2>4
<1>8. /\ Diff < 0 /\ worker.calls <= worker.batch /\ worker.batch <= worker.left
      /\ worker.made <= ToCreate - worker.left + worker.batch - worker.calls
  BY <1>1 DEF AllCounted
<1>9. /\ Diff \in Int /\ Diff = Cardinality(worker.claimed) - worker.copy.replicas
      /\ worker.copy.replicas \in Nat /\ ToCreate \in Nat /\ ToCreate <= -Diff
  BY <1>1, <1>8, DiffIsNumber
<1>10. worker.made + 1 <= ToCreate
  BY <1>2, <1>8, <1>9
<1>11. Cardinality(new) <= worker.made + 1
  BY <1>2, <1>4, <1>5, <1>6
<1>12. Cardinality(MyPods') <= worker.copy.replicas
  BY <1>2, <1>4, <1>7, <1>9, <1>10, <1>11
<1> QED BY <1>11, <1>12 DEF new

LEMMA CreatePodKeeps ==
    ASSUME RSInv, CreatePod
    PROVE  /\ RSInv'
           /\ made' \ made \subseteq PodIds
           /\ \A p \in made' \ made : Cardinality(MyPods') <= worker.copy.replicas
<1>1. /\ worker.pc = "create" /\ worker.calls > 0
      /\ UNCHANGED <<rs, rsEvents, rsCache, podCache, handling, exp, doomed>>
  BY DEF CreatePod, cacheVars
<1>2. /\ WorkTypeOK /\ LogInv /\ AllCounted
  BY DEF RSInv, WorkInv
<1>3. /\ worker \in WorkerType /\ worker.made \in Nat /\ worker.left \in Nat
      /\ worker.batch \in Nat /\ worker.calls \in Nat
  BY <1>2, WorkerTypes
<1>4. /\ Cardinality(MyPods \ worker.claimed) <= worker.made
      /\ Diff < 0 /\ worker.calls <= worker.batch /\ worker.batch <= worker.left
      /\ worker.made <= ToCreate - worker.left + worker.batch - worker.calls
  BY <1>1, <1>2 DEF AllCounted
<1>5. ToCreate \in Nat
  BY <1>1, <1>2, <1>4, DiffIsNumber
<1> DEFINE k == worker.calls - 1
           m == worker.made + 1
<1>6. /\ k \in Nat /\ m \in Nat /\ k <= worker.batch
      /\ m <= ToCreate - worker.left + worker.batch - k
      /\ worker.made <= ToCreate - worker.left + worker.batch - k
  BY <1>1, <1>3, <1>4, <1>5
<1> HIDE DEF k, m
<1>7. CASE /\ Unused # {}
           /\ WritePod(Min(Unused), [state |-> "active", owned |-> TRUE, match |-> TRUE])
           /\ wrote' = [wrote EXCEPT !.pods = Len(podEvents')]
           /\ worker' = [worker EXCEPT !.calls = k, !.made = m]
           /\ made' = made \cup {Min(Unused)}
  <2> DEFINE p == Min(Unused)
             w == [state |-> "active", owned |-> TRUE, match |-> TRUE]
  <2>1. p \in Unused
    <3>1. Unused \in SUBSET PodIds
      BY DEF Unused
    <3> QED BY <1>7, <3>1, PodSets
  <2>2. p \in PodIds /\ pods[p].state = "none"
    BY <2>1 DEF Unused
  <2>3. WritePod(p, w)
    BY <1>7
  <2>4. w \in PodType /\ w.state = "active"
    BY DEF PodType
  <2> HIDE DEF p, w
  <2>5. After(pods[p], w) /\ made' \ made \subseteq PodIds
    BY <1>7, <2>2, <2>4 DEF After, p
  <2>6. wrote' \in WroteType /\ wrote'.pods = Len(podEvents')
    <3>1. /\ wrote \in WroteType /\ podEvents \in Seq(PodEvents) /\ [pod |-> p, obj |-> w] \in PodEvents
      BY <1>2, <2>2, <2>4 DEF LogInv, WorldTypeOK, PodEvents
    <3>2. Len(podEvents') \in Nat
      BY <2>3, <3>1, AppendFacts DEF WritePod
    <3> QED BY <1>7, <3>1, <3>2 DEF WroteType
  <2>7. LogInv'
    BY <1>1, <1>2, <2>2, <2>3, <2>4, <2>5, <2>6, WritePodKeeps
  <2>8. MyPods' \subseteq MyPods \cup {p}
    <3>1. pods' = [pods EXCEPT ![p] = w] /\ pods \in [PodIds -> PodType]
      BY <1>2, <2>3 DEF WritePod, LogInv, WorldTypeOK
    <3>2. \A q \in PodIds : q # p => pods'[q] = pods[q]
      BY <3>1
    <3> QED BY <3>2 DEF MyPods, Mine
  <2>9. /\ Cardinality(MyPods' \ worker.claimed) <= m
        /\ Cardinality(MyPods') <= worker.copy.replicas
    BY <1>1, <2>2, <2>8, OneMorePod DEF m
  <2>10. /\ worker' \in WorkerType /\ worker'.pc = worker.pc /\ worker'.copy = worker.copy
         /\ worker'.todo = worker.todo /\ worker'.claimed = worker.claimed
         /\ worker'.doing = worker.doing /\ worker'.left = worker.left
         /\ worker'.batch = worker.batch /\ worker'.calls = k /\ worker'.made = m
    BY <1>3, <1>6, <1>7 DEF WorkerType
  <2>11. WorkInv'
    BY <1>1, <1>4, <1>6, <2>9, <2>10, CreatingKeeps
  <2> QED BY <2>5, <2>7, <2>9, <2>11 DEF RSInv
<1>8. CASE /\ UNCHANGED <<pods, podEvents, wrote, made>>
           /\ worker' = [worker EXCEPT !.calls = k, !.err = TRUE]
  <2>1. LogInv'
    BY <1>1, <1>2, <1>8, LogStays
  <2>2. MyPods' = MyPods
    BY <1>8 DEF MyPods, Mine
  <2>3. /\ worker' \in WorkerType /\ worker'.pc = worker.pc /\ worker'.copy = worker.copy
        /\ worker'.todo = worker.todo /\ worker'.claimed = worker.claimed
        /\ worker'.doing = worker.doing /\ worker'.left = worker.left
        /\ worker'.batch = worker.batch /\ worker'.calls = k /\ worker'.made = worker.made
    BY <1>3, <1>6, <1>8 DEF WorkerType
  <2>4. WorkInv'
    BY <1>1, <1>4, <1>6, <2>2, <2>3, CreatingKeeps
  <2> QED BY <1>8, <2>1, <2>4 DEF RSInv
<1> QED BY <1>7, <1>8 DEF CreatePod, k, m

LEMMA NextBatchKeeps == ASSUME RSInv, NextBatch PROVE RSInv'
<1> DEFINE left == worker.left - worker.batch
           n    == Least(2 * worker.batch, left)
<1>1. /\ worker.pc = "create" /\ worker.calls = 0 /\ worker.left > worker.batch
      /\ worker' = [worker EXCEPT !.left = left, !.batch = n, !.calls = n]
      /\ UNCHANGED <<rs, pods, rsEvents, podEvents, rsCache, podCache, handling, wrote, exp, doomed>>
  BY DEF NextBatch, OthersUnchanged, apiVars, cacheVars
<1>2. WorkTypeOK /\ AllCounted
  BY DEF RSInv, WorkInv
<1>3. /\ worker \in WorkerType /\ worker.made \in Nat /\ worker.left \in Nat /\ worker.batch \in Nat
  BY <1>2, WorkerTypes
<1>4. /\ Cardinality(MyPods \ worker.claimed) <= worker.made /\ Diff < 0
      /\ worker.made <= ToCreate - worker.left + worker.batch - worker.calls
  BY <1>1, <1>2 DEF AllCounted
<1>5. ToCreate \in Nat
  BY <1>1, <1>2, <1>4, DiffIsNumber
<1>6. left \in Nat /\ n \in Nat /\ n <= left
  BY <1>1, <1>3 DEF Least
<1>7. worker.made <= ToCreate - left + n - n
  BY <1>1, <1>3, <1>4, <1>5, <1>6
<1> HIDE DEF left, n
<1>8. /\ worker' \in WorkerType /\ worker'.pc = worker.pc /\ worker'.copy = worker.copy
      /\ worker'.todo = worker.todo /\ worker'.claimed = worker.claimed
      /\ worker'.doing = worker.doing /\ worker'.left = left
      /\ worker'.batch = n /\ worker'.calls = n /\ worker'.made = worker.made
  BY <1>1, <1>3, <1>6 DEF WorkerType
<1>9. MyPods' = MyPods
  BY <1>1 DEF MyPods, Mine
<1>10. n <= n
  BY <1>6
<1>11. WorkInv'
  BY <1>1, <1>4, <1>6, <1>7, <1>8, <1>9, <1>10, CreatingKeeps
<1> QED BY <1>1, <1>11, LogStays DEF RSInv

LEMMA LastBatchKeeps == ASSUME RSInv, LastBatch PROVE RSInv'
<1> DEFINE n == Least(-Diff, Burst) - worker.made
<1>1. /\ worker.pc = "create" /\ worker' = [worker EXCEPT !.pc = "status"]
      /\ exp' = CreationsObserved(exp, n)
      /\ UNCHANGED <<rs, pods, rsEvents, podEvents, rsCache, podCache, handling, wrote, doomed>>
  BY DEF LastBatch, OthersUnchanged, apiVars, cacheVars
<1>2. WorkTypeOK /\ AllCounted /\ NothingDoomed
  BY DEF RSInv, WorkInv
<1>3. n \in Int
  <2>1. Diff < 0 /\ worker.made \in Nat
    BY <1>1, <1>2, WorkerTypes DEF AllCounted
  <2>2. Least(-Diff, Burst) \in Nat
    BY <1>1, <1>2, <2>1, DiffIsNumber
  <2> QED BY <2>1, <2>2
<1> HIDE DEF n
<1>4. /\ worker' \in WorkerType /\ worker'.pc = "status" /\ worker'.copy = worker.copy
      /\ worker'.todo = worker.todo /\ worker'.claimed = worker.claimed
      /\ worker'.doing = worker.doing
  BY <1>1, <1>2 DEF WorkTypeOK, WorkerType
<1>5. worker.doing = {}
  BY <1>1, <1>2 DEF NothingDoomed
<1>6. /\ exp' \in ExpType /\ exp'.uids = exp.uids /\ exp'.del = exp.del
      /\ (exp'.exists <=> exp.exists)
  BY <1>1, <1>2, <1>3 DEF CreationsObserved, WorkTypeOK, ExpType
<1>7. WorkInv'
  BY <1>1, <1>4, <1>5, <1>6, StatusKeeps
<1> QED BY <1>1, <1>7, LogStays DEF RSInv

LEMMA ExpectDeletionsKeeps == ASSUME RSInv, ExpectDeletions PROVE RSInv'
<1>1. /\ worker.pc = "manage"
      /\ UNCHANGED <<rs, pods, rsEvents, podEvents, rsCache, podCache, handling, wrote, doomed>>
  BY DEF ExpectDeletions, OthersUnchanged, apiVars, cacheVars
<1>2. PICK goes \in SUBSET worker.claimed :
          /\ exp' = [exists |-> TRUE, add |-> 0, del |-> Cardinality(goes), uids |-> goes]
          /\ worker' = [worker EXCEPT !.pc = "delete", !.doing = goes]
  BY DEF ExpectDeletions, kSubset
<1>3. WorkTypeOK /\ ExpectationsHold /\ NothingDoomed /\ AllCounted
  BY DEF RSInv, WorkInv
<1>4. worker \in WorkerType /\ goes \in SUBSET PodIds /\ Cardinality(goes) \in Nat
  BY <1>2, <1>3, WorkerTypes, PodSets
<1>5. /\ worker' \in WorkerType /\ worker'.pc = "delete" /\ worker'.copy = worker.copy
      /\ worker'.todo = worker.todo /\ worker'.claimed = worker.claimed
      /\ worker'.doing = goes /\ worker'.made = worker.made
  BY <1>2, <1>4 DEF WorkerType
<1>6. /\ exp' \in ExpType /\ exp'.uids = goes /\ exp'.del = Cardinality(goes) /\ exp'.exists
  BY <1>2, <1>4 DEF ExpType
<1>7. /\ \A p \in doomed : ~Active(podCache[p])
      /\ \A p \in doomed : p \notin worker.todo /\ p \notin worker.claimed
  BY <1>1, <1>3 DEF NothingDoomed, MayManage
<1>8. MyPods' = MyPods /\ KnownPods' \subseteq KnownPods
  BY <1>1, <1>5 DEF MyPods, Mine, KnownPods
<1>9. WorkTypeOK'
  BY <1>1, <1>3, <1>5, <1>6 DEF WorkTypeOK
<1>10. ExpectationsHold'
  <2>1. \A p \in KnownPods' : podCache'[p].state # "none"
    BY <1>1, <1>3, <1>8 DEF ExpectationsHold
  <2> QED BY <1>1, <1>6, <1>7, <2>1 DEF ExpectationsHold
<1>11. NothingDoomed'
  BY <1>1, <1>2, <1>5, <1>6, <1>7 DEF NothingDoomed, MayManage
<1>12. AllCounted'
  BY <1>1, <1>3, <1>5, <1>8 DEF AllCounted
<1> QED BY <1>1, <1>9, <1>10, <1>11, <1>12, LogStays DEF RSInv, WorkInv

LEMMA DeletePodKeeps == ASSUME RSInv, NEW p \in PodIds, DeletePod(p) PROVE RSInv'
<1> DEFINE D == worker.doing \ {p}
<1>1. /\ worker.pc = "delete" /\ p \in worker.doing
      /\ UNCHANGED <<rs, rsEvents, rsCache, podCache, handling, wrote>>
  BY DEF DeletePod, cacheVars
<1>2. LogInv /\ WorkTypeOK /\ ExpectationsHold /\ NothingDoomed /\ AllCounted
  BY DEF RSInv, WorkInv
<1>3. worker \in WorkerType /\ D \in SUBSET PodIds /\ D = worker.doing \ {p} /\ p \notin D
  BY <1>2, WorkerTypes
<1>4. \/ worker' = [worker EXCEPT !.doing = D]
      \/ worker' = [worker EXCEPT !.doing = D, !.err = TRUE]
  BY DEF DeletePod
<1>5. /\ exp \in ExpType /\ exp.del = Cardinality(exp.uids) /\ (~exp.exists => exp.uids = {})
  BY <1>2 DEF WorkTypeOK, ExpectationsHold
<1>6. \/ /\ \E w \in PodType : /\ WritePod(p, w) /\ w.state \in {"deleting", "gone"}
                               /\ (w.match <=> pods[p].match)
         /\ pods[p].state # "none" /\ exp' = exp
      \/ UNCHANGED <<pods, podEvents>> /\ (exp' = exp \/ exp' = DeletionObserved(exp, p))
  BY <1>2, PodTypes DEF DeletePod
<1> HIDE DEF D
<1>7. /\ worker' \in WorkerType /\ worker'.pc = worker.pc /\ worker'.copy = worker.copy
      /\ worker'.todo = worker.todo /\ worker'.claimed = worker.claimed
      /\ worker'.doing = D /\ worker'.made = worker.made
  BY <1>3, <1>4 DEF WorkerType
<1>8. LogInv' /\ MyPods' \subseteq MyPods
  <2>1. CASE UNCHANGED <<pods, podEvents>>
    <3>1. MyPods' = MyPods
      BY <2>1 DEF MyPods, Mine
    <3> QED BY <1>1, <1>2, <2>1, <3>1, LogStays
  <2>2. CASE /\ \E w \in PodType : /\ WritePod(p, w) /\ w.state \in {"deleting", "gone"}
                                   /\ (w.match <=> pods[p].match)
             /\ pods[p].state # "none"
    <3>1. PICK w \in PodType : /\ WritePod(p, w) /\ w.state \in {"deleting", "gone"}
                               /\ (w.match <=> pods[p].match)
      BY <2>2
    <3>2. After(pods[p], w) /\ ~Active(w)
      BY <3>1 DEF After, Active
    <3>3. wrote' \in WroteType
      BY <1>1, <1>2 DEF LogInv, WorldTypeOK
    <3>4. LogInv'
      BY <1>1, <1>2, <2>2, <3>1, <3>2, <3>3, WritePodKeeps
    <3> QED BY <1>2, <3>1, <3>2, <3>4, FewerPods
  <2> QED BY <1>6, <2>1, <2>2
<1>9. /\ exp' \in ExpType /\ exp'.del = Cardinality(exp'.uids) /\ (~exp'.exists => exp'.uids = {})
      /\ \A q \in exp.uids : q # p => q \in exp'.uids
  BY <1>5, <1>6, ObservedDeletion
<1>10. /\ doomed' \subseteq doomed \cup {p}
       /\ doomed' = doomed \/ exp' = exp
  BY <1>6 DEF DeletePod
<1>11. KnownPods' \subseteq KnownPods /\ (InCache' <=> InCache)
  BY <1>1, <1>3, <1>7, <1>10 DEF KnownPods, InCache
<1>12. /\ \A q \in doomed : q \notin worker.doing
       /\ InCache => \A q \in worker.doing : Active(podCache[q]) => q \in exp.uids
  BY <1>1, <1>2 DEF NothingDoomed
<1>13. WorkTypeOK'
  BY <1>1, <1>2, <1>7, <1>9, <1>10 DEF WorkTypeOK
<1>14. ExpectationsHold'
  <2>1. \A q \in KnownPods' : podCache'[q].state # "none"
    BY <1>1, <1>2, <1>11 DEF ExpectationsHold
  <2>2. ASSUME InCache, NEW q \in doomed', Active(podCache[q]) PROVE q \in exp'.uids
    <3>1. q \in exp.uids
      BY <1>1, <1>2, <1>10, <1>12, <2>2 DEF ExpectationsHold
    <3>2. CASE q = p
      BY <1>1, <1>10, <1>12, <2>2, <3>1, <3>2
    <3>3. CASE q # p
      BY <1>9, <3>1, <3>3
    <3> QED BY <3>2, <3>3
  <2> QED BY <1>1, <1>9, <1>11, <2>1, <2>2 DEF ExpectationsHold
<1>15. NothingDoomed'
  <2>1. \A q \in doomed' : q \notin D
    BY <1>3, <1>10, <1>12
  <2>2. InCache' => \A q \in D : Active(podCache'[q]) => q \in exp'.uids
    BY <1>1, <1>3, <1>9, <1>11, <1>12
  <2> QED BY <1>1, <1>7, <2>1, <2>2 DEF NothingDoomed, MayManage
<1>16. AllCounted'
  BY <1>1, <1>2, <1>7, <1>8 DEF AllCounted
<1> QED BY <1>8, <1>13, <1>14, <1>15, <1>16 DEF RSInv, WorkInv

LEMMA StatusStepsKeep ==
    ASSUME RSInv, StatusUnchanged \/ StatusConflicts \/ Reread
    PROVE  RSInv'
<1>1. /\ worker.pc \in {"status", "reread", "again"}
      /\ UNCHANGED <<rs, pods, rsEvents, podEvents, rsCache, podCache, handling, wrote, exp, doomed>>
  BY DEF StatusUnchanged, StatusConflicts, Reread, OthersUnchanged, apiVars, cacheVars
<1>2. worker.doing = {} /\ worker.pc # "idle"
  BY <1>1 DEF RSInv, WorkInv, NothingDoomed
<1>3. rs.ver \in Nat
  BY DEF RSInv, LogInv, WorldTypeOK, RSType
<1>4. CASE worker' = AtRest
  BY <1>1, <1>4, EndKeeps, LogStays DEF RSInv
<1>5. CASE worker' = [worker EXCEPT !.pc = "reread"]
  BY <1>1, <1>2, <1>5, ToStatus
<1>6. CASE worker' = [worker EXCEPT !.pc = "again", !.body = rs.ver]
  BY <1>1, <1>2, <1>3, <1>6, StatusNext
<1> QED BY <1>4, <1>5, <1>6 DEF StatusUnchanged, StatusConflicts, Reread, Ends

LEMMA WriteStatusKeeps == ASSUME RSInv, WriteStatus PROVE RSInv'
<1> DEFINE new == [rs EXCEPT !.status = Status]
<1>1. /\ worker.pc \in {"status", "again"} /\ rs.state # "gone" /\ WriteRS(new)
      /\ wrote' = [wrote EXCEPT !.rs = Len(rsEvents')] /\ worker' = AtRest
      /\ UNCHANGED <<pods, podEvents, rsCache, podCache, handling, exp, doomed>>
  BY DEF WriteStatus, OthersUnchanged, cacheVars, Ends
<1>2. /\ rs \in RSType /\ rsEvents \in Seq(RSType) /\ wrote \in WroteType /\ WorkTypeOK
  BY DEF RSInv, WorkInv, LogInv, WorldTypeOK
<1>3. Status \in StatusType
  <2>1. worker.copy.gen \in Nat /\ Cardinality(worker.claimed) \in Nat /\ worker.err \in BOOLEAN
    BY <1>1, <1>2, WorkerTypes DEF RSType
  <2> QED BY <2>1 DEF Status, NewStatus, StatusType
<1>4. new \in RSType
  BY <1>2, <1>3 DEF RSType
<1>5. wrote' \in WroteType /\ wrote'.pods = wrote.pods
  <2>1. rs' \in RSType
    <3>1. rs.ver + 1 \in Nat /\ rs' = [new EXCEPT !.ver = rs.ver + 1]
      BY <1>1, <1>2 DEF RSType, WriteRS
    <3> QED BY <1>4, <3>1 DEF RSType
  <2>2. Len(rsEvents') \in Nat
    BY <1>1, <1>2, <2>1, AppendFacts DEF WriteRS
  <2> QED BY <1>1, <1>2, <2>2 DEF WroteType
<1> HIDE DEF new
<1>6. LogInv'
  BY <1>1, <1>4, <1>5, WriteRSKeeps DEF RSInv
<1>7. WorkInv'
  BY <1>1, EndKeeps
<1> QED BY <1>6, <1>7 DEF RSInv

----
(* The theorems.                                                           *)

LEMMA RSStart == RSInit => RSInv
<1> SUFFICES ASSUME RSInit PROVE RSInv
  OBVIOUS
<1>1. /\ rs \in RSType /\ rs.state = "live"
  BY ReplicaSetAssumption DEF RSInit, RSType, StatusType, NewStatus
<1>2. pods \in [PodIds -> PodType]
  BY DEF RSInit, PodType, NoPod
<1>3. /\ rsCache = rs /\ podCache = pods /\ rsEvents = <<>> /\ podEvents = <<>> /\ handling = <<>>
      /\ wrote = [rs |-> 0, pods |-> 0] /\ exp = NoExp /\ worker = AtRest /\ doomed = {}
  BY DEF RSInit
<1>4. /\ Len(rsEvents) = 0 /\ Len(podEvents) = 0 /\ Len(handling) = 0
      /\ rsEvents \in Seq(RSType) /\ podEvents \in Seq(PodEvents) /\ handling \in Seq(Handled)
  BY <1>3
<1>5. wrote \in WroteType
  BY <1>3 DEF WroteType
<1>6. WorldTypeOK
  BY <1>1, <1>2, <1>3, <1>4, <1>5 DEF WorldTypeOK
<1>7. GoneIsLast /\ HandledIsIndexed /\ OwnWritesCome
  BY <1>1, <1>3, <1>4 DEF GoneIsLast, HandledIsIndexed, OwnWritesCome
<1>8. VersionsFollow
  BY <1>3, <1>4 DEF VersionsFollow, After
<1>9. WorkTypeOK
  BY <1>3, NoExpHolds, AtRestIsAWorker DEF WorkTypeOK
<1>10. ExpectationsHold
  BY <1>3, NoExpHolds, AtRestIsAWorker DEF ExpectationsHold, KnownPods
<1>11. NothingDoomed /\ AllCounted
  BY <1>3, AtRestIsAWorker DEF NothingDoomed, AllCounted, MayManage
<1> QED BY <1>6, <1>7, <1>8, <1>9, <1>10, <1>11 DEF RSInv, LogInv, WorkInv

\* What a step may create.
CreatesFew ==
    /\ made' \ made \subseteq PodIds
    /\ \A p \in made' \ made : Cardinality({q \in PodIds : Mine(q)'}) <= worker.copy.replicas

LEMMA CreatesNone == ASSUME made' = made PROVE CreatesFew
  BY DEF CreatesFew

LEMMA RSKept == RSInv /\ [RSNext]_rsVars => RSInv' /\ CreatesFew
<1> SUFFICES ASSUME RSInv, [RSNext]_rsVars PROVE RSInv' /\ CreatesFew
  OBVIOUS
<1>1. CASE UNCHANGED rsVars
  <2>1. made' = made
    BY <1>1 DEF rsVars
  <2> QED BY <1>1, <2>1, DueKeeps, CreatesNone
<1>2. CASE CreatePod
  <2>1. MyPods' = {q \in PodIds : Mine(q)'}
    BY DEF MyPods
  <2> QED BY <1>2, <2>1, CreatePodKeeps DEF CreatesFew
<1>3. CASE GetNotReady \/ GetNotFound \/ StartSync \/ Claimed
  <2>1. made' = made
    BY <1>3 DEF GetNotReady, GetNotFound, StartSync, Claimed, OthersUnchanged
  <2> QED BY <1>3, <2>1, GetKeeps, StartSyncKeeps, ClaimedKeeps, CreatesNone
<1>4. ASSUME NEW p \in PodIds,
             ClaimAtOnce(p) \/ Release(p) \/ CanAdopt(p) \/ Adopt(p) \/ DeletePod(p)
      PROVE  RSInv' /\ CreatesFew
  <2>1. made' = made
    BY <1>4 DEF ClaimAtOnce, Release, CanAdopt, Adopt, DeletePod, OthersUnchanged
  <2> QED
    BY <1>4, <2>1, ClaimAtOnceKeeps, ReleaseKeeps, CanAdoptKeeps, AdoptKeeps, DeletePodKeeps,
       CreatesNone
<1>5. CASE Enough \/ ExpectCreations \/ NextBatch \/ LastBatch \/ ExpectDeletions \/ Deleted
  <2>1. made' = made
    BY <1>5 DEF Enough, ExpectCreations, NextBatch, LastBatch, ExpectDeletions, Deleted,
                OthersUnchanged
  <2> QED
    BY <1>5, <2>1, EnoughKeeps, ExpectCreationsKeeps, NextBatchKeeps, LastBatchKeeps,
       ExpectDeletionsKeeps, CreatesNone
<1>6. CASE StatusUnchanged \/ WriteStatus \/ StatusConflicts \/ Reread
  <2>1. made' = made
    BY <1>6 DEF StatusUnchanged, WriteStatus, StatusConflicts, Reread, OthersUnchanged
  <2> QED BY <1>6, <2>1, StatusStepsKeep, WriteStatusKeeps, CreatesNone
<1>7. CASE HandleRS \/ IndexPod \/ HandlePod \/ Due \/ Scale \/ DeleteRS
  <2>1. made' = made
    BY <1>7 DEF HandleRS, IndexPod, HandlePod, Due, Scale, DeleteRS, Counted
  <2> QED
    BY <1>7, <2>1, HandleRSKeeps, IndexPodKeeps, HandlePodKeeps, DueKeeps, UsersKeep, CreatesNone
<1>8. ASSUME NEW p \in PodIds, PodChanges(p) \/ PodGoes(p) PROVE RSInv' /\ CreatesFew
  <2>1. made' = made
    BY <1>8 DEF PodChanges, PodGoes, Counted
  <2> QED BY <1>8, <2>1, PodChangesKeeps, PodGoesKeeps, CreatesNone
<1> QED BY <1>1, <1>2, <1>3, <1>4, <1>5, <1>6, <1>7, <1>8 DEF RSNext, Works

LEMMA RSInvShows == RSInv /\ made \subseteq PodIds => CountsItsOwn
<1> SUFFICES ASSUME RSInv, made \subseteq PodIds, worker.pc \in {"manage", "create", "delete"}
             PROVE  /\ \A p \in made \ worker.claimed : Mine(p) => worker.pc = "create"
                    /\ doomed \cap worker.claimed # {} => worker.pc = "delete"
  BY DEF CountsItsOwn
<1>1. worker.pc \in {"manage", "delete"} => MyPods \subseteq worker.claimed
  BY DEF RSInv, WorkInv, AllCounted
<1>2. \A p : Mine(p) /\ p \in made \ worker.claimed => p \in MyPods
  BY DEF MyPods, Mine
<1>3. worker.pc # "delete" => \A p \in doomed : p \notin worker.claimed
  BY DEF RSInv, WorkInv, NothingDoomed, MayManage
<1> QED BY <1>1, <1>2, <1>3

\* While it decides what to create or delete, the worker counts every pod it
\* created that is still there and none that it deleted, however late its caches
\* are (syncReplicaSet, satisfiedExpectations).
THEOREM PodsAreCounted == RSSpec => []CountsItsOwn
<1> DEFINE Inv == RSInv /\ made \subseteq PodIds
<1>1. RSInit => Inv
  BY RSStart DEF RSInit
<1>2. Inv /\ [RSNext]_rsVars => Inv'
  BY RSKept DEF CreatesFew, PodIds
<1>3. Inv => CountsItsOwn
  BY RSInvShows
<1> HIDE DEF Inv
<1> QED BY <1>1, <1>2, <1>3, PTL DEF RSSpec

\* A pod the controller creates never exceeds the replicas that its copy of the
\* ReplicaSet asks for, whatever it has not yet seen (manageReplicas).
THEOREM CreationsAreBounded == RSSpec => NeverTooMany
<1>1. RSInv /\ [RSNext]_rsVars => RSInv'
  BY RSKept
<1>2. RSInv /\ [RSNext]_rsVars =>
          [\A p \in made' \ made : Cardinality({q \in PodIds : Mine(q)'}) <= worker.copy.replicas]_rsVars
  BY RSKept DEF CreatesFew
<1> QED BY <1>1, <1>2, RSStart, PTL DEF RSSpec, NeverTooMany

----
(* PodRanking: an insertion sort by a comparison that is no order.  Its    *)
(* first criteria are one, and what was inserted is in their order, but    *)
(* for the pod that moves down, which is behind nothing above it.       *)

\* The coarse criteria are six whole numbers.
Criteria == {x \in Seq(Int) : Len(x) = 6}

LEMMA CriteriaCompare ==
    ASSUME NEW x \in Criteria, NEW y \in Criteria
    PROVE  Before(x, y) <=>
             \/ x[1] < y[1]
             \/ x[1] = y[1] /\ x[2] < y[2]
             \/ x[1] = y[1] /\ x[2] = y[2] /\ x[3] < y[3]
             \/ x[1] = y[1] /\ x[2] = y[2] /\ x[3] = y[3] /\ x[4] < y[4]
             \/ x[1] = y[1] /\ x[2] = y[2] /\ x[3] = y[3] /\ x[4] = y[4] /\ x[5] < y[5]
             \/ /\ x[1] = y[1] /\ x[2] = y[2] /\ x[3] = y[3] /\ x[4] = y[4] /\ x[5] = y[5]
                /\ x[6] < y[6]
<1>1. Len(x) = 6 /\ \A n \in 1 .. 6 : n = 1 \/ n = 2 \/ n = 3 \/ n = 4 \/ n = 5 \/ n = 6
  BY DEF Criteria
<1>2. /\ 1 .. 1 - 1 = {} /\ 1 .. 2 - 1 = {1} /\ 1 .. 3 - 1 = {1, 2} /\ 1 .. 4 - 1 = {1, 2, 3}
      /\ 1 .. 5 - 1 = {1, 2, 3, 4} /\ 1 .. 6 - 1 = {1, 2, 3, 4, 5}
  OBVIOUS
<1>3. 1 .. Len(x) = {1, 2, 3, 4, 5, 6}
  BY <1>1
<1> QED BY <1>2, <1>3 DEF Before

\* By them alone, nothing comes before itself, and "not before" is an order: it is
\* total and transitive.
LEMMA CriteriaOrder ==
    ASSUME NEW x \in Criteria, NEW y \in Criteria, NEW z \in Criteria
    PROVE  /\ ~Before(x, x)
           /\ Before(x, y) => ~Before(y, x)
           /\ ~Before(y, x) /\ ~Before(z, y) => ~Before(z, x)
<1>1. \A n \in {1, 2, 3, 4, 5, 6} : x[n] \in Int /\ y[n] \in Int /\ z[n] \in Int
  <2>1. x \in Seq(Int) /\ Len(x) = 6 /\ y \in Seq(Int) /\ Len(y) = 6 /\ z \in Seq(Int) /\ Len(z) = 6
    BY DEF Criteria
  <2>2. {1, 2, 3, 4, 5, 6} \subseteq 1 .. 6
    OBVIOUS
  <2>3. ASSUME NEW w \in Seq(Int), Len(w) = 6 PROVE \A n \in 1 .. 6 : w[n] \in Int
    <3>1. \A n \in 1 .. Len(w) : w[n] \in Int
      OBVIOUS
    <3> QED BY <2>3, <3>1
  <2>4. \A n \in 1 .. 6 : x[n] \in Int /\ y[n] \in Int /\ z[n] \in Int
    BY <2>1, <2>3
  <2> QED BY <2>2, <2>4
<1>2. ~Before(x, x)
  BY <1>1, CriteriaCompare
<1>3. Before(x, y) => ~Before(y, x)
  BY <1>1, CriteriaCompare
<1>4. ~Before(y, x) /\ ~Before(z, y) => ~Before(z, x)
  BY <1>1, CriteriaCompare
<1> QED BY <1>2, <1>3, <1>4

Rankable(pod) ==
    pod.phase \in Int /\ pod.cost \subseteq Int /\ \A x, y \in pod.cost : x = y

\* The cost annotation, or 0.
LEMMA CostIsNumber ==
    ASSUME NEW pod, Rankable(pod)
    PROVE  DeletionCost(pod) \in Int
<1>1. CASE pod.cost = {}
  <2>1. {0} \cup pod.cost = {0}
    BY <1>1
  <2>2. Max({0}) \in Int /\ Min({0}) \in Int
    BY DEF Max, Min
  <2> QED BY <2>1, <2>2 DEF DeletionCost
<1>2. CASE pod.cost # {}
  <2>1. PICK x \in Int : pod.cost = {x}
    BY <1>2 DEF Rankable
  <2>2. {0} \cup pod.cost = {0, x}
    BY <2>1
  <2>3. \E m \in {0, x} : \A y \in {0, x} : m >= y
    BY <2>1
  <2>4. \E m \in {0, x} : \A y \in {0, x} : m <= y
    BY <2>1
  <2>5. Max({0, x}) \in {0, x}
    BY <2>3 DEF Max
  <2>6. Min({0, x}) \in {0, x}
    BY <2>4 DEF Min
  <2>7. Max({0, x}) \in Int /\ Min({0, x}) \in Int
    BY <2>5, <2>6
  <2> QED BY <2>2, <2>7 DEF DeletionCost
<1> QED BY <1>1, <1>2

LEMMA AgeIsNumber ==
    ASSUME NEW time
    PROVE  AgeOrZero(time) \in Int
<1> DEFINE reached == {r \in 1 .. TimeNow : 2^r <= TimeNow - time}
<1>1. IsFiniteSet(1 .. TimeNow)
  BY RankingAssumption, FS_Interval DEF RankingAssumption
<1>2. Cardinality(reached) \in Nat
  <2>1. reached \in SUBSET (1 .. TimeNow)
    OBVIOUS
  <2> HIDE DEF reached
  <2>2. IsFiniteSet(reached)
    BY <1>1, <2>1, FS_Subset
  <2> QED BY <2>2, FS_CardinalityType
<1> HIDE DEF reached
<1>3. Age(time) \in Int
  BY <1>2 DEF Age, reached
<1> QED BY <1>3 DEF AgeOrZero

LEMMA CoarseIsCriteria ==
    ASSUME NEW pod, Rankable(pod), NEW rank \in Int
    PROVE  Coarse(pod, rank) \in Criteria
<1> DEFINE a == IF pod.node = "" THEN 0 ELSE 1
           b == IF pod.ready THEN 1 ELSE 0
           d == DeletionCost(pod)
           e == AgeOrZero(ReadyTime(pod))
           f == pod.phase
<1>1. a \in Int /\ b \in Int /\ d \in Int /\ e \in Int /\ f \in Int /\ -rank \in Int
  BY CostIsNumber, AgeIsNumber DEF Rankable
<1>2. Coarse(pod, rank) = <<a, f, b, d, -rank, e>>
  BY DEF Coarse
<1> HIDE DEF a, b, d, e, f
<1>3. <<a, f, b, d, -rank, e>> \in Seq(Int) /\ Len(<<a, f, b, d, -rank, e>>) = 6
  BY <1>1
<1> QED BY <1>2, <1>3 DEF Criteria

\* Two neighbours of an array change places.
Exchanged(s, j) == [s EXCEPT ![j] = s[j - 1], ![j - 1] = s[j]]

LEMMA ExchangeFacts ==
    ASSUME NEW S, NEW s \in Seq(S), NEW j \in 2 .. Len(s)
    PROVE  /\ Exchanged(s, j) \in Seq(S) /\ Len(Exchanged(s, j)) = Len(s)
           /\ Exchanged(s, j)[j] = s[j - 1] /\ Exchanged(s, j)[j - 1] = s[j]
           /\ \A k \in 1 .. Len(s) : k # j /\ k # j - 1 => Exchanged(s, j)[k] = s[k]
<1>1. j \in 1 .. Len(s) /\ j - 1 \in 1 .. Len(s) /\ j # j - 1 /\ Len(s) \in Nat
  OBVIOUS
<1>2. s[j] \in S /\ s[j - 1] \in S
  BY <1>1
<1> QED BY <1>1, <1>2 DEF Exchanged

Places(s, x) == {k \in 1 .. Len(s) : s[k] = x}

LEMMA ExchangeKeepsAll ==
    ASSUME NEW S, NEW s \in Seq(S), NEW j \in 2 .. Len(s), NEW x
    PROVE  Cardinality(Places(Exchanged(s, j), x)) = Cardinality(Places(s, x))
<1> DEFINE r    == Exchanged(s, j)
           turn == [k \in Places(s, x) |-> IF k = j THEN j - 1 ELSE IF k = j - 1 THEN j ELSE k]
<1>1. /\ Len(r) = Len(s) /\ r[j] = s[j - 1] /\ r[j - 1] = s[j]
      /\ \A k \in 1 .. Len(s) : k # j /\ k # j - 1 => r[k] = s[k]
  BY ExchangeFacts
<1>2. j \in 1 .. Len(s) /\ j - 1 \in 1 .. Len(s) /\ j # j - 1 /\ Len(s) \in Nat
  OBVIOUS
<1> HIDE DEF r
<1>3. turn \in [Places(s, x) -> Places(r, x)]
  BY <1>1, <1>2 DEF Places
<1>4. \A k, l \in Places(s, x) : turn[k] = turn[l] => k = l
  BY <1>2
<1>5. \A l \in Places(r, x) : \E k \in Places(s, x) : turn[k] = l
  <2> TAKE l \in Places(r, x)
  <2> DEFINE k == IF l = j THEN j - 1 ELSE IF l = j - 1 THEN j ELSE l
  <2>1. k \in Places(s, x)
    BY <1>1, <1>2 DEF Places
  <2>2. turn[k] = l
    BY <1>2, <2>1
  <2> QED BY <2>1, <2>2
<1> HIDE DEF turn
<1>6. turn \in Bijection(Places(s, x), Places(r, x))
  BY <1>3, <1>4, <1>5 DEF Bijection, Injection, Surjection, IsInjective
<1>7. ExistsBijection(Places(s, x), Places(r, x))
  BY <1>6 DEF ExistsBijection
<1>8. IsFiniteSet(Places(s, x))
  <2>1. IsFiniteSet(1 .. Len(s))
    BY <1>2, FS_Interval
  <2>2. Places(s, x) \in SUBSET (1 .. Len(s))
    BY DEF Places
  <2> QED BY <2>1, <2>2, FS_Subset
<1> QED BY <1>7, <1>8, FS_Bijection DEF r

----
(* The invariant of the sort.                                              *)

Criterion(k) == Coarse(ranked[k], ranks[k])

\* The arrays hold the pods they were given, each with its rank.
RankingTypeOK ==
    /\ given \in Arrays /\ related \in RelatedPods /\ surplus \in 1 .. Len(given)
    /\ at \in [i : 2 .. Len(given) + 1, j : 1 .. Len(given) + 1] /\ at.j <= at.i
    /\ at.i = Len(given) + 1 => at.j = at.i
    /\ \E P : /\ ranked \in Seq(P) /\ \A pod \in P : Rankable(pod)
    /\ Len(ranked) = Len(given) /\ ranks \in Seq(Int) /\ Len(ranks) = Len(given)

\* What was inserted is in the order of the criteria, but for the pod that moves
\* down, which is behind nothing above it.
SortedSoFar ==
    \A a, b \in 1 .. Len(given) :
        a < b /\ b <= at.i /\ b # at.j => ~Before(Criterion(b), Criterion(a))

SamePods == \A x : Cardinality(Places(ranked, x)) = Cardinality(Places(given, x))

RanksAgree == \A k \in 1 .. Len(given) : ranks[k] = RankOf(ranked[k])

RankingInv == RankingTypeOK /\ SamePods /\ SortedSoFar /\ RanksAgree

LEMMA RankIsNumber ==
    ASSUME related \in RelatedPods, NEW pod
    PROVE  RankOf(pod) \in Int
<1> DEFINE mates == {r \in related : r.active /\ r.node = pod.node}
<1>1. IsFiniteSet(related)
  BY RankingAssumption DEF RankingAssumption
<1>2. mates \in SUBSET related
  OBVIOUS
<1>3. RankOf(pod) = Cardinality(mates)
  BY DEF RankOf
<1> HIDE DEF mates
<1>4. IsFiniteSet(mates)
  BY <1>1, <1>2, FS_Subset
<1> QED BY <1>3, <1>4, FS_CardinalityType

LEMMA RankingStarts == RankingInit => RankingInv
<1> SUFFICES ASSUME RankingInit PROVE RankingInv
  OBVIOUS
<1> DEFINE N == Len(given)
           P == {given[i] : i \in 1 .. N}
<1>1. /\ given \in Arrays /\ related \in RelatedPods /\ surplus \in 1 .. N
      /\ ranked = given /\ ranks = [i \in 1 .. N |-> RankOf(given[i])] /\ at = [i |-> 2, j |-> 2]
  BY DEF RankingInit
<1>2. /\ N \in Nat /\ given = [i \in 1 .. N |-> given[i]]
      /\ \A i \in 1 .. N : Rankable(given[i])
  BY <1>1, RankingAssumption DEF RankingAssumption, Rankable
<1>3. N # 0
  BY <1>1, <1>2
<1>4. given \in Seq(P)
  <2> HIDE DEF N
  <2> QED BY <1>2
<1>5. ranks \in Seq(Int) /\ Len(ranks) = N /\ \A k \in 1 .. N : ranks[k] = RankOf(given[k])
  <2> DEFINE rank(i) == RankOf(given[i])
  <2>1. \A i \in 1 .. N : rank(i) \in Int
    BY <1>1, RankIsNumber
  <2>2. ranks = [i \in 1 .. N |-> rank(i)]
    BY <1>1
  <2> HIDE DEF rank, N
  <2>3. ranks \in Seq(Int) /\ Len(ranks) = N /\ \A k \in 1 .. N : ranks[k] = rank(k)
    BY <1>2, <2>1, <2>2
  <2> QED BY <2>3 DEF rank
<1>6. /\ at \in [i : 2 .. N + 1, j : 1 .. N + 1] /\ at.j <= at.i
      /\ at.i = N + 1 => at.j = at.i
  BY <1>1, <1>2, <1>3
<1>7. RankingTypeOK
  <2>1. \A pod \in P : Rankable(pod)
    BY <1>2
  <2> QED BY <1>1, <1>4, <1>5, <1>6, <2>1 DEF RankingTypeOK
<1>8. SortedSoFar
  <2>1. \A a, b \in 1 .. N : ~(a < b /\ b <= 2 /\ b # 2)
    BY <1>2
  <2> QED BY <1>1, <2>1 DEF SortedSoFar
<1> QED BY <1>1, <1>5, <1>7, <1>8 DEF RankingInv, SamePods, RanksAgree

LEMMA CriterionFacts ==
    ASSUME RankingInv
    PROVE  \A k \in 1 .. Len(given) : Criterion(k) \in Criteria
<1> TAKE k \in 1 .. Len(given)
<1>1. PICK P : ranked \in Seq(P) /\ \A pod \in P : Rankable(pod)
  BY DEF RankingInv, RankingTypeOK
<1>2. Len(ranked) = Len(given) /\ ranks \in Seq(Int) /\ Len(ranks) = Len(given)
  BY DEF RankingInv, RankingTypeOK
<1>3. Rankable(ranked[k]) /\ ranks[k] \in Int
  BY <1>1, <1>2
<1> QED BY <1>3, CoarseIsCriteria DEF Criterion

LEMMA LessIsNotBefore ==
    ASSUME NEW p, NEW q, NEW m, NEW n, Coarse(p, m) \in Criteria, Coarse(q, n) \in Criteria
    PROVE  /\ Less(p, m, q, n) => ~Before(Coarse(q, n), Coarse(p, m))
           /\ ~Less(p, m, q, n) => ~Before(Coarse(p, m), Coarse(q, n))
  BY CriteriaOrder DEF Less

LEMMA InnerLoopKeepsInv ==
    ASSUME RankingInv, InnerLoop
    PROVE  RankingInv'
<1> DEFINE N == Len(given)
           crit(k) == Criterion(k)
           next(k) == Coarse(ranked'[k], ranks'[k])
<1>0. PICK j \in 1 .. N + 1 : j = at.j
  BY DEF RankingInv, RankingTypeOK
<1>1. PICK P : ranked \in Seq(P) /\ \A pod \in P : Rankable(pod)
  BY DEF RankingInv, RankingTypeOK
<1>2. /\ Len(ranked) = N /\ ranks \in Seq(Int) /\ Len(ranks) = N
      /\ at.i \in 2 .. N + 1 /\ j <= at.i /\ given \in Arrays
      /\ \A k \in 1 .. N : ranks[k] = RankOf(ranked[k])
  BY <1>0 DEF RankingInv, RankingTypeOK, RanksAgree
<1>3. N \in Nat
  BY <1>2, RankingAssumption DEF RankingAssumption
<1>4. /\ at.i <= N /\ j > 1 /\ Less(ranked[j], ranks[j], ranked[j - 1], ranks[j - 1])
      /\ ranked' = Exchanged(ranked, j) /\ ranks' = Exchanged(ranks, j)
      /\ at' = [at EXCEPT !.j = j - 1] /\ given' = given /\ related' = related /\ surplus' = surplus
  BY <1>0, <1>2 DEF InnerLoop, Sorting, MovesDown, Swapped, Exchanged
<1>5. j \in 2 .. N /\ j - 1 \in 1 .. N /\ j \in 1 .. N
  BY <1>0, <1>2, <1>3, <1>4
<1>6. /\ at'.i = at.i /\ at'.j = j - 1 /\ at' \in [i : 2 .. N + 1, j : 1 .. N + 1]
      /\ at'.j <= at'.i /\ at'.i # N + 1
  <2>1. at \in [i : 2 .. N + 1, j : 1 .. N + 1]
    BY DEF RankingInv, RankingTypeOK
  <2>2. at' = [at EXCEPT !.j = j - 1] /\ j - 1 \in 1 .. N + 1
    BY <1>3, <1>4, <1>5
  <2>3. at'.i = at.i /\ at'.j = j - 1 /\ at' \in [i : 2 .. N + 1, j : 1 .. N + 1]
    BY <2>1, <2>2
  <2>4. j - 1 <= at.i /\ at.i # N + 1
    BY <1>2, <1>3, <1>4, <1>5
  <2> QED BY <2>3, <2>4
<1> HIDE DEF N, crit, next
<1>7. /\ ranked' \in Seq(P) /\ Len(ranked') = N /\ ranked'[j] = ranked[j - 1] /\ ranked'[j - 1] = ranked[j]
      /\ \A k \in 1 .. N : k # j /\ k # j - 1 => ranked'[k] = ranked[k]
  <2>1. j \in 2 .. Len(ranked)
    BY <1>2, <1>5
  <2>2. /\ Exchanged(ranked, j) \in Seq(P) /\ Len(Exchanged(ranked, j)) = Len(ranked)
        /\ Exchanged(ranked, j)[j] = ranked[j - 1] /\ Exchanged(ranked, j)[j - 1] = ranked[j]
        /\ \A k \in 1 .. Len(ranked) : k # j /\ k # j - 1 => Exchanged(ranked, j)[k] = ranked[k]
    BY <1>1, <2>1, ExchangeFacts
  <2> QED BY <1>2, <1>4, <2>2
<1>8. /\ ranks' \in Seq(Int) /\ Len(ranks') = N /\ ranks'[j] = ranks[j - 1] /\ ranks'[j - 1] = ranks[j]
      /\ \A k \in 1 .. N : k # j /\ k # j - 1 => ranks'[k] = ranks[k]
  <2>1. j \in 2 .. Len(ranks)
    BY <1>2, <1>5
  <2>2. /\ Exchanged(ranks, j) \in Seq(Int) /\ Len(Exchanged(ranks, j)) = Len(ranks)
        /\ Exchanged(ranks, j)[j] = ranks[j - 1] /\ Exchanged(ranks, j)[j - 1] = ranks[j]
        /\ \A k \in 1 .. Len(ranks) : k # j /\ k # j - 1 => Exchanged(ranks, j)[k] = ranks[k]
    BY <1>2, <2>1, ExchangeFacts
  <2> QED BY <1>2, <1>4, <2>2
<1>9. RankingTypeOK'
  <2>1. given' \in Arrays /\ related' \in RelatedPods /\ surplus' \in 1 .. Len(given')
    BY <1>4 DEF RankingInv, RankingTypeOK
  <2> QED BY <1>1, <1>4, <1>6, <1>7, <1>8, <2>1 DEF RankingTypeOK, N
<1>10. SamePods'
  <2> SUFFICES ASSUME NEW x PROVE Cardinality(Places(ranked', x)) = Cardinality(Places(given', x))
    BY DEF SamePods
  <2>1. Cardinality(Places(Exchanged(ranked, j), x)) = Cardinality(Places(ranked, x))
    BY <1>1, <1>2, <1>5, ExchangeKeepsAll
  <2> QED BY <1>4, <2>1 DEF RankingInv, SamePods
<1>11. RanksAgree'
  <2> DEFINE rank(pod) == RankOf(pod)
  <2>1. RanksAgree' <=> \A k \in 1 .. N : ranks'[k] = rank(ranked'[k])
    BY <1>4 DEF RanksAgree, RankOf, N
  <2>2. \A k \in 1 .. N : ranks[k] = rank(ranked[k])
    BY <1>2
  <2> HIDE DEF rank
  <2>3. ASSUME NEW k \in 1 .. N PROVE ranks'[k] = rank(ranked'[k])
    <3>1. CASE k = j
      BY <1>5, <1>7, <1>8, <2>2, <3>1
    <3>2. CASE k = j - 1
      BY <1>5, <1>7, <1>8, <2>2, <3>2
    <3>3. CASE k # j /\ k # j - 1
      BY <1>7, <1>8, <2>2, <3>3
    <3> QED BY <3>1, <3>2, <3>3
  <2> QED BY <2>1, <2>3
<1>12. /\ next(j) = crit(j - 1) /\ next(j - 1) = crit(j)
       /\ \A k \in 1 .. N : k # j /\ k # j - 1 => next(k) = crit(k)
  BY <1>7, <1>8 DEF Criterion, crit, next
<1>13. SortedSoFar'
  <2> SUFFICES ASSUME NEW a \in 1 .. N, NEW b \in 1 .. N, a < b, b <= at.i, b # j - 1
               PROVE  ~Before(next(b), next(a))
    BY <1>4, <1>6 DEF SortedSoFar, Criterion, N, next
  <2>1. \A c, d \in 1 .. N : c < d /\ d <= at.i /\ d # j => ~Before(crit(d), crit(c))
    BY <1>0 DEF RankingInv, SortedSoFar, N, crit
  <2>2. j - 1 < j /\ j <= at.i /\ j \in Int /\ at.i \in Int /\ 1 .. N \subseteq Int
    BY <1>2, <1>3, <1>5
  <2>3. CASE b = j /\ a = j - 1
    <3>1. crit(j) \in Criteria /\ crit(j - 1) \in Criteria
      BY <1>5, CriterionFacts DEF N, crit
    <3>2. ~Before(crit(j - 1), crit(j))
      BY <1>4, <3>1, LessIsNotBefore DEF Criterion, crit
    <3> QED BY <2>3, <3>2, <1>12
  <2>4. CASE b = j /\ a # j - 1
    <3>1. a < j - 1 /\ j - 1 <= at.i /\ j - 1 # j /\ a # j
      BY <2>2, <2>4
    <3>2. ~Before(crit(j - 1), crit(a))
      BY <2>1, <3>1, <1>5
    <3> QED BY <2>4, <3>1, <3>2, <1>12
  <2>5. CASE b # j
    <3>1. next(b) = crit(b)
      BY <2>5, <1>12
    <3>2. CASE a = j - 1
      <4>1. j < b
        BY <2>2, <2>5, <3>2
      <4> QED BY <2>1, <2>5, <3>1, <3>2, <4>1, <1>5, <1>12
    <3>3. CASE a = j
      <4>1. j - 1 < b
        BY <2>2, <3>3
      <4> QED BY <2>1, <2>5, <3>1, <3>3, <4>1, <1>5, <1>12
    <3>4. CASE a # j /\ a # j - 1
      BY <2>1, <2>5, <3>1, <3>4, <1>12
    <3> QED BY <3>2, <3>3, <3>4
  <2> QED BY <2>3, <2>4, <2>5
<1> QED BY <1>9, <1>10, <1>11, <1>13 DEF RankingInv

LEMMA OuterLoopKeepsInv ==
    ASSUME RankingInv, OuterLoop
    PROVE  RankingInv'
<1> DEFINE N == Len(given)
<1>0. PICK i \in 2 .. N + 1, j \in 1 .. N + 1 : i = at.i /\ j = at.j
  BY DEF RankingInv, RankingTypeOK
<1>1. /\ i \in 2 .. N + 1 /\ j \in 1 .. N + 1 /\ j <= i /\ given \in Arrays /\ Len(ranked) = N
      /\ at \in [i : 2 .. N + 1, j : 1 .. N + 1]
  BY <1>0 DEF RankingInv, RankingTypeOK
<1>2. N \in Nat
  BY <1>1, RankingAssumption DEF RankingAssumption
<1>3. /\ i <= N /\ ~MovesDown(j) /\ at' = [i |-> i + 1, j |-> i + 1]
      /\ ranked' = ranked /\ ranks' = ranks /\ given' = given /\ related' = related /\ surplus' = surplus
  BY <1>0, <1>1 DEF OuterLoop, Sorting
<1>4. at' \in [i : 2 .. N + 1, j : 1 .. N + 1] /\ at'.j <= at'.i /\ at'.i = i + 1 /\ at'.j = i + 1
  BY <1>1, <1>2, <1>3
<1>5. RankingTypeOK'
  BY <1>3, <1>4 DEF RankingInv, RankingTypeOK
<1>6. \A k \in 1 .. N : Criterion(k)' = Criterion(k)
  BY <1>3 DEF Criterion
<1>7. SortedSoFar'
  <2> SUFFICES ASSUME NEW a \in 1 .. N, NEW b \in 1 .. N, a < b, b <= i
               PROVE  ~Before(Criterion(b), Criterion(a))
    <3>1. \A b \in 1 .. N : b <= i + 1 /\ b # i + 1 => b <= i
      BY <1>1, <1>2
    <3> QED BY <1>3, <1>4, <1>6, <3>1 DEF SortedSoFar
  <2>1. \A c, d \in 1 .. N : c < d /\ d <= i /\ d # j => ~Before(Criterion(d), Criterion(c))
    BY <1>0 DEF RankingInv, SortedSoFar
  <2>2. CASE b # j
    BY <2>1, <2>2
  <2>3. CASE b = j
    <3>1. j > 1 /\ j \in 1 .. N /\ j - 1 \in 1 .. N /\ j - 1 <= i /\ j - 1 # j
      BY <1>1, <1>2, <2>3
    <3>2. Criterion(j) \in Criteria /\ Criterion(j - 1) \in Criteria /\ Criterion(a) \in Criteria
      BY <3>1, CriterionFacts
    <3>3. ~Before(Criterion(j), Criterion(j - 1))
      BY <1>3, <3>1, <3>2, LessIsNotBefore DEF Criterion, MovesDown
    <3>4. CASE a = j - 1
      BY <2>3, <3>3, <3>4
    <3>5. CASE a < j - 1
      <4>1. ~Before(Criterion(j - 1), Criterion(a))
        BY <2>1, <3>1, <3>5
      <4> QED BY <2>3, <3>2, <3>3, <4>1, CriteriaOrder
    <3> QED BY <2>3, <3>1, <3>4, <3>5
  <2> QED BY <2>2, <2>3
<1>8. SamePods' /\ RanksAgree'
  BY <1>3 DEF RankingInv, SamePods, RanksAgree, RankOf
<1> QED BY <1>5, <1>7, <1>8 DEF RankingInv

LEMMA RankingInvPromises == RankingInv => RankingIsSound
<1> SUFFICES ASSUME RankingInv PROVE RankingIsSound
  OBVIOUS
<1> DEFINE N == Len(given)
<1>1. /\ Len(ranked) = N /\ given \in Arrays /\ surplus \in 1 .. N /\ at.i \in 2 .. N + 1 /\ at.j \in 1 .. N + 1
      /\ at.j <= at.i /\ (at.i = N + 1 => at.j = N + 1)
      /\ \A k \in 1 .. N : ranks[k] = RankOf(ranked[k])
  BY DEF RankingInv, RankingTypeOK, RanksAgree
<1>2. N \in Nat
  BY <1>1, RankingAssumption DEF RankingAssumption
<1>3. ArraysAgree
  BY <1>1 DEF ArraysAgree, RankingInv, SamePods, Places
<1>4. WorstGoFirst
  <2> SUFFICES ASSUME ~Sorting, NEW d \in PodsToDelete, NEW k \in Kept
               PROVE  ~Before(Criterion(k), Criterion(d))
    BY <1>1 DEF WorstGoFirst, Criterion, PodsToDelete, Kept
  <2>1. d \in 1 .. N /\ k \in 1 .. N /\ d < k
    BY <1>1, <1>2 DEF PodsToDelete, Kept
  <2>2. surplus < N /\ at.i = N + 1
    BY <1>1, <1>2, <2>1 DEF Sorting, PodsToDelete, Kept
  <2>3. k # at.j /\ k <= at.i
    BY <2>1, <2>2, <1>1, <1>2
  <2> QED BY <2>1, <2>3 DEF RankingInv, SortedSoFar
<1> QED BY <1>3, <1>4 DEF RankingIsSound
\* The two arrays stay together, no pod is lost or doubled, and no pod goes while
\* one stays that comes before it by the criteria that are an order.
THEOREM RankingSoundness == RankingSpec => []RankingIsSound
<1>1. RankingInv /\ [RankingNext]_rankVars => RankingInv'
  <2> SUFFICES ASSUME RankingInv, [RankingNext]_rankVars PROVE RankingInv'
    OBVIOUS
  <2>1. CASE InnerLoop
    BY <2>1, InnerLoopKeepsInv
  <2>2. CASE OuterLoop
    BY <2>2, OuterLoopKeepsInv
  <2>3. CASE UNCHANGED rankVars
    BY <2>3 DEF rankVars, RankingInv, RankingTypeOK, SamePods, SortedSoFar, RanksAgree, Criterion,
                RankOf
  <2> QED BY <2>1, <2>2, <2>3 DEF RankingNext
<1> QED BY <1>1, RankingStarts, RankingInvPromises, PTL DEF RankingSpec
=============================================================================

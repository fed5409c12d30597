----------------------------- MODULE PodRanking -----------------------------
(***************************************************************************)
(* Which pods a ReplicaSet gives up when it has too many: getPodsToDelete  *)
(* (controller/replicaset/replica-set.ts) and ActivePodsWithRanks          *)
(* (controller/controller-utils.ts), an insertion sort of two arrays that  *)
(* change together, by an order that is not transitive in its last         *)
(* criteria.                                                               *)
(*                                                                         *)
(* A pod is what the order asks of it: its node, the ordinal of its phase, *)
(* whether and since when it is ready, its deletion cost (in a set, empty  *)
(* when it is absent or no number), the restarts of its containers and of  *)
(* its sidecars, when it was created, and its uid as a number.  Times are  *)
(* numbers, 0 for none.                                                    *)
(***************************************************************************)
EXTENDS Integers, Sequences, FiniteSets, FiniteSetsExt

CONSTANTS
    Arrays,      \* the arrays of pods that may be ranked
    RelatedPods, \* the sets of pods of this and related ReplicaSets there may be
    TimeNow

\* Every pod has a phase and one deletion cost at most.
ASSUME RankingAssumption ==
    /\ TimeNow \in Nat
    /\ \A array \in Arrays :
         /\ Len(array) \in Nat /\ array = [i \in 1 .. Len(array) |-> array[i]]
         /\ \A i \in 1 .. Len(array) :
              /\ array[i].phase \in Int /\ array[i].cost \subseteq Int
              /\ \A x, y \in array[i].cost : x = y
    /\ \A pods \in RelatedPods : IsFiniteSet(pods)

VARIABLES
    ranked,  \* the pods, in their array
    ranks,   \* and beside each its rank
    given,   \* the array as it was (history)
    related, \* pods of this and related ReplicaSets, in the cache
    surplus, \* how many are to go
    at       \* i and j of the loops

rankVars == <<ranked, ranks, given, related, surplus, at>>

\* getPodsRankedByRelatedPodsOnSameNode
RankOf(pod) ==
    Cardinality({r \in related : r.active /\ r.node = pod.node})

RankingInit ==
    /\ given \in Arrays /\ related \in RelatedPods /\ surplus \in 1 .. Len(given)
    /\ ranked = given /\ ranks = [i \in 1 .. Len(given) |-> RankOf(given[i])]
    /\ at = [i |-> 2, j |-> 2]

-----------------------------------------------------------------------------
\* Math.floor(Math.log2(age)), -1 for no age at all
Age(time) == IF time < TimeNow
             THEN Cardinality({r \in 1 .. TimeNow : 2^r <= TimeNow - time})
             ELSE -1

\* What nobody knows counts as younger than anything (afterOrZero).
AgeOrZero(time) == IF time = 0 THEN -2 ELSE Age(time)

ReadyTime(pod)    == IF pod.ready THEN pod.readyAt ELSE 0
DeletionCost(pod) == Max({0} \cup pod.cost) + Min({0} \cup pod.cost)
Restarts(pod)     == <<-Max({0} \cup pod.restarts), -Max({0} \cup pod.sidecarRestarts)>>

\* What decides first, the smaller one going: a pod without a node, in an early
\* phase, not ready, cheap to delete, on a crowded node, and ready for a short
\* time on a logarithmic scale.
Coarse(pod, rank) ==
    <<IF pod.node = "" THEN 0 ELSE 1, pod.phase, IF pod.ready THEN 1 ELSE 0, DeletionCost(pod),
      -rank, AgeOrZero(ReadyTime(pod))>>
Before(x, y) ==
    \E n \in 1 .. Len(x) : x[n] < y[n] /\ \A m \in 1 .. n - 1 : x[m] = y[m]

\* What decides among those.  Times that differ and are of one age leave it to the
\* uid, equal ones to what follows, which makes circles of three pods possible.
Fine(p, q) ==
    IF ReadyTime(p) # ReadyTime(q) THEN p.uid < q.uid
    ELSE LET kept(x) == Append(Restarts(x), AgeOrZero(x.created)) IN
         \/ Before(kept(p), kept(q))
         \/ kept(p) = kept(q) /\ p.created # q.created /\ p.uid < q.uid

Less(p, pRank, q, qRank) ==
    LET x == Coarse(p, pRank) y == Coarse(q, qRank) IN
    Before(x, y) \/ (x = y /\ Fine(p, q))

-----------------------------------------------------------------------------
(* sort()                                                                  *)

\* Nothing is sorted when all have to go.
Sorting == surplus < Len(ranked) /\ at.i <= Len(ranked)

\* swap
\* Mutant: the ranks stay where they are.
SwappedAlone(array, rankArray, j) ==
    /\ ranked' = [array EXCEPT ![j] = array[j - 1], ![j - 1] = array[j]]
    /\ ranks' = rankArray
Swapped(array, rankArray, j) ==
    /\ ranked' = [array EXCEPT ![j] = array[j - 1], ![j - 1] = array[j]]
    /\ ranks' = [rankArray EXCEPT ![j] = rankArray[j - 1], ![j - 1] = rankArray[j]]

MovesDown(j) == j > 1 /\ Less(ranked[j], ranks[j], ranked[j - 1], ranks[j - 1])

InnerLoop ==
    /\ Sorting /\ MovesDown(at.j)
    /\ Swapped(ranked, ranks, at.j) /\ at' = [at EXCEPT !.j = at.j - 1]
    /\ UNCHANGED <<given, related, surplus>>

OuterLoop ==
    /\ Sorting /\ ~MovesDown(at.j)
    /\ at' = [i |-> at.i + 1, j |-> at.i + 1]
    /\ UNCHANGED <<ranked, ranks, given, related, surplus>>

RankingNext == InnerLoop \/ OuterLoop
RankingSpec == RankingInit /\ [][RankingNext]_rankVars

\* getPodsToDelete
PodsToDelete == {i \in 1 .. Len(ranked) : i <= surplus}
Kept         == {i \in 1 .. Len(ranked) : i > surplus}

-----------------------------------------------------------------------------
(* Properties.                                                             *)

\* The two arrays stay together, and no pod is lost or doubled, which would delete
\* one and expect two deletions.
ArraysAgree ==
    /\ \A i \in 1 .. Len(ranked) : ranks[i] = RankOf(ranked[i])
    /\ \A i \in 1 .. Len(given) :
         Cardinality({k \in 1 .. Len(ranked) : ranked[k] = given[i]}) =
             Cardinality({k \in 1 .. Len(given) : given[k] = given[i]})

\* No pod goes while one stays that comes before it by the criteria that are an
\* order, although the criteria after them are none.
WorstGoFirst ==
    ~Sorting =>
        \A d \in PodsToDelete, k \in Kept :
            ~Before(Coarse(ranked[k], RankOf(ranked[k])), Coarse(ranked[d], RankOf(ranked[d])))

RankingIsSound == ArraysAgree /\ WorstGoFirst
=============================================================================

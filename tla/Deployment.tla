----------------------------- MODULE Deployment -----------------------------
(***************************************************************************)
(* The Deployment controller (controller/deployment) and one Deployment:   *)
(* its worker adopts the ReplicaSets it finds in its cache, tells the new  *)
(* one from the old by template, and scales, creates and deletes them, one *)
(* API request after another, on copies it took when it started.           *)
(*                                                                         *)
(* A write is published to the informers and indexed inside the request;   *)
(* the worker indexes what it wrote itself again when its request returns, *)
(* whatever has been indexed meanwhile.  The ReplicaSet controller and the *)
(* kubelets are the actions RunPods, PodAvailable and PodsLeave.           *)
(*                                                                         *)
(* Left out: releasing a ReplicaSet whose labels change, selectors that    *)
(* select everything (validation refuses them), minReadySeconds, copied    *)
(* annotations, the revision history annotation, ReplicaFailure and events. *)
(***************************************************************************)
EXTENDS Integers, Sequences, FiniteSets, FiniteSetsExt, SequencesExt

CONSTANTS
    Templates,          \* pod templates
    MaxReplicas,        \* bound: spec.replicas
    MaxCollisions,      \* bound: collisionCount
    Strategies,         \* a subset of {"RollingUpdate", "Recreate"}
    SurgePercent,       \* rollingUpdate.maxSurge
    UnavailablePercent, \* rollingUpdate.maxUnavailable
    HistoryLimit,       \* spec.revisionHistoryLimit
    MaxChanges          \* bound: changes of the Deployment, and failed requests

VARIABLES
    dep, rss,           \* what the API server holds
    depCache, rsCache,  \* deploymentIndexer, replicaSetIndexer
    leaving,            \* ReplicaSets with pods that are terminating
    syncer,             \* the worker
    keyed,              \* the key is queued now, or will be after a delay
    changed             \* changes so far, against the bound

depVars == <<dep, rss, depCache, rsCache, leaving, syncer,
             keyed, changed>>

Names == Templates \X (0 .. MaxCollisions)      \* template and collisionCount, hashed
NoRS  == [state |-> "none", owned |-> FALSE, match |-> FALSE, template |-> "none",
          replicas |-> 0, gen |-> 0, born |-> 0, revision |-> 0,
          desired |-> -1, max |-> 0, observed |-> 0, pods |-> 0, available |-> 0]
NoStatus == [observed |-> 0, replicas |-> 0, updated |-> 0, available |-> 0,
             collisions |-> 0, progress |-> "none"]
Resting == [pc |-> "idle", stage |-> "", d |-> [state |-> "gone"], list |-> <<>>,
            orphans |-> {}, running |-> {}, new |-> {}, todo |-> <<>>,
            swallow |-> FALSE, after |-> "", own |-> {}]

Live(r) == r.state = "live"

\* A ReplicaSet may be there before the Deployment: one to adopt, or another's.
DeploymentInit ==
    LET t == CHOOSE u \in Templates : TRUE IN
    \E s \in Strategies, found \in {"nothing", "orphan", "foreign"} :
       /\ found = "foreign" => MaxCollisions > 0
       /\ dep = [state |-> "live", template |-> t, replicas |-> MaxReplicas,
                  paused |-> FALSE, gen |-> 1, strategy |-> s, revision |-> 0,
                  status |-> NoStatus]
       /\ rss = [n \in Names |->
                   IF n # <<t, 0>> \/ found = "nothing" THEN NoRS
                   ELSE [NoRS EXCEPT !.state = "live", !.match = (found = "orphan"),
                           !.template = IF found = "orphan" THEN t ELSE "other",
                           !.replicas = 1, !.gen = 1, !.born = 1]]
       /\ depCache = dep /\ rsCache = rss
       /\ leaving = {}
       /\ syncer = Resting /\ changed = 0
       /\ keyed = [now |-> TRUE, later |-> FALSE]

(***************************************************************************)
(* deployment-util.ts                                                      *)
(***************************************************************************)
Rolling(d) == d.strategy = "RollingUpdate"

\* resolveFenceposts, with a surge rounded up and an unavailability rounded down
Surge(d) == IF Rolling(d) THEN (d.replicas * SurgePercent + 99) \div 100 ELSE 0
Unavailable(d) ==
    LET floor == (d.replicas * UnavailablePercent) \div 100
    IN  IF ~Rolling(d) \/ d.replicas = 0 THEN 0
        ELSE Min({d.replicas, IF floor = 0 /\ Surge(d) = 0 THEN 1 ELSE floor})
minAvailable(d) == d.replicas - Unavailable(d)

ByAge(l, S) == SetToSortSeq(S, LAMBDA m, n : l[m].born < l[n].born)
BySize(l, S, newerFirst) ==
    SetToSortSeq(S, LAMBDA m, n :
        \/ l[m].replicas > l[n].replicas
        \/ /\ l[m].replicas = l[n].replicas
           /\ IF newerFirst THEN l[m].born > l[n].born ELSE l[m].born < l[n].born)
ByRevision(l, S) ==
    SetToSortSeq(S, LAMBDA m, n :
        \/ l[m].revision < l[n].revision
        \/ l[m].revision = l[n].revision /\ l[m].born < l[n].born)

Total(l, S)     == MapThenSumSet(LAMBDA n : l[n].replicas, S)
Actual(l, S)    == MapThenSumSet(LAMBDA n : l[n].pods, S)
Available(l, S) == MapThenSumSet(LAMBDA n : l[n].available, S)
Active(l, S)    == {n \in S : l[n].replicas > 0}
\* Mutant: ReplicaSets without replicas are not counted.
maxActiveRevision(l, S) == Max({0} \cup {l[n].revision : n \in Active(l, S)})
maxRevision(l, S) == Max({0} \cup {l[n].revision : n \in S})

\* The oldest ReplicaSet with the template of the Deployment, if any.
findNewReplicaSet(d, l, S) ==
    LET same == {n \in S : l[n].template = d.template}
    IN  IF same = {} THEN {} ELSE {Head(ByAge(l, same))}

\* Mutant: the surge is not counted with the ReplicaSets that exist.
newRSNewReplicasAlone(d, l, S, current) ==
    IF Rolling(d) THEN Min({d.replicas, current + d.replicas + Surge(d)}) ELSE d.replicas
newRSNewReplicas(d, l, S, current) ==
    LET room == d.replicas + Surge(d) - Total(l, S)
    IN  IF ~Rolling(d) THEN d.replicas
        ELSE IF room <= 0 THEN current
        ELSE current + Min({room, d.replicas - current})

deploymentComplete(d, st) ==
    /\ st.updated = d.replicas /\ st.replicas = d.replicas /\ st.available = d.replicas
    /\ st.observed >= d.gen
deploymentProgressing(old, st) ==
    \/ st.updated > old.updated \/ st.available > old.available
    \/ st.replicas - st.updated < old.replicas - old.updated

isSaturated(d, r) == r.replicas = d.replicas /\ r.desired = d.replicas
                                             /\ r.available = d.replicas

\* getReplicaSetProportion: its share of what is to be added, rounded
Round(n, m) == (2 * n + m) \div (2 * m)
Proportion(d, r, add, added) ==
    LET before == IF r.max > 0 THEN r.max ELSE d.status.replicas
        fraction == IF d.replicas = 0 THEN -r.replicas
                    ELSE IF before = 0 THEN 0
                    ELSE Round(r.replicas * (d.replicas + Surge(d)), before) - r.replicas
    IN  IF r.replicas = 0 \/ add = added THEN 0
        ELSE IF add > 0 THEN Min({fraction, add - added})
        ELSE Max({fraction, add - added})

(***************************************************************************)
(* What the worker w decides to scale: a sequence of ReplicaSets and their *)
(* new sizes.                                                              *)
(***************************************************************************)
Old(w) == {n \in DOMAIN w.list : w.list[n].state # "none"} \ w.new
All(w) == Old(w) \cup w.new
Stamped(d, r) == r.desired = d.replicas /\ r.max = d.replicas + Surge(d)
To(n, size) == [name |-> n, size |-> size]

\* scale: one ReplicaSet follows spec.replicas; with a saturated new one the
\* old ones go; else the difference is shared out, what is left to the first.
findActiveOrLatest(w, active) ==
    IF active # {} THEN IF Cardinality(active) = 1 THEN active ELSE {}
    ELSE IF w.new # {} \/ Old(w) = {} THEN w.new
    ELSE {Last(ByAge(w.list, Old(w)))}
Difference(w, active) ==
    (IF w.d.replicas > 0 THEN w.d.replicas + Surge(w.d) ELSE 0) - Total(w.list, active)
Shares(w, add, sorted) ==
    FoldLeft(LAMBDA acc, n :
        LET p == IF add = 0 THEN 0 ELSE Proportion(w.d, w.list[n], add, acc.added)
        IN  [added |-> acc.added + p,
             todo  |-> Append(acc.todo, To(n, w.list[n].replicas + p))],
        [added |-> 0, todo |-> <<>>], sorted)
WithTheRest(add, shares) ==
    [i \in DOMAIN shares.todo |->
       IF i = 1 THEN [shares.todo[1] EXCEPT !.size = Max({0, @ + add - shares.added})]
       ELSE shares.todo[i]]
SharedOut(w, active, add) ==
    WithTheRest(add, Shares(w, add,
        CASE add > 0 -> BySize(w.list, active, TRUE)
          [] add < 0 -> BySize(w.list, active, FALSE)
          [] OTHER   -> ByAge(w.list, Old(w) \cap active) \o SetToSeq(w.new \cap active)))
ToZero(w, S) == [i \in 1 .. Cardinality(S) |-> To(ByAge(w.list, S)[i], 0)]
ScaledAmong(w, active, one) ==
    IF one # {}
    THEN IF Total(w.list, one) = w.d.replicas THEN <<>>
         ELSE <<To(CHOOSE n \in one : TRUE, w.d.replicas)>>
    ELSE IF w.new # {} /\ \A n \in w.new : isSaturated(w.d, w.list[n])
    THEN ToZero(w, active \ w.new)
    ELSE IF ~Rolling(w.d) THEN <<>>
    ELSE SelectSeq(SharedOut(w, active, Difference(w, active)),
                   LAMBDA t : \/ t.size # w.list[t.name].replicas
                              \/ ~Stamped(w.d, w.list[t.name]))
scaleOf(w, active) == ScaledAmong(w, active, findActiveOrLatest(w, active))
scale(w) == scaleOf(w, Active(w.list, All(w)))

reconcileNewReplicaSet(w) ==
    LET n == CHOOSE m \in w.new : TRUE
        current == w.list[n].replicas
        size == IF current > w.d.replicas THEN w.d.replicas
                ELSE newRSNewReplicas(w.d, w.list, All(w), current)
    IN  IF size = current THEN <<>> ELSE <<To(n, size)>>

MaxScaledDown(w) ==
    Total(w.list, All(w)) - minAvailable(w.d)
      - (Total(w.list, w.new) - Available(w.list, w.new))

\* cleanupUnhealthyReplicas: old pods that are not available go first.  A
\* ReplicaSet that reports more than it should have is an error.
cleanupUnhealthyReplicas(w, most) ==
    FoldLeft(LAMBDA acc, n :
        LET r == w.list[n]
            down == Min({most - acc.down, r.replicas - r.available})
        IN  IF acc.failed \/ acc.down >= most \/ r.replicas = r.available THEN acc
            ELSE IF down < 0 THEN [acc EXCEPT !.failed = TRUE]
            ELSE [acc EXCEPT !.down = acc.down + down,
                             !.todo = Append(acc.todo, To(n, r.replicas - down))],
        [failed |-> FALSE, down |-> 0, todo |-> <<>>],
        ByAge(w.list, Active(w.list, Old(w))))

\* scaleDownOldReplicaSetsForRollingUpdate: what is available beyond the minimum
scaleDownOld(w, l) ==
    LET olds == Active(w.list, Old(w))
        spare == Available(l, olds \cup w.new) - minAvailable(w.d)
    IN  FoldLeft(LAMBDA acc, n :
            LET down == Min({l[n].replicas, spare - acc.down})
            IN  IF acc.down >= spare \/ l[n].replicas = 0 THEN acc
                ELSE [down |-> acc.down + down,
                      todo |-> Append(acc.todo, To(n, l[n].replicas - down))],
            [down |-> 0, todo |-> <<>>], ByAge(l, olds))

ThenScaleDown(w, clean) ==
    LET size(n) == LET s == {i \in 1 .. Len(clean.todo) : clean.todo[i].name = n}
                   IN  IF s = {} THEN w.list[n].replicas
                       ELSE clean.todo[CHOOSE i \in s : TRUE].size
        then == [n \in Names |-> [w.list[n] EXCEPT !.replicas = size(n)]]
    IN  [failed |-> clean.failed,
         todo |-> IF clean.failed THEN clean.todo ELSE clean.todo \o scaleDownOld(w, then).todo]
reconcileOldReplicaSets(w) ==
    IF Active(w.list, Old(w)) = {} \/ MaxScaledDown(w) <= 0
    THEN [failed |-> FALSE, todo |-> <<>>]
    ELSE ThenScaleDown(w, cleanupUnhealthyReplicas(w, MaxScaledDown(w)))

(***************************************************************************)
(* Requests, and the informers' callbacks: the object is indexed, and the  *)
(* key queued (addReplicaSet, updateReplicaSet, deleteReplicaSet: for its  *)
(* own ReplicaSets and for orphans that it may adopt).                     *)
(***************************************************************************)
Key == keyed' = [keyed EXCEPT !.now = TRUE]

WriteDep(new) == dep' = new /\ depCache' = new /\ Key

WriteRS(n, new) ==
    /\ rss' = [rss EXCEPT ![n] = new] /\ rsCache' = [rsCache EXCEPT ![n] = new]
    /\ IF /\ depCache.state # "gone" /\ new # rsCache[n]
          /\ new.owned \/ rsCache[n].owned \/ (new.match /\ ~Live(rsCache[n]))
       THEN Key ELSE UNCHANGED keyed

(***************************************************************************)
(* Users.                                                                  *)
(***************************************************************************)
Change == changed < MaxChanges /\ changed' = changed + 1

ChangeDeployment ==
    /\ dep.state = "live"
    /\ \/ \E t \in Templates \ {dep.template} :
             WriteDep([dep EXCEPT !.template = t, !.gen = dep.gen + 1])
       \/ \E k \in 0 .. MaxReplicas \ {dep.replicas} :
             WriteDep([dep EXCEPT !.replicas = k, !.gen = dep.gen + 1])
       \/ WriteDep([dep EXCEPT !.paused = ~dep.paused, !.gen = dep.gen + 1])
    /\ Change
    /\ UNCHANGED <<rss, rsCache, leaving, syncer>>

\* A deletion in the foreground waits for the ReplicaSets to go, others do not.
DeleteDeployment ==
    /\ \E s \in {"deleting", "gone"} \ {dep.state} :
         dep.state # "gone" /\ WriteDep([dep EXCEPT !.state = s])
    /\ Change
    /\ UNCHANGED <<rss, rsCache, leaving, syncer>>

(***************************************************************************)
(* The ReplicaSet controller and the kubelets.                             *)
(***************************************************************************)
\* The pods a ReplicaSet asks for are made, or deleted, those that are not
\* available first, and its status says so.
RunPods(n) ==
    LET r == rss[n]
        new == [r EXCEPT !.pods = r.replicas, !.observed = r.gen,
                         !.available = Min({r.available, r.replicas})]
    IN  /\ Live(r) /\ new # r
        /\ WriteRS(n, new)
        /\ leaving' = IF r.replicas < r.pods THEN leaving \cup {n} ELSE leaving
        /\ UNCHANGED <<dep, depCache, syncer, changed>>

PodAvailable(n) ==
    /\ rss[n].available < rss[n].pods
    /\ WriteRS(n, [rss[n] EXCEPT !.available = @ + 1])
    /\ UNCHANGED <<dep, depCache, leaving, syncer, changed>>

\* The last of the pods goes: deletePod queues a Deployment that recreates.
Running(n) == rss[n].pods > 0 \/ n \in leaving
PodsLeave(n) ==
    /\ n \in leaving
    /\ leaving' = leaving \ {n}
    /\ IF /\ depCache.state # "gone" /\ ~Rolling(depCache)
          /\ \A m \in {k \in Names : rss[k].owned} : rss[m].pods = 0 /\ m \notin leaving \ {n}
       THEN Key ELSE UNCHANGED keyed
    /\ UNCHANGED <<dep, rss, depCache, rsCache, syncer, changed>>

(***************************************************************************)
(* The worker: one sync at a time, and a retry after a failed one.  (After *)
(* fifteen failures in a row it gives up; so many are not modelled.)       *)
(***************************************************************************)
Goes(w)  == syncer' = w
Succeeds(later) ==
    syncer' = Resting /\ keyed' = [keyed EXCEPT !.later = keyed.later \/ later]
Fails == Succeeds(TRUE)

\* What cleanupDeployment deletes: ReplicaSets that are done, beyond the limit.
CleanedUp(w) ==
    LET sorted == ByRevision(w.list, Old(w))
        first == SubSeq(sorted, 1, Max({0, Len(sorted) - HistoryLimit}))
    IN  SelectSeq(first, LAMBDA n : /\ w.list[n].pods = 0 /\ w.list[n].replicas = 0
                                    /\ w.list[n].gen <= w.list[n].observed)

\* Where a sync goes when it has scaled what it wanted to.
ThenCleanup(w) ==
    LET done == IF w.stage = "scale" \/ deploymentComplete(w.d, w.d.status)
                THEN CleanedUp(w) ELSE <<>>
    IN  [w EXCEPT !.pc = IF done = <<>> THEN "status" ELSE "cleanup", !.todo = done]
Scaling(w, todo, after) ==
    IF todo # <<>> THEN [w EXCEPT !.pc = "scaling", !.todo = todo, !.after = after]
    ELSE IF after = "cleanup" THEN ThenCleanup(w) ELSE [w EXCEPT !.pc = "status"]

\* syncDeployment after checkPausedConditions, and after isScalingEvent
Dispatch(w) == [w EXCEPT !.pc = "revise", !.stage = IF w.d.paused THEN "scale" ELSE "probe"]
isScalingEvent(w) ==
    \E n \in Active(w.list, All(w)) : w.list[n].desired \notin {-1, w.d.replicas}

oldPodsRunning(w) == Actual(w.list, Old(w)) > 0 \/ w.running \ w.new # {}

\* rolloutRolling, rolloutRecreate, sync and syncStatusOnly, when the new
\* ReplicaSet is known.
ScaleThen(todo, after) == [todo |-> todo, after |-> after, swallow |-> FALSE]
ToDesired(w) ==
    LET off == {n \in w.new : w.list[n].replicas # w.d.replicas}
    IN  [i \in 1 .. Cardinality(off) |-> To(CHOOSE n \in off : TRUE, w.d.replicas)]
scaleDownForRolling(old) ==
    [ScaleThen(old.todo, IF old.failed \/ old.todo = <<>> THEN "cleanup" ELSE "status")
        EXCEPT !.swallow = TRUE]
rolloutRolling(w, up) ==
    IF up # <<>> THEN ScaleThen(up, "status")
    ELSE scaleDownForRolling(reconcileOldReplicaSets(w))
Plan(w) ==
    CASE w.stage = "scale" -> ScaleThen(scale(w), IF w.d.paused THEN "cleanup" ELSE "status")
      [] w.stage = "Recreate" /\ Active(w.list, Old(w)) # {} ->
            ScaleThen(ToZero(w, Active(w.list, Old(w))), "status")
      [] w.stage = "RollingUpdate" -> rolloutRolling(w, reconcileNewReplicaSet(w))
      [] OTHER -> ScaleThen(ToDesired(w), "cleanup")
Follows(w, plan) == Scaling([w EXCEPT !.swallow = plan.swallow], plan.todo, plan.after)
Revised(w) ==
    CASE w.stage = "deleting" -> [w EXCEPT !.pc = "status"]
      [] w.stage = "probe" ->
           [w EXCEPT !.pc = "revise",
                     !.stage = IF isScalingEvent(w) THEN "scale" ELSE w.d.strategy]
      [] w.stage = "Recreate" /\ Active(w.list, Old(w)) = {} /\ oldPodsRunning(w) ->
           [w EXCEPT !.pc = "status"]
      [] w.stage = "Recreate" /\ Active(w.list, Old(w)) = {} /\ ~oldPodsRunning(w)
           /\ w.new = {} -> [w EXCEPT !.pc = "revise", !.stage = "create"]
      [] OTHER -> Follows(w, Plan(w))

\* updateDeploymentStatus: the API server takes the status and nothing else.
PutStatus(w, after) ==
    IF dep.state = "gone" THEN Fails /\ UNCHANGED <<dep, depCache>>
    ELSE /\ WriteDep([dep EXCEPT !.status = w.d.status])
         /\ Goes([w EXCEPT !.pc = "wrote", !.after = after])

\* The worker indexes the copy it sent.
IndexesCopy(w)   == w.d
Wrote ==
    LET w == syncer IN
    /\ w.pc = "wrote"
    /\ depCache' = IndexesCopy(w)
    /\ CASE w.after = "dispatch" -> Goes(Dispatch(w)) /\ UNCHANGED keyed
         [] w.after = "revised"  -> Goes(Revised(w)) /\ UNCHANGED keyed
         [] w.after = "fail"     -> Fails
         [] OTHER                -> Succeeds(FALSE)
    /\ UNCHANGED <<dep, rss, rsCache, leaving, changed>>

StartSync ==
    LET mine == [n \in Names |-> IF rsCache[n].owned \/ (rsCache[n].match /\ depCache.state = "live")
                                 THEN rsCache[n] ELSE NoRS]
    IN  /\ syncer.pc = "idle" /\ keyed.now
        /\ IF depCache.state = "gone"
           THEN UNCHANGED syncer
           ELSE Goes([Resting EXCEPT !.pc = "claim", !.d = depCache, !.list = mine,
                        !.orphans = {n \in Names : mine[n].match /\ ~mine[n].owned}])
        /\ keyed' = [keyed EXCEPT !.now = FALSE]
        /\ UNCHANGED <<dep, rss, depCache, rsCache, leaving, changed>>

\* ClaimObject: an orphan is adopted if the Deployment is still there.
Adopt(n) ==
    LET w == [syncer EXCEPT !.orphans = @ \ {n}] IN
    /\ w.pc = "claim" /\ n \in syncer.orphans
    /\ CASE dep.state # "live" -> Fails /\ UNCHANGED <<rss, rsCache>>
         [] dep.state = "live" /\ ~Live(rss[n]) ->
               Goes([w EXCEPT !.list[n] = NoRS]) /\ UNCHANGED <<rss, rsCache, keyed>>
         [] OTHER -> /\ WriteRS(n, [rss[n] EXCEPT !.owned = TRUE])
                     /\ Goes(w)
    /\ UNCHANGED <<dep, depCache, leaving, changed>>

\* getPodMapForDeployment, checkPausedConditions
Claimed ==
    LET st == syncer.d.status
        w == [syncer EXCEPT !.running =
                {n \in DOMAIN syncer.list : Live(syncer.list[n]) /\ Running(n)}]
    IN  /\ w.pc = "claim" /\ w.orphans = {}
        /\ IF /\ w.d.state = "live" /\ st.progress # "timedout"
              /\ w.d.paused # (st.progress = "paused")
           THEN PutStatus([w EXCEPT !.d.status.progress =
                             IF w.d.paused THEN "paused" ELSE "resumed"], "dispatch")
           ELSE /\ Goes(IF w.d.state = "live" THEN Dispatch(w)
                        ELSE [w EXCEPT !.pc = "revise", !.stage = "deleting"])
                /\ UNCHANGED <<dep, depCache, keyed>>
        /\ UNCHANGED <<rss, rsCache, leaving, changed>>

\* The worker indexes a ReplicaSet it wrote, in the state it was answered.
Answered(w, n, obj, back) ==
    Goes([w EXCEPT !.pc = "answered", !.own = {[name |-> n, obj |-> obj]}, !.after = back])
IndexAnswer ==
    LET w == [syncer EXCEPT !.own = {}] IN
    /\ w.pc = "answered"
    /\ \E o \in syncer.own : rsCache' = [rsCache EXCEPT ![o.name] = o.obj]
    /\ IF w.after = "revised" THEN Goes(Revised(w))
       ELSE Goes([w EXCEPT !.pc = "scaling"])
    /\ UNCHANGED <<dep, rss, depCache, leaving, keyed, changed>>

\* getNewReplicaSet: the new ReplicaSet is there.  Its revision is brought up
\* to date, or else the Deployment's own record of it.  What isScalingEvent
\* is answered does not reach the list that the rollout starts from.
ReviseExisting ==
  /\ syncer.pc = "revise"
  /\ \E n \in findNewReplicaSet(syncer.d, syncer.list,
                               {m \in Names : syncer.list[m].state # "none"}) :
       LET w == [syncer EXCEPT !.new = {n}]
           r == w.list[n]
           next == maxRevision(w.list, Old(w)) + 1
           new == [r EXCEPT !.revision = next]
           progress == IF w.d.status.progress = "none" THEN "found"
                       ELSE w.d.status.progress
           d == [w.d EXCEPT !.revision = r.revision, !.status.progress = progress]
       IN  /\ CASE r.revision < next /\ rss[n] = r ->
                     /\ WriteRS(n, new)
                     /\ Answered(IF w.stage = "probe" THEN w ELSE [w EXCEPT !.list[n] = new],
                                 n, new, "revised")
                     /\ UNCHANGED <<dep, depCache>>
                [] r.revision < next /\ rss[n] # r ->
                     Fails /\ UNCHANGED <<dep, depCache, rss, rsCache>>
                [] r.revision >= next /\ d # w.d ->
                     PutStatus([w EXCEPT !.d = d], "revised") /\ UNCHANGED <<rss, rsCache>>
                [] OTHER -> Goes(Revised(w))
                            /\ UNCHANGED <<dep, depCache, rss, rsCache, keyed>>
           /\ UNCHANGED <<leaving, changed>>

\* There is no new ReplicaSet, and none is wanted yet or one is created.  A
\* name that is taken is the new ReplicaSet if the cache shows it so, and a
\* collision otherwise.
NewExists(w) ==
    findNewReplicaSet(w.d, w.list, {m \in Names : w.list[m].state # "none"}) # {}
ReviseMissing ==
    LET w == [syncer EXCEPT !.new = {}] IN
    /\ w.pc = "revise" /\ ~NewExists(w)
    /\ w.stage \notin {"RollingUpdate", "create"}
    /\ Goes(Revised(w))
    /\ UNCHANGED <<dep, rss, depCache, rsCache, leaving, keyed, changed>>

Creating == syncer.pc = "revise" /\ ~NewExists(syncer)
                                 /\ syncer.stage \in {"RollingUpdate", "create"}
NewName(d) == <<d.template, d.status.collisions>>
NewRS(w) ==
    [NoRS EXCEPT !.state = "live", !.owned = TRUE, !.match = TRUE,
        !.template = w.d.template, !.gen = 1,
        !.replicas = newRSNewReplicas(w.d, w.list, Old(w), 0),
        !.desired = w.d.replicas, !.max = w.d.replicas + Surge(w.d),
        !.revision = maxRevision(w.list, Old(w)) + 1,
        !.born = Max({rss[n].born : n \in Names}) + 1]

Create ==
    LET w == [syncer EXCEPT !.new = {NewName(syncer.d)}]
        n == NewName(w.d)
        new == NewRS([w EXCEPT !.new = {}])
        done == [w EXCEPT !.list[n] = new, !.d.revision = new.revision,
                          !.d.status.progress = "new"]
    IN  /\ Creating /\ ~Live(rss[n])
        /\ WriteRS(n, new)
        /\ Goes([done EXCEPT !.pc = "created"])
        /\ UNCHANGED <<dep, depCache, leaving, changed>>
Created ==
    LET w == syncer  n == NewName(w.d) IN
    /\ w.pc = "created"
    /\ rsCache' = [rsCache EXCEPT ![n] = w.list[n]]
    /\ PutStatus(w, "revised")
    /\ UNCHANGED <<rss, leaving, changed>>

IsTheNewOne(w, r) == r.owned /\ r.template = w.d.template
NameTaken ==
    LET w == [syncer EXCEPT !.new = {NewName(syncer.d)}]
        n == NewName(w.d)
        cached == rsCache[n]
        revision == maxRevision(w.list, Old(w)) + 1
        found == [w EXCEPT !.list[n] = cached, !.d.revision = revision]
    IN  /\ Creating /\ Live(rss[n])
        /\ CASE ~Live(cached) -> Fails /\ UNCHANGED <<dep, depCache>>
             [] Live(cached) /\ IsTheNewOne(w, cached) ->
                  IF w.d.revision # revision THEN PutStatus(found, "revised")
                  ELSE Goes(Revised(found)) /\ UNCHANGED <<dep, depCache, keyed>>
             [] OTHER -> /\ w.d.status.collisions < MaxCollisions
                         /\ PutStatus([w EXCEPT !.d.status.collisions = @ + 1], "fail")
        /\ UNCHANGED <<rss, rsCache, leaving, changed>>

CreateFails ==
    /\ Creating
    /\ PutStatus([syncer EXCEPT !.d.status.progress = "failed"], "fail")
    /\ Change
    /\ UNCHANGED <<rss, rsCache, leaving>>

\* scaleReplicaSet, on the version of the copy.  A rollout goes on when an old
\* ReplicaSet cannot be scaled, any other sync fails.
Rescaled(r, d, size) ==
    [r EXCEPT !.replicas = size, !.desired = d.replicas,
              !.max = d.replicas + Surge(d),
              !.gen = IF size = r.replicas THEN r.gen ELSE r.gen + 1]
scaleReplicaSet ==
    /\ syncer.pc = "scaling" /\ syncer.todo # <<>>
    /\ LET t == Head(syncer.todo)
           w == [syncer EXCEPT !.todo = Tail(syncer.todo)]
           new == Rescaled(w.list[t.name], w.d, t.size)
       IN  CASE rss[t.name] = w.list[t.name] ->
                  /\ WriteRS(t.name, new)
                  /\ Goes([w EXCEPT !.pc = "scaled", !.list[t.name] = new,
                                    !.own = {[name |-> t.name, obj |-> new]}])
             [] w.swallow /\ rss[t.name] # w.list[t.name] ->
                  Goes(ThenCleanup([w EXCEPT !.todo = <<>>]))
                  /\ UNCHANGED <<rss, rsCache, keyed>>
             [] OTHER -> Fails /\ UNCHANGED <<rss, rsCache>>
    /\ UNCHANGED <<dep, depCache, leaving, changed>>
Scaled ==
    LET w == [syncer EXCEPT !.own = {}] IN
    /\ w.pc = "scaled"
    /\ \E o \in syncer.own : rsCache' = [rsCache EXCEPT ![o.name] = o.obj]
    /\ Goes(Scaling(w, w.todo, w.after))
    /\ UNCHANGED <<dep, rss, depCache, leaving, keyed, changed>>

\* cleanupDeployment: by name; one that is gone already is no error.
cleanupDeployment ==
    LET w == [syncer EXCEPT !.todo = Tail(syncer.todo)]
        n == Head(syncer.todo)
    IN  /\ syncer.pc = "cleanup"
        /\ IF Live(rss[n]) THEN WriteRS(n, NoRS)
           ELSE UNCHANGED <<rss, rsCache, keyed>>
        /\ Goes([w EXCEPT !.pc = IF w.todo = <<>> THEN "status" ELSE "cleanup"])
        /\ UNCHANGED <<dep, depCache, leaving, changed>>

\* calculateStatus, syncRolloutStatus and syncDeploymentStatus; late says that
\* the progress deadline is over.
calculateStatus(w) ==
    [w.d.status EXCEPT !.observed = w.d.gen, !.replicas = Actual(w.list, All(w)),
        !.updated = Actual(w.list, w.new), !.available = Available(w.list, All(w))]
Progress(w, late) ==
    LET st == calculateStatus(w)  was == w.d.status.progress IN
    IF \/ w.stage \in {"deleting", "scale"}
       \/ was = "complete" /\ st.replicas = st.updated
    THEN was
    ELSE IF deploymentComplete(w.d, st) THEN "complete"
    ELSE IF deploymentProgressing(w.d.status, st) THEN "updated"
    ELSE IF late /\ was \notin {"none", "complete"} THEN "timedout" ELSE was

SyncStatus(late) ==
    LET w == syncer
        st == [calculateStatus(w) EXCEPT !.progress = Progress(w, late)]
        stuck == /\ w.stage \notin {"deleting", "scale"}
                 /\ st.progress \notin {"none", "timedout"}
                 /\ ~deploymentComplete(w.d, st)
    IN  /\ w.pc = "status"
        /\ late => Progress(w, FALSE) # Progress(w, TRUE)
        /\ IF st = w.d.status THEN Succeeds(stuck) /\ UNCHANGED <<dep, depCache>>
           ELSE PutStatus([w EXCEPT !.d.status = st], "done")
        /\ UNCHANGED <<rss, rsCache, leaving, changed>>

\* The delay of a retry, or of a look at a rollout that is stuck, is over.
Requeue ==
    /\ keyed.later
    /\ keyed' = [keyed EXCEPT !.now = TRUE, !.later = FALSE]
    /\ UNCHANGED <<dep, rss, depCache, rsCache, leaving, syncer, changed>>

-----------------------------------------------------------------------------
Worker == \/ StartSync \/ Claimed \/ Wrote \/ IndexAnswer
          \/ \E n \in Names : Adopt(n)
          \/ ReviseExisting \/ ReviseMissing \/ Create \/ Created \/ NameTaken
          \/ scaleReplicaSet \/ Scaled \/ cleanupDeployment \/ SyncStatus(FALSE)

DeploymentNext ==
    \/ Worker \/ SyncStatus(TRUE) \/ CreateFails
    \/ ChangeDeployment \/ DeleteDeployment
    \/ \E n \in Names : RunPods(n) \/ PodAvailable(n) \/ PodsLeave(n)
    \/ Requeue

-----------------------------------------------------------------------------
(***************************************************************************)
(* Properties.                                                             *)
(***************************************************************************)
Owned == {n \in Names : Live(rss[n]) /\ rss[n].owned}

\* findNewReplicaSet and the create under a hashed name: whatever the cache
\* shows, a template never has two ReplicaSets, and no two have one revision.
OneForEachTemplate ==
    \A m, n \in Owned : m # n => /\ rss[m].template # rss[n].template
                                 /\ rss[m].revision # rss[n].revision \/ rss[m].revision = 0

Steps == syncer.pc # "idle"
Asked == MapThenSumSet(LAMBDA n : rss[n].replicas, {n \in Names : rss[n].match})
Promised == MapThenSumSet(LAMBDA n : Min({rss[n].replicas, rss[n].available}), Owned)

\* reconcileNewReplicaSet and scale: as the API server has it, the worker never
\* asks for more pods than spec.replicas and the surge, for those it knew.
NeverOverSurge == Steps /\ Asked' > Asked => Asked' <= syncer.d.replicas + Surge(syncer.d)

\* reconcileOldReplicaSets: a rollout does not take available pods below the
\* minimum, by what the API server has.
NeverBelowMinimum ==
    Steps /\ syncer.stage = "RollingUpdate" /\ Promised' < Promised
    => Promised' >= minAvailable(syncer.d)

\* rolloutRecreate: a ReplicaSet gets its first pods when no other has any.
RecreateWaits ==
    \A n \in Names :
       Steps /\ syncer.stage \in {"Recreate", "create"}
         /\ rss[n].replicas = 0 /\ rss'[n].replicas > 0
       => \A m \in Owned \ {n} : ~Running(m)

\* cleanupDeployment deletes by name and on a copy: what it deletes is done.
OnlyDoneIsDeleted ==
    \A n \in Names : Steps /\ Live(rss[n]) /\ ~Live(rss'[n])
                     => rss[n].owned /\ rss[n].replicas = 0 /\ rss[n].pods = 0

\* Another's ReplicaSet, whose name is a collision, stays as it is.
ForeignIsLeft ==
    LET Spec(r) == <<r.state, r.owned, r.match, r.replicas, r.revision, r.gen>>
    IN  \A n \in Names : Live(rss[n]) /\ ~rss[n].match => Spec(rss'[n]) = Spec(rss[n])

\* All of these of every step.
RollsOutSafely ==
    NeverOverSurge /\ NeverBelowMinimum /\ RecreateWaits /\ OnlyDoneIsDeleted /\ ForeignIsLeft
DeploymentSteps == [][RollsOutSafely]_depVars

-----------------------------------------------------------------------------
(***************************************************************************)
(* The worker's loop ends only with the program, requests are answered,    *)
(* delays end, and the ReplicaSet controller and the kubelets do their     *)
(* part.                                                                   *)
(***************************************************************************)
DeploymentFairness ==
    /\ WF_depVars(Worker) /\ WF_depVars(Requeue)
    /\ \A n \in Names : /\ WF_depVars(RunPods(n)) /\ WF_depVars(PodAvailable(n))
                         /\ WF_depVars(PodsLeave(n))

DeploymentSpec == DeploymentInit /\ [][DeploymentNext]_depVars /\ DeploymentFairness

RolledOut ==
    dep.state = "live" /\ ~dep.paused =>
       /\ \E n \in Owned : rss[n].template = dep.template
       /\ \A n \in Owned :
            /\ rss[n].pods = IF rss[n].template = dep.template THEN dep.replicas ELSE 0
            /\ rss[n].available = rss[n].pods

\* rolloutRolling, rolloutRecreate: an unpaused Deployment ends up with all its
\* pods in the ReplicaSet of its template, if the caches, whenever the worker
\* rests, end up showing what the API server has.
CachesAreFresh == syncer.pc = "idle" => depCache = dep /\ rsCache = rss
RolloutCompletes == <>[]CachesAreFresh => <>[]RolledOut

\* tests/deployment.test.ts, "should replace every pod when a deployment image
\* changes": the change of the template is enough for that.
ChangeReplacesEveryPod == <>[]RolledOut
=============================================================================

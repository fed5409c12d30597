----------------------------- MODULE ReplicaSet -----------------------------
(***************************************************************************)
(* The ReplicaSet controller (controller/replicaset) and one ReplicaSet:   *)
(* its worker claims the pods it finds in its cache, creates or deletes    *)
(* the difference, and writes the status, one API request after another.   *)
(* Its caches are filled by two informers, which deliver what happened in  *)
(* order and at any later time; what the controller did itself and has not *)
(* seen yet is kept in expectations (controller-utils.ts) and in the       *)
(* consistency store.                                                      *)
(*                                                                         *)
(* ReplicaSets share a worker and otherwise only compete for orphans, so   *)
(* one is modelled, and a pod's owner is it or nobody.  Left out:          *)
(* availability after minReadySeconds, namespaces that terminate, and the  *)
(* expiry of expectations after five minutes (events arrive before).       *)
(***************************************************************************)
EXTENDS Integers, Sequences, FiniteSets, FiniteSetsExt

CONSTANTS
    MaxPods,       \* bound: pods that ever exist
    Orphans,       \* the pods that exist before the ReplicaSet, and match it
    MaxReplicas,   \* bound: spec.replicas
    Burst,         \* burstReplicas (500 in the code)
    MaxLag,        \* bound: pod events indexed, or handled, behind the API server
    MaxEvents      \* bound: what users and nodes do, and requests that fail

ASSUME ReplicaSetAssumption ==
    /\ MaxPods \in Nat /\ MaxReplicas \in Nat /\ Burst \in Nat \ {0}
    /\ MaxLag \in Nat \ {0} /\ Orphans \subseteq 1 .. MaxPods
    /\ MaxEvents \in Nat

PodIds == 1 .. MaxPods

VARIABLES
    rs, pods,            \* what the API server holds
    rsEvents, podEvents, \* watch events the informers have not delivered
    rsCache, podCache,   \* rsIndexer, podIndexer
    handling,            \* pod events that are indexed and not yet handled
    exp,                 \* expectations: counts, and the keys of pods to go
    wrote,               \* consistencyStore: events still to come of its own writes
    queue,               \* the key is queued, or will be after its rate limit
    worker,              \* the sync in progress
    made, doomed,        \* pods the controller created; pods it deleted
    events               \* what happened so far, against the bound

apiVars   == <<rs, pods, rsEvents, podEvents>>
cacheVars == <<rsCache, podCache, handling>>
rsVars == <<apiVars, cacheVars, exp, wrote, queue, worker, made, doomed, events>>

NoPod == [state |-> "none", owned |-> FALSE, match |-> FALSE]
NoExp == [exists |-> FALSE, add |-> 0, del |-> 0, uids |-> {}]
AtRest == [pc |-> "idle", copy |-> [state |-> "gone"], needs |-> FALSE, todo |-> {},
           claimed |-> {}, canAdopt |-> "unknown", err |-> FALSE, left |-> 0,
           batch |-> 0, calls |-> 0, made |-> 0, doing |-> {}, body |-> 0]

NewStatus(count, failed, gen) == [count |-> count, failed |-> failed, observed |-> gen]

Active(p) == p.state = "active"
NotThere(p) == p.state \in {"none", "gone"}

RSInit ==
    /\ rs = [state |-> "live", replicas |-> MaxReplicas, gen |-> 1, ver |-> 1,
              status |-> NewStatus(0, FALSE, 0)]
    /\ pods = [p \in PodIds |-> IF p \in Orphans
                                 THEN [state |-> "active", owned |-> FALSE, match |-> TRUE]
                                 ELSE NoPod]
    /\ rsCache = rs /\ podCache = pods
    /\ rsEvents = <<>> /\ podEvents = <<>> /\ handling = <<>>
    /\ exp = NoExp /\ wrote = [rs |-> 0, pods |-> 0]
    /\ queue = [now |-> TRUE, later |-> FALSE]
    /\ worker = AtRest /\ made = {} /\ doomed = {} /\ events = 0

(***************************************************************************)
(* The API server: each write is an event.                                 *)
(***************************************************************************)
WritePod(p, pod) ==
    /\ Len(podEvents) < MaxLag
    /\ pods' = [pods EXCEPT ![p] = pod]
    /\ podEvents' = Append(podEvents, [pod |-> p, obj |-> pod])

WriteRS(new) ==
    /\ rs' = [new EXCEPT !.ver = rs.ver + 1]
    /\ rsEvents' = Append(rsEvents, rs')

Counted == /\ events < MaxEvents /\ events' = events + 1
           /\ UNCHANGED <<cacheVars, exp, wrote, queue, worker, made, doomed>>

Scale ==
    /\ rs.state = "live"
    /\ \E n \in 0 .. MaxReplicas \ {rs.replicas} :
         WriteRS([rs EXCEPT !.replicas = n, !.gen = rs.gen + 1])
    /\ Counted /\ UNCHANGED <<pods, podEvents>>

\* A foreground deletion waits for the pods to go; any other does not.
DeleteRS ==
    /\ rs.state # "gone"
    /\ \E s \in {"deleting", "gone"} \ {rs.state} : WriteRS([rs EXCEPT !.state = s])
    /\ Counted /\ UNCHANGED <<pods, podEvents>>

\* A pod finishes, is deleted with or without a grace period, or is relabelled.
PodChanges(p) ==
    /\ Active(pods[p])
    /\ \/ \E s \in {"done", "deleting", "gone"} : WritePod(p, [pods[p] EXCEPT !.state = s])
       \/ /\ pods[p].match
          /\ WritePod(p, [pods[p] EXCEPT !.match = FALSE])
    /\ Counted /\ UNCHANGED <<rs, rsEvents>>

\* The kubelet has stopped a pod that was deleted.
PodGoes(p) ==
    /\ pods[p].state = "deleting"
    /\ WritePod(p, [pods[p] EXCEPT !.state = "gone"])
    /\ UNCHANGED <<rs, rsEvents, cacheVars, exp, wrote, queue, worker, made, doomed,
                   events>>

(***************************************************************************)
(* Expectations.                                                           *)
(***************************************************************************)
\* Mutant: deletions that are under way do not count as expected.
FulfilledByCreations == exp.add <= 0
Fulfilled == exp.add <= 0 /\ exp.del <= 0
satisfiedExpectations == exp.exists => Fulfilled

CreationsObserved(e, n) == IF e.exists THEN [e EXCEPT !.add = e.add - n] ELSE e
DeletionObserved(e, p) ==
    IF p \notin e.uids THEN e
    ELSE [e EXCEPT !.uids = e.uids \ {p}, !.del = IF e.exists THEN e.del - 1 ELSE e.del]

(***************************************************************************)
(* The informers' callbacks: a pod is indexed first and handled later.     *)
(***************************************************************************)
Enqueue == queue' = [queue EXCEPT !.now = TRUE]

Seen(n) == IF n = 0 THEN 0 ELSE n - 1

\* addRS, updateRS and deleteRS
HandleRS ==
    /\ rsEvents # <<>>
    /\ LET new == Head(rsEvents) IN
       /\ rsCache' = new
       /\ IF new.state = "gone"
          THEN exp' = NoExp /\ wrote' = [rs |-> 0, pods |-> 0]
          ELSE wrote' = [wrote EXCEPT !.rs = Seen(wrote.rs)] /\ UNCHANGED exp
    /\ rsEvents' = Tail(rsEvents)
    /\ Enqueue
    /\ UNCHANGED <<rs, pods, podEvents, podCache, handling, worker, made, doomed,
                   events>>

IndexPod ==
    /\ podEvents # <<>> /\ Len(handling) < MaxLag
    /\ LET e == Head(podEvents) IN
       /\ podCache' = [podCache EXCEPT ![e.pod] = e.obj]
       /\ handling' = Append(handling, [pod |-> e.pod, old |-> podCache[e.pod], new |-> e.obj])
    /\ podEvents' = Tail(podEvents)
    /\ wrote' = [wrote EXCEPT !.pods = Seen(wrote.pods)]
    /\ UNCHANGED <<rs, pods, rsEvents, rsCache, exp, queue, worker, made, doomed, events>>

InCache == rsCache.state # "gone"   \* resolveControllerRef, getPodReplicaSets

\* deletePod
PodDeleted(p, pod) ==
    IF pod.owned /\ InCache
    THEN exp' = DeletionObserved(exp, p) /\ Enqueue
    ELSE UNCHANGED <<exp, queue>>

\* addPod
PodAdded(new) ==
    IF new.owned
    THEN IF InCache THEN exp' = CreationsObserved(exp, 1) /\ Enqueue
                    ELSE UNCHANGED <<exp, queue>>
    ELSE IF new.match /\ InCache THEN Enqueue /\ UNCHANGED exp ELSE UNCHANGED <<exp, queue>>

\* updatePod, of a pod that is not being deleted
PodUpdated(old, new) ==
    /\ IF InCache /\ (old.owned \/ new.owned \/ (new.match /\ old.match # new.match))
       THEN Enqueue ELSE UNCHANGED queue
    /\ UNCHANGED exp

HandlePod ==
    /\ handling # <<>>
    /\ LET h == Head(handling) IN
       IF h.new.state \in {"deleting", "gone"} THEN PodDeleted(h.pod, h.new)
       ELSE IF NotThere(h.old) THEN PodAdded(h.new) ELSE PodUpdated(h.old, h.new)
    /\ handling' = Tail(handling)
    /\ UNCHANGED <<apiVars, rsCache, podCache, wrote, worker, made, doomed, events>>

\* The rate-limited key is due.
Due ==
    /\ queue.later /\ queue' = [now |-> TRUE, later |-> FALSE]
    /\ UNCHANGED <<apiVars, cacheVars, exp, wrote, worker, made, doomed, events>>

(***************************************************************************)
(* syncReplicaSet                                                          *)
(***************************************************************************)
\* forget or addRateLimited, then done
Ends(err) ==
    /\ worker' = AtRest
    /\ queue' = [queue EXCEPT !.later = queue.later \/ err]

ensureReady == wrote.rs = 0 /\ wrote.pods = 0

OthersUnchanged == UNCHANGED <<cacheVars, made, doomed>>

GetNotReady ==
    /\ worker.pc = "idle" /\ queue.now /\ ~ensureReady
    /\ queue' = [now |-> FALSE, later |-> TRUE]
    /\ UNCHANGED <<apiVars, exp, wrote, worker, events>> /\ OthersUnchanged

GetNotFound ==
    /\ worker.pc = "idle" /\ queue.now /\ ensureReady /\ ~InCache
    /\ queue' = [queue EXCEPT !.now = FALSE]
    /\ exp' = NoExp
    /\ UNCHANGED <<apiVars, wrote, worker, events>> /\ OthersUnchanged

\* needs is read together with the pods: those it owns, and all orphans.
StartSync ==
    /\ worker.pc = "idle" /\ queue.now /\ ensureReady /\ InCache
    /\ queue' = [queue EXCEPT !.now = FALSE]
    /\ worker' = [AtRest EXCEPT !.pc = "claim", !.copy = rsCache,
                              !.needs = satisfiedExpectations,
                              !.todo = {p \in PodIds : Active(podCache[p])},
                              !.body = rsCache.ver]
    /\ UNCHANGED <<apiVars, exp, wrote, events>> /\ OthersUnchanged

Cached(p) == podCache[p]

\* claimPods takes one pod after the other.
Claims(p) == worker.pc = "claim" /\ worker.todo # {} /\ p = Min(worker.todo)

\* claimObject without a request: keep what is owned and matches, pass over the
\* rest of what nothing can be done about.
ClaimAtOnce(p) ==
    /\ Claims(p)
    /\ \/ Cached(p).owned /\ Cached(p).match
          /\ worker' = [worker EXCEPT !.todo = @ \ {p}, !.claimed = @ \cup {p}]
       \/ /\ \/ Cached(p).owned /\ ~Cached(p).match /\ worker.copy.state = "deleting"
             \/ ~Cached(p).owned /\ (~Cached(p).match \/ worker.copy.state = "deleting")
          /\ worker' = [worker EXCEPT !.todo = @ \ {p}]
    /\ UNCHANGED <<apiVars, exp, wrote, queue, events>> /\ OthersUnchanged

Releases(p) == Cached(p).owned /\ ~Cached(p).match /\ worker.copy.state = "live"
Adopts(p)   == ~Cached(p).owned /\ Cached(p).match /\ worker.copy.state = "live"

\* releasePod: the patch is for this pod's UID, and none left is no error.
Release(p) ==
    /\ Claims(p) /\ Releases(p)
    /\ IF NotThere(pods[p]) THEN UNCHANGED <<pods, podEvents>>
       ELSE WritePod(p, [pods[p] EXCEPT !.owned = FALSE])
    /\ worker' = [worker EXCEPT !.todo = @ \ {p}]
    /\ UNCHANGED <<rs, rsEvents, exp, wrote, queue, events>> /\ OthersUnchanged

\* canAdopt: once in a sync, with a fresh read of the ReplicaSet
CanAdopt(p) ==
    /\ Claims(p) /\ Adopts(p) /\ worker.canAdopt = "unknown"
    /\ worker' = [worker EXCEPT !.canAdopt = IF rs.state = "live" THEN "yes" ELSE "no"]
    /\ UNCHANGED <<apiVars, exp, wrote, queue, events>> /\ OthersUnchanged

Adopt(p) ==
    /\ Claims(p) /\ Adopts(p) /\ worker.canAdopt # "unknown"
    /\ IF worker.canAdopt = "yes" /\ ~NotThere(pods[p])
       THEN /\ WritePod(p, [pods[p] EXCEPT !.owned = TRUE])
            /\ wrote' = [wrote EXCEPT !.pods = Len(podEvents')]
            /\ worker' = [worker EXCEPT !.todo = @ \ {p}, !.claimed = @ \cup {p}]
       ELSE /\ worker' = [worker EXCEPT !.todo = @ \ {p},
                                        !.err = @ \/ worker.canAdopt = "no"]
            /\ UNCHANGED <<pods, podEvents, wrote>>
    /\ UNCHANGED <<rs, rsEvents, exp, queue, events>> /\ OthersUnchanged

Claimed ==
    /\ worker.pc = "claim" /\ worker.todo = {}
    /\ IF worker.err THEN Ends(TRUE)
       ELSE /\ worker' = [worker EXCEPT !.pc = IF worker.needs /\ worker.copy.state = "live"
                                               THEN "manage" ELSE "status"]
            /\ UNCHANGED queue
    /\ UNCHANGED <<apiVars, exp, wrote, events>> /\ OthersUnchanged

(***************************************************************************)
(* manageReplicas                                                          *)
(***************************************************************************)
Least(a, b) == IF a < b THEN a ELSE b

Diff == Cardinality(worker.claimed) - worker.copy.replicas

Enough ==
    /\ worker.pc = "manage" /\ Diff = 0
    /\ worker' = [worker EXCEPT !.pc = "status"]
    /\ UNCHANGED <<apiVars, exp, wrote, queue, events>> /\ OthersUnchanged

\* The keys of the last deletions stay in their own store.
ExpectCreations ==
    /\ worker.pc = "manage" /\ Diff < 0
    /\ LET n == Least(-Diff, Burst) IN
       /\ exp' = [exists |-> TRUE, add |-> n, del |-> 0, uids |-> exp.uids]
       /\ worker' = [worker EXCEPT !.pc = "create", !.left = n, !.batch = Least(n, 1),
                                   !.calls = Least(n, 1), !.doing = {}]
    /\ UNCHANGED <<apiVars, wrote, queue, events>> /\ OthersUnchanged

Unused == {p \in PodIds : pods[p].state = "none"}

\* A call of the batch: the pod is created, or the API refuses.
CreatePod ==
    /\ worker.pc = "create" /\ worker.calls > 0
    /\ \/ /\ Unused # {}
          /\ LET p == Min(Unused) IN
             /\ WritePod(p, [state |-> "active", owned |-> TRUE, match |-> TRUE])
             /\ made' = made \cup {p}
          /\ wrote' = [wrote EXCEPT !.pods = Len(podEvents')]
          /\ worker' = [worker EXCEPT !.calls = @ - 1, !.made = @ + 1]
          /\ UNCHANGED events
       \/ /\ events < MaxEvents /\ events' = events + 1
          /\ worker' = [worker EXCEPT !.calls = @ - 1, !.err = TRUE]
          /\ UNCHANGED <<pods, podEvents, wrote, made>>
    /\ UNCHANGED <<rs, rsEvents, cacheVars, exp, queue, doomed>>

\* Mutant: the last batch is not cut to what is left.
NextBatchUncapped ==
    /\ worker.pc = "create" /\ worker.calls = 0
    /\ ~worker.err /\ worker.left > worker.batch
    /\ worker' = [worker EXCEPT !.left = 2 * worker.batch, !.batch = 2 * @,
                              !.calls = 2 * worker.batch]
    /\ UNCHANGED <<apiVars, exp, wrote, queue, events>> /\ OthersUnchanged

\* slowStartBatch: the next batch is twice as large, unless a call failed.
NextBatch ==
    /\ worker.pc = "create" /\ worker.calls = 0
    /\ ~worker.err /\ worker.left > worker.batch
    /\ LET left == worker.left - worker.batch
           n    == Least(2 * worker.batch, left) IN
       worker' = [worker EXCEPT !.left = left, !.batch = n, !.calls = n]
    /\ UNCHANGED <<apiVars, exp, wrote, queue, events>> /\ OthersUnchanged

\* Mutant: creations that failed stay expected.
LastBatchForgetsSkipped ==
    /\ worker.pc = "create" /\ worker.calls = 0
    /\ worker.err \/ worker.left = worker.batch
    /\ worker' = [worker EXCEPT !.pc = "status"]
    /\ UNCHANGED <<apiVars, exp, wrote, queue, events>> /\ OthersUnchanged

\* What was not created will not be observed.
LastBatch ==
    /\ worker.pc = "create" /\ worker.calls = 0
    /\ worker.err \/ worker.left = worker.batch
    /\ exp' = CreationsObserved(exp, Least(-Diff, Burst) - worker.made)
    /\ worker' = [worker EXCEPT !.pc = "status"]
    /\ UNCHANGED <<apiVars, wrote, queue, events>> /\ OthersUnchanged

\* getPodsToDelete ranks the pods; which of them go does not matter here.
ExpectDeletions ==
    /\ worker.pc = "manage" /\ Diff > 0
    /\ \E goes \in kSubset(Least(Diff, Burst), worker.claimed) :
         /\ exp' = [exists |-> TRUE, add |-> 0, del |-> Cardinality(goes), uids |-> goes]
         /\ worker' = [worker EXCEPT !.pc = "delete", !.doing = goes]
    /\ UNCHANGED <<apiVars, wrote, queue, events>> /\ OthersUnchanged

DeletePod(p) ==
    /\ worker.pc = "delete" /\ p \in worker.doing
    /\ \/ /\ pods[p].state \in {"active", "done"}
          /\ \E s \in {"deleting", "gone"} : WritePod(p, [pods[p] EXCEPT !.state = s])
          /\ UNCHANGED <<exp, events>>
          /\ worker' = [worker EXCEPT !.doing = @ \ {p}]
       \/ /\ pods[p].state = "deleting"
          /\ UNCHANGED <<pods, podEvents, exp, events>>
          /\ worker' = [worker EXCEPT !.doing = @ \ {p}]
       \/ /\ NotThere(pods[p])
          /\ exp' = DeletionObserved(exp, p)
          /\ worker' = [worker EXCEPT !.doing = @ \ {p}]
          /\ UNCHANGED <<pods, podEvents, events>>
       \/ /\ events < MaxEvents /\ events' = events + 1
          /\ exp' = DeletionObserved(exp, p)
          /\ worker' = [worker EXCEPT !.doing = @ \ {p}, !.err = TRUE]
          /\ UNCHANGED <<pods, podEvents>>
    /\ doomed' = IF pods'[p] # pods[p] THEN doomed \cup {p} ELSE doomed
    /\ UNCHANGED <<rs, rsEvents, cacheVars, wrote, queue, made>>

Deleted ==
    /\ worker.pc = "delete" /\ worker.doing = {}
    /\ worker' = [worker EXCEPT !.pc = "status"]
    /\ UNCHANGED <<apiVars, exp, wrote, queue, events>> /\ OthersUnchanged

(***************************************************************************)
(* updateReplicaSetStatus                                                  *)
(***************************************************************************)
\* calculateStatus of the copy and the pods that were claimed
Status == NewStatus(Cardinality(worker.claimed), worker.err, worker.copy.gen)

StatusUnchanged ==
    /\ worker.pc = "status" /\ worker.copy.status = Status
    /\ Ends(worker.err)
    /\ UNCHANGED <<apiVars, exp, wrote, events>> /\ OthersUnchanged

\* The body carries the version it was read at.
WriteStatus ==
    /\ \/ worker.pc = "status" /\ worker.copy.status # Status
       \/ worker.pc = "again"
    /\ rs.state # "gone" /\ worker.body = rs.ver
    /\ WriteRS([rs EXCEPT !.status = Status])
    /\ wrote' = [wrote EXCEPT !.rs = Len(rsEvents')]
    /\ Ends(worker.err)
    /\ UNCHANGED <<pods, podEvents, exp, events>> /\ OthersUnchanged

StatusConflicts ==
    /\ \/ /\ worker.pc = "status" /\ worker.copy.status # Status
          /\ worker' = [worker EXCEPT !.pc = "reread"] /\ UNCHANGED queue
       \/ worker.pc = "again" /\ Ends(TRUE)
    /\ rs.state = "gone" \/ worker.body # rs.ver
    /\ UNCHANGED <<apiVars, exp, wrote, events>> /\ OthersUnchanged

Reread ==
    /\ worker.pc = "reread"
    /\ IF rs.state = "gone" THEN Ends(TRUE)
       ELSE worker' = [worker EXCEPT !.pc = "again", !.body = rs.ver] /\ UNCHANGED queue
    /\ UNCHANGED <<apiVars, exp, wrote, events>> /\ OthersUnchanged

-----------------------------------------------------------------------------
Works ==
    \/ GetNotReady \/ GetNotFound \/ StartSync \/ Claimed
    \/ \E p \in PodIds : ClaimAtOnce(p) \/ Release(p) \/ CanAdopt(p) \/ Adopt(p) \/ DeletePod(p)
    \/ Enough \/ ExpectCreations \/ CreatePod \/ NextBatch \/ LastBatch
    \/ ExpectDeletions \/ Deleted
    \/ StatusUnchanged \/ WriteStatus \/ StatusConflicts \/ Reread

RSNext ==
    \/ Works \/ HandleRS \/ IndexPod \/ HandlePod \/ Due
    \/ Scale \/ DeleteRS
    \/ \E p \in PodIds : PodChanges(p) \/ PodGoes(p)

RSFairness ==
    /\ WF_rsVars(Works)
    /\ WF_rsVars(HandleRS) /\ WF_rsVars(IndexPod \/ HandlePod) /\ WF_rsVars(Due)
    /\ WF_rsVars(\E p \in PodIds : PodGoes(p))

RSSpec == RSInit /\ [][RSNext]_rsVars /\ RSFairness

-----------------------------------------------------------------------------
Mine(p) == Active(pods[p]) /\ pods[p].owned /\ pods[p].match

\* While it decides what to create or delete, the worker counts every pod it
\* created that is still there and none that it deleted, however late its
\* caches are (syncReplicaSet, satisfiedExpectations).
CountsItsOwn ==
    worker.pc \in {"manage", "create", "delete"} /\ rsCache.state # "gone" =>
      /\ \A p \in made \ worker.claimed : Mine(p) => worker.pc = "create"
      /\ doomed \cap worker.claimed # {} => worker.pc = "delete"

\* A pod the controller creates never exceeds the replicas that its copy of the
\* ReplicaSet asks for, whatever it has not yet seen (manageReplicas).
NeverTooMany ==
    [][\A p \in made' \ made :
         Cardinality({q \in PodIds : Mine(q)'}) <= worker.copy.replicas]_rsVars

Settled ==
    /\ Cardinality({p \in PodIds : Mine(p)}) = rs.replicas
    /\ rs.status = NewStatus(rs.replicas, FALSE, rs.gen)

\* When users leave it alone, the ReplicaSet comes to have the replicas it asks
\* for and says so in its status.
ReplicasAreRight == rs.state = "live" => Settled
ReplicasConverge == <>[]ReplicasAreRight
=============================================================================

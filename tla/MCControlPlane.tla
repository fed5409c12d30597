-------------------------- MODULE MCControlPlane --------------------------
(***************************************************************************)
(* The control plane: the API server's storage, the controllers and the    *)
(* scheduler, each on a small instance of its own: a behaviour picks one   *)
(* and runs it while the others rest, so one run explores them all.        *)
(*                                                                         *)
(*  - object: requests that create, edit and delete one object             *)
(*  - service: two requests on two services that share addresses and ports,*)
(*    an external one that names an address and one that repeats a port    *)
(*    among them                                                           *)
(*  - range: clients of one allocatable range, under the lock in etcd      *)
(*  - replicasets: a ReplicaSet that finds an orphan when it starts        *)
(*  - ranking: up to four of eight pods, ranked for deletion               *)
(*  - rolling, recreate: a Deployment of two templates, by either strategy;*)
(*    the second may find a name taken                                     *)
(*  - garbage, slices: the garbage collector, with three objects, one of   *)
(*    which takes the name of another; and with two, one of a kind without *)
(*    strategic merge patch                                                *)
(*  - namespaces: the namespace controller, with two kinds of content      *)
(*  - scheduler: the scheduler, with one name for pods and two nodes       *)
(***************************************************************************)
EXTENDS Store, ServiceStore, AllocatableRange, ReplicaSet, PodRanking, TLC

CONSTANT NoNode

VARIABLES
  part,                                                           \* what runs
  dep, rss, depCache, rssCache, leaving, syncer, keyed, changed,  \* Deployment
  objs, graph, seen, graphChanges, absentOwnerCache, attemptToDelete, \* GarbageCollector
  attemptToOrphan, deleter, orphaner, heirs, altered,
  ns, content, creating, lateOnes, news, names, queued, nsWorker, changes, \* NamespaceController
  nodes, schedPods, podNews, pending, binder, nextServer, gaveUp, steps \* Scheduler

RankedPod(uid, node, phase, readyAt, cost, restarts, created) ==
  [uid |-> uid, node |-> node, phase |-> phase, ready |-> phase = 2 /\ 2 \notin restarts,
   readyAt |-> readyAt, cost |-> cost, restarts |-> restarts, sidecarRestarts |-> {},
   created |-> created]
\* The first three make a circle of the last criteria.
RankedPods ==
  {RankedPod(1, "a", 2, 6, {}, {0}, 3), RankedPod(3, "a", 2, 6, {}, {0, 1}, 3),
   RankedPod(2, "a", 2, 7, {}, {0}, 3), RankedPod(4, "b", 2, 0, {}, {0}, 3),
   RankedPod(5, "b", 2, 4, {1}, {}, 3), RankedPod(6, "b", 2, 0, {}, {2}, 5),
   RankedPod(7, "", 0, 0, {}, {}, 3), RankedPod(8, "a", 0, 0, {-1}, {}, 7)}
RankedArrays ==
  UNION {{a \in [1 .. n -> RankedPods] : \A i, j \in 1 .. n : a[i] = a[j] => i = j} : n \in 1 .. 4}
PodsNearby ==
  {{}, {[pod |-> 1, node |-> "a", active |-> TRUE], [pod |-> 4, node |-> "b", active |-> TRUE],
        [pod |-> 5, node |-> "b", active |-> TRUE], [pod |-> 9, node |-> "a", active |-> FALSE]}}

Submitted(type, ip, ports) == [type |-> type, ip |-> ip, ports |-> ports]
SubmittedServices ==
  {Submitted("ExternalName", ip, <<>>) : ip \in IPs \cup {Elsewhere}} \cup
  {Submitted("ClusterIP", NotSet, <<>>), Submitted("NodePort", NotSet, <<NotSet>>)} \cup
  UNION {{Submitted("ClusterIP", NotSet, <<p>>), Submitted("NodePort", NotSet, <<p, NotSet>>)} \cup
         {Submitted("NodePort", ip, <<p, p>>) : ip \in IPs} : p \in NodePorts}

Ro == INSTANCE Deployment WITH
        rsCache <- rssCache, Templates <- {"a", "b"}, MaxReplicas <- 2, MaxCollisions <- 0,
        Strategies <- {"RollingUpdate"}, SurgePercent <- 25, UnavailablePercent <- 25,
        HistoryLimit <- 0, MaxChanges <- 1
Re == INSTANCE Deployment WITH
        rsCache <- rssCache, Templates <- {"a", "b"}, MaxReplicas <- 1, MaxCollisions <- 1,
        Strategies <- {"Recreate"}, SurgePercent <- 25, UnavailablePercent <- 25,
        HistoryLimit <- 0, MaxChanges <- 1

Owner(uid, block) == [uid |-> uid, name |-> "p", block |-> block]
Ga == INSTANCE GarbageCollector WITH
        Uids <- {"p", "q", "c"}, NameOf <- [p |-> "p", q |-> "p", c |-> "c"], Slices <- {},
        OwnerSets <- {{}, {Owner("p", TRUE)}, {Owner("q", FALSE)}, {Owner("p", TRUE), Owner("q", TRUE)}},
        MaxAlterations <- 1
Gs == INSTANCE GarbageCollector WITH
        Uids <- {"p", "c"}, NameOf <- [p |-> "p", c |-> "c"], Slices <- {"c"},
        OwnerSets <- {{}, {Owner("p", TRUE)}, {Owner("p", FALSE)},
                      {[uid |-> "p", name |-> "x", block |-> TRUE]}},
        MaxAlterations <- 2

Na == INSTANCE NamespaceController WITH
        queue <- names, worker <- nsWorker, late <- lateOnes, Names <- {"n", "m"}, KindCount <- 2,
        Capacity <- 5, Attempts <- 2, MaxChanges <- 4

Sc == INSTANCE Scheduler WITH
        pods <- schedPods, Pods <- {"p"}, Nodes <- {"a", "b"}, BindTries <- 2, MaxSteps <- 5

storageVars == <<vars, serviceVars, allRangeVars>>
depVars == <<dep, rss, depCache, rssCache, leaving, syncer, keyed, changed>>
gcVars  == <<objs, graph, seen, graphChanges, absentOwnerCache, attemptToDelete, attemptToOrphan,
             deleter, orphaner, heirs, altered>>
nsVars  == <<ns, content, creating, lateOnes, news, names, queued, nsWorker, changes>>
schedulerVars == <<nodes, schedPods, podNews, pending, binder, nextServer, gaveUp, steps>>
controllersVars == <<rsVars, rankVars, depVars, gcVars, nsVars, schedulerVars>>
planeVars == <<part, storageVars, controllersVars>>

Symmetry == Permutations(Callers) \cup Permutations(Requesters) \cup Permutations(ServiceNames)

\* A part that doesn't run has no state worth keeping; the object, the services,
\* the range and the ReplicaSet rest in their one initial state, or the first of them,
\* the ranking with no pods.
Resting == "rests"
Parts == {"object", "service", "range", "replicasets", "ranking", "rolling", "recreate", "garbage",
          "slices", "namespaces", "scheduler"}
PlaneInit ==
  /\ part \in Parts
  /\ Init /\ ServiceInit /\ RangeInit
  /\ part # "range" => bits = {} /\ cursor = 0 /\ \A c \in Clients : claim[c].op = "allocate"
  /\ RSInit
  /\ \/ part = "ranking" /\ RankingInit
     \/ /\ part # "ranking" /\ ranked = <<>> /\ ranks = <<>> /\ given = <<>>
        /\ related = {} /\ surplus = 0 /\ at = [i |-> 2, j |-> 2]
  /\ \/ part = "rolling" /\ Ro!DeploymentInit
     \/ part = "recreate" /\ Re!DeploymentInit
     \/ /\ part \notin {"rolling", "recreate"} /\ dep = Resting /\ rss = Resting
        /\ depCache = Resting /\ rssCache = Resting /\ leaving = Resting /\ syncer = Resting
        /\ keyed = Resting /\ changed = Resting
  /\ \/ part = "garbage" /\ Ga!GCInit
     \/ part = "slices" /\ Gs!GCInit
     \/ /\ part \notin {"garbage", "slices"} /\ objs = Resting /\ graph = Resting
        /\ seen = Resting /\ graphChanges = Resting /\ absentOwnerCache = Resting
        /\ attemptToDelete = Resting /\ attemptToOrphan = Resting /\ deleter = Resting
        /\ orphaner = Resting /\ heirs = Resting /\ altered = Resting
  /\ \/ part = "namespaces" /\ Na!NamespaceInit
     \/ /\ part # "namespaces" /\ ns = Resting /\ content = Resting /\ creating = Resting
        /\ lateOnes = Resting /\ news = Resting /\ names = Resting /\ queued = Resting
        /\ nsWorker = Resting /\ changes = Resting
  /\ \/ part = "scheduler" /\ Sc!SchedulerInit
     \/ /\ part # "scheduler" /\ nodes = Resting /\ schedPods = Resting /\ podNews = Resting
        /\ pending = Resting /\ binder = Resting /\ nextServer = Resting /\ gaveUp = Resting
        /\ steps = Resting

DeploymentNext ==
  \/ part = "rolling"  /\ Ro!DeploymentNext
  \/ part = "recreate" /\ Re!DeploymentNext
GCNext ==
  \/ part = "garbage"    /\ Ga!GCNext
  \/ part = "slices" /\ Gs!GCNext

StorageNext ==
  \/ part = "object"  /\ Next      /\ UNCHANGED <<serviceVars, allRangeVars>>
  \/ part = "service" /\ ServiceNext /\ UNCHANGED <<vars, allRangeVars>>
  \/ part = "range"   /\ RangeNext /\ UNCHANGED <<vars, serviceVars>>

ControllersNext ==
  \/ part = "replicasets" /\ RSNext         /\ UNCHANGED <<rankVars, depVars, gcVars, nsVars, schedulerVars>>
  \/ part = "ranking" /\ RankingNext     /\ UNCHANGED <<rsVars, depVars, gcVars, nsVars, schedulerVars>>
  \/ DeploymentNext     /\ UNCHANGED <<rsVars, rankVars, gcVars, nsVars, schedulerVars>>
  \/ GCNext             /\ UNCHANGED <<rsVars, rankVars, depVars, nsVars, schedulerVars>>
  \/ part = "namespaces" /\ Na!NamespaceNext /\ UNCHANGED <<rsVars, rankVars, depVars, gcVars, schedulerVars>>
  \/ part = "scheduler" /\ Sc!SchedulerNext  /\ UNCHANGED <<rsVars, rankVars, depVars, gcVars, nsVars>>

PlaneNext ==
  /\ UNCHANGED part
  /\ \/ StorageNext     /\ UNCHANGED controllersVars
     \/ ControllersNext /\ UNCHANGED storageVars

PlaneSpec == PlaneInit /\ [][PlaneNext]_planeVars

-----------------------------------------------------------------------------
(* Properties: those of Store, ServiceStore, AllocatableRange, ReplicaSet  *)
(* and PodRanking as they stand, and these of the others.                  *)

\* Deployment: there is one ReplicaSet for each template, whatever the caches show;
\* a rollout keeps to surge and minimum, deletes only what is done, and leaves what
\* others own.
DeploymentSteps ==
  [][/\ part = "rolling" => Ro!RollsOutSafely /\ Ro!OneForEachTemplate'
     /\ part = "recreate" => Re!RollsOutSafely /\ Re!OneForEachTemplate']_depVars

\* GarbageCollector: what has an owner stays, blocking dependents go before their
\* owner, and orphans are let go.
\* NamespaceController, Scheduler: a namespace is finalized when it is empty, and
\* a pod that has a node keeps it.
ClusterSteps ==
  [][/\ part = "garbage" => Ga!CollectsRightly
     /\ part = "slices" => Gs!CollectsRightly
     /\ part = "namespaces" => Na!FinalizesEmpty
     /\ part = "scheduler" => Sc!StaysBound]_<<gcVars, nsVars, schedulerVars>>
=============================================================================

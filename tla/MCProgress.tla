----------------------------- MODULE MCProgress -----------------------------
(***************************************************************************)
(* What must happen in the end: each component on an instance small enough *)
(* for liveness, under the fairness its own module states and justifies.   *)
(* A behaviour picks one of them and runs it.  As only one runs, they      *)
(* share the variables: v1 is the first variable of the one that runs, v2  *)
(* its second, and those it doesn't need rest.                             *)
(***************************************************************************)
EXTENDS Integers, Sequences, FiniteSets, TLC

VARIABLES part, v1, v2, v3, v4, v5, v6, v7, v8, v9, v10, v11, v12, v13, v14

allVars == <<v1, v2, v3, v4, v5, v6, v7, v8, v9, v10, v11, v12, v13, v14>>
From8   == <<v8, v9, v10, v11, v12, v13, v14>>
From9   == <<v9, v10, v11, v12, v13, v14>>
From10  == <<v10, v11, v12, v13, v14>>
From12  == <<v12, v13, v14>>

-----------------------------------------------------------------------------
(* Followers of changes.                                                   *)

Put == [op |-> "put", keys |-> {"k"}, value |-> "v", rev |-> 0]
Et == INSTANCE Etcd WITH
        revision <- v1, compactedRevision <- v2, histories <- v3, log <- v4, history <- v5,
        watcher <- v6, got <- v7, fired <- v8,
        Keys <- {"k"}, Values <- {"v"}, NoValue <- "none", Watchers <- {"w"}, Ranges <- {{"k"}},
        Txns <- {[compare |-> {}, success |-> <<Put>>, failure |-> <<>>]},
        RetainedRevisions <- 2, MaxRevision <- 2, MaxAhead <- 1
If == INSTANCE Informer WITH
        log <- v1, floor <- v2, cache <- v3, rv <- v4, stopped <- v5, broken <- v6, pc <- v7,
        listed <- v8, stream <- v9,
        Keys <- {"j", "k"}, MatchChoices <- {TRUE}, ListFailures <- TRUE, Compactions <- TRUE,
        MaxRev <- 3
So == INSTANCE PodSource WITH
        server <- v1, reflector <- v2, store <- v3, storage <- v4, updates <- v5, manager <- v6,
        told <- v7,
        PodNames <- {"a"}, MaxUids <- 2, MaxChanges <- 0, MaxFaults <- 1, MaxCompacted <- 1,
        ResultSize <- 1, UpdatesSize <- 2

(* Queues and locks.                                                       *)

Wq == INSTANCE Workqueue WITH
        queue <- v1, dirty <- v2, processing <- v3, shuttingDown <- v4, drain <- v5, mon <- v6,
        held <- v7, announced <- v8, returned <- v9,
        Items <- {"i"}, NoItem <- "none", Workers <- {"w1", "w2"}, Stoppers <- {"s"},
        Drainers <- {"d1", "d2"}
Dq == INSTANCE DelayingQueue WITH
        wanted <- v1, busy <- v2, closed <- v3, now <- v4, adding <- v5, waiting <- v6,
        known <- v7, loop <- v8, stopCh <- v9, failures <- v10, requeuing <- v11, adds <- v12,
        promised <- v13,
        Items <- {"i"}, MaxTime <- 3, MaxAdds <- 1, RoomForAdd <- 1, BaseDelay <- 1, MaxDelay <- 2
Lk == INSTANCE EtcdLock WITH
        holder <- v1, pc <- v2, listening <- v3, deleted <- v4, late <- v5, canceled <- v6,
        leases <- v7, age <- v8, beat <- v9,
        Clients <- {"a", "b", "c"}, Nobody <- "nobody", TTL <- 3

(* Controllers.                                                            *)

Na == INSTANCE NamespaceController WITH
        ns <- v1, content <- v2, creating <- v3, late <- v4, news <- v5, queue <- v6,
        queued <- v7, worker <- v8, changes <- v9,
        Names <- {"n", "m"}, KindCount <- 2, Capacity <- 5, Attempts <- 2, MaxChanges <- 3
Sc == INSTANCE Scheduler WITH
        nodes <- v1, pods <- v2, podNews <- v3, pending <- v4, binder <- v5, nextServer <- v6,
        gaveUp <- v7, steps <- v8,
        Pods <- {"p"}, Nodes <- {"a", "b"}, NoNode <- "none", BindTries <- 2, MaxSteps <- 5
Rs == INSTANCE ReplicaSet WITH
        rs <- v1, pods <- v2, rsEvents <- v3, podEvents <- v4, rsCache <- v5, podCache <- v6,
        handling <- v7, exp <- v8, wrote <- v9, queue <- v10, worker <- v11, made <- v12,
        doomed <- v13, events <- v14,
        MaxPods <- 3, Orphans <- {1}, MaxReplicas <- 2, Burst <- 2, MaxLag <- 1, MaxEvents <- 1
De == INSTANCE Deployment WITH
        dep <- v1, rss <- v2, depCache <- v3, rsCache <- v4, leaving <- v5, syncer <- v6,
        keyed <- v7, changed <- v8,
        Templates <- {"a", "b"}, MaxReplicas <- 1, MaxCollisions <- 0,
        Strategies <- {"Recreate"}, SurgePercent <- 25, UnavailablePercent <- 25,
        HistoryLimit <- 0, MaxChanges <- 1
Owner(uid, block) == [uid |-> uid, name |-> "p", block |-> block]
Gc == INSTANCE GarbageCollector WITH
        objs <- v1, graph <- v2, seen <- v3, graphChanges <- v4, absentOwnerCache <- v5,
        attemptToDelete <- v6, attemptToOrphan <- v7, deleter <- v8, orphaner <- v9,
        heirs <- v10, altered <- v11,
        Uids <- {"p", "q", "c"}, NameOf <- [p |-> "p", q |-> "p", c |-> "c"], Slices <- {},
        OwnerSets <- {{}, {Owner("p", TRUE)}, {Owner("q", FALSE)}}, MaxAlterations <- 1

(* The kubelet.                                                            *)

Wk == INSTANCE PodWorkers WITH
        config <- v1, status <- v2, chan <- v3, worker <- v4, queue <- v5, reported <- v6,
        running <- v7, sourcesReady <- v8, hk <- v9, stopped <- v10, events <- v11,
        UIDs <- {"u"}, DeletionGraces <- {2}, SpecGrace <- 3, Leftover <- {"u"}, MaxEvents <- 2
Pl == INSTANCE Pleg WITH
        now <- v1, runtime <- v2, old <- v3, lister <- v4, requests <- v5, reinspect <- v6,
        relistTime <- v7, cache <- v8, timestamp <- v9, syncer <- v10, recent <- v11,
        failures <- v12,
        PodIds <- {"p"}, MaxChanges <- 1, MaxTime <- 2, MaxFailures <- 1
Pr == INSTANCE PodRuntime WITH
        pod <- v1, boxes <- v2, ctrs <- v3, reported <- v4, reasons <- v5, syncer <- v6,
        collector <- v7, faults <- v8,
        ContainerNames <- {"a", "b"}, Policies <- {"Always"}, ResetCodes <- {2},
        ExitCodes <- {0, 2}, MaxKeep <- 1, MaxFaults <- 1, MaxSweeps <- 0
St == INSTANCE StatusManager WITH
        api <- v1, known <- v2, node <- v3, podStatuses <- v4, apiStatusVersions <- v5,
        podStatusChannel <- v6, sender <- v7, changes <- v8,
        MaxPods <- 1, MaxStatusChanges <- 1
Im == INSTANCE ImagePull WITH
        registry <- v1, asks <- v2, pulls <- v3, bucket <- v4, backOff <- v5, prevErr <- v6,
        clock <- v7, failed <- v8,
        PullPods <- {"p", "q"}, Images <- {"i"}, PullPolicies <- {"Always"}, MaxParallel <- 1,
        Initial <- 1, Most <- 1, Burst <- 1, Rate <- 1, MaxClock <- 0, MaxPulls <- 3
Pb == INSTANCE Prober WITH
        container <- v1, probeStatus <- v2, workers <- v3, results <- v4, podWorker <- v5,
        probed <- v6, probeSpec <- v7,
        ProbeSets <- {{"readiness", "startup"}}, RestartChoices <- {TRUE}, SuccessThreshold <- 1,
        FailureThresholds <- {1}, MaxContainers <- 1, MaxUpdates <- 2

-----------------------------------------------------------------------------
\* The first variable of those that rest, for each component.
Unused ==
  [etcd |-> 9, informer |-> 10, source |-> 8, queue |-> 10, delaying |-> 14, lock |-> 10,
   namespaces |-> 10, scheduler |-> 9, replicasets |-> 15, deployment |-> 9, garbage |-> 12,
   workers |-> 12, pleg |-> 13, pod |-> 9, status |-> 9, images |-> 9,
   probes |-> 8]
Resting(k, v) == k >= Unused[part] => v = "rests"

ProgressInit ==
  /\ part \in DOMAIN Unused
  /\ \/ part = "etcd" /\ Et!Init
     \/ part = "informer" /\ If!Init
     \/ part = "source" /\ So!SourceInit
     \/ part = "queue" /\ Wq!Init
     \/ part = "delaying" /\ Dq!DelayInit
     \/ part = "lock" /\ Lk!LockInit
     \/ part = "namespaces" /\ Na!NamespaceInit
     \/ part = "scheduler" /\ Sc!SchedulerInit
     \/ part = "replicasets" /\ Rs!RSInit
     \/ part = "deployment" /\ De!DeploymentInit
     \/ part = "garbage" /\ Gc!GCInit
     \/ part = "workers" /\ Wk!Init
     \/ part = "pleg" /\ Pl!PlegInit
     \/ part = "pod" /\ Pr!PodInit
     \/ part = "status" /\ St!StatusInit
     \/ part = "images" /\ Im!ImageInit
     \/ part = "probes" /\ Pb!ProbeInit
  /\ Resting(7, v7)   /\ Resting(8, v8)   /\ Resting(9, v9)   /\ Resting(10, v10)
  /\ Resting(11, v11) /\ Resting(12, v12) /\ Resting(13, v13) /\ Resting(14, v14)

ProgressNext ==
  /\ UNCHANGED part
  /\ \/ part = "etcd" /\ Et!Next                    /\ UNCHANGED From9
     \/ part = "informer" /\ If!Next                /\ UNCHANGED From10
     \/ part = "source" /\ So!SourceNext            /\ UNCHANGED From8
     \/ part = "queue" /\ Wq!Next                   /\ UNCHANGED From10
     \/ part = "delaying" /\ Dq!DelayNext           /\ UNCHANGED v14
     \/ part = "lock" /\ Lk!LockNext                /\ UNCHANGED From10
     \/ part = "namespaces" /\ Na!NamespaceNext     /\ UNCHANGED From10
     \/ part = "scheduler" /\ Sc!SchedulerNext      /\ UNCHANGED From9
     \/ part = "replicasets" /\ Rs!RSNext
     \/ part = "deployment" /\ De!DeploymentNext    /\ UNCHANGED From9
     \/ part = "garbage" /\ Gc!GCNext               /\ UNCHANGED From12
     \/ part = "workers" /\ Wk!Next                 /\ UNCHANGED From12
     \/ part = "pleg" /\ Pl!PlegNext                /\ UNCHANGED <<v13, v14>>
     \/ part = "pod" /\ Pr!PodNext                  /\ UNCHANGED From9
     \/ part = "status" /\ St!StatusNext            /\ UNCHANGED From9
     \/ part = "images" /\ Im!ImageNext             /\ UNCHANGED From9
     \/ part = "probes" /\ Pb!ProbeNext             /\ UNCHANGED From8

ProgressSpec == ProgressInit /\ [][ProgressNext]_<<part, allVars>>

-----------------------------------------------------------------------------
(* Each module's fairness, and what it brings about, of the steps and      *)
(* states of that component alone.                                         *)

On(p, F) == part = p /\ F

\* A watcher is told that its start revision is gone; an informer's cache gets
\* up to date unless it gave up; the kubelet comes to know the pods as they are.
EtcdFair     == /\ WF_(Et!vars)(On("etcd", Et!Connect("w")))
                /\ WF_(Et!vars)(On("etcd", Et!Fail("w"))) /\ WF_(Et!vars)(On("etcd", Et!End("w")))
InformerFair == WF_(If!vars)(On("informer", If!Works))
SourceFair   == /\ WF_(So!sourceVars)(On("source", So!Reflect)) /\ WF_(So!sourceVars)(On("source", So!SendUpdate))
                /\ WF_(So!sourceVars)(On("source", So!HandleUpdate))
WatchersHear ==
  /\ part = "etcd" => (EtcdFair =>
       On("etcd", "connect" \in v6["w"].tasks /\ Et!IsCompacted(v6["w"].start))
         ~> On("etcd", "error" \in v8["w"]))
  /\ part = "informer" => (InformerFair =>
       On("informer", ~v5) ~> On("informer", v5 \/ v6 \/ v9.state = "open"))
  /\ part = "source" => (SourceFair => <>[]On("source", So!Current))

\* Every item added is processed, drains return and workers end; an item owed
\* later is taken later; and each call of withLock gets its turn.
QueueFair    == \A p \in Wq!Procs : WF_(Wq!vars)(On("queue", Wq!Runs(p)))
DelayingFair == /\ WF_(Dq!delayVars)(On("delaying", Dq!Tick))
                /\ WF_(Dq!delayVars)(On("delaying", Dq!LoopReceives))
                /\ WF_(Dq!delayVars)(On("delaying", Dq!LoopWakes(FALSE)))
                /\ WF_(Dq!delayVars)(On("delaying", Dq!Get("i")))
                /\ WF_(Dq!delayVars)(On("delaying", Dq!FailedIsDone("i")))
                /\ WF_(Dq!delayVars)(On("delaying", Dq!Succeeds("i") \/ Dq!Fails("i")))
LockFair     == \A c \in {"a", "b", "c"} :
                  WF_(Lk!lockVars)(On("lock", Lk!Proceeds(c) \/ Lk!Leave(c)))
QueuesServe ==
  /\ part = "queue" => (QueueFair =>
       /\ On("queue", "i" \in v2) ~> On("queue", "i" \notin v2)
       /\ On("queue", \E d \in {"d1", "d2"} : v6.pc[d] # "outside")
            ~> On("queue", {"d1", "d2"} \cap v9 # {})
       /\ On("queue", v4) ~> On("queue", {"w1", "w2"} \subseteq v9))
  /\ part = "delaying" => (DelayingFair =>
       On("delaying", v13["i"] # Dq!Never) ~> On("delaying", "i" \in v2 \/ v3))
  /\ part = "lock" => (LockFair =>
       <>On("lock", \A c \in {"a", "b", "c"} : v2[c] = "ended"))

\* A ReplicaSet comes to have the replicas it asks for, and a Deployment all of
\* its pods in the ReplicaSet of its template.
ReplicaSetFair == /\ WF_(Rs!rsVars)(On("replicasets", Rs!Works))
                  /\ WF_(Rs!rsVars)(On("replicasets", Rs!HandleRS))
                  /\ WF_(Rs!rsVars)(On("replicasets", Rs!IndexPod \/ Rs!HandlePod))
                  /\ WF_(Rs!rsVars)(On("replicasets", Rs!Due))
                  /\ WF_(Rs!rsVars)(On("replicasets", \E p \in Rs!PodIds : Rs!PodGoes(p)))
DeploymentFair == /\ WF_(De!depVars)(On("deployment", De!Worker))
                  /\ WF_(De!depVars)(On("deployment", De!Requeue))
                  /\ \A n \in De!Names :
                       /\ WF_(De!depVars)(On("deployment", De!RunPods(n)))
                       /\ WF_(De!depVars)(On("deployment", De!PodAvailable(n)))
                       /\ WF_(De!depVars)(On("deployment", De!PodsLeave(n)))
ReplicasConverge ==
  /\ part = "replicasets" => (ReplicaSetFair => <>[]On("replicasets", Rs!ReplicasAreRight))
  /\ part = "deployment" => (DeploymentFair =>
       (<>[]On("deployment", De!CachesAreFresh) => <>[]On("deployment", De!RolledOut)))

\* Namespaces that terminate go, pods get a node and garbage is collected, with
\* the exceptions that MayStay and HasNode name.
NamespaceFair == /\ WF_(Na!nsVars)(On("namespaces", Na!Syncs \/ Na!DeleteFails))
                 /\ \A n \in {"n", "m"} :
                      WF_(Na!nsVars)(On("namespaces", Na!handleNamespace(n)))
SchedulerFair == /\ WF_(Sc!schedulerVars)(On("scheduler", Sc!schedulePod))
                 /\ WF_(Sc!schedulerVars)(On("scheduler", Sc!Binds("p")))
GarbageFair   == /\ WF_(Gc!gcVars)(On("garbage", Gc!ProcessGraphChanges))
                 /\ WF_(Gc!gcVars)(On("garbage", Gc!DeleterStep))
                 /\ WF_(Gc!gcVars)(On("garbage", Gc!OrphanerStep))
ClusterConverges ==
  /\ part = "namespaces" => (NamespaceFair =>
       []<>On("namespaces", Na!MayStay("n")))
  /\ part = "scheduler" => (SchedulerFair => []<>On("scheduler", Sc!HasNode("p")))
  /\ part = "garbage" => (GarbageFair => <>[]On("garbage", Gc!NoGarbage))

\* What the kubelet is asked to stop stops, close() returns, nobody waits for the
\* pod cache for ever, a pod's containers come to run as specified, and whoever
\* waits for an image is answered unless a token was lost (see EveryPullIsMade).
WorkersFair == /\ WF_(Wk!vars)(On("workers", Wk!LoopMoves))
               /\ SF_(Wk!vars)(On("workers", Wk!SyncKnownPods))
               /\ SF_(Wk!vars)(On("workers", Wk!ListRuntimePods))
               /\ SF_(Wk!vars)(On("workers", Wk!SyncTick("u")))
               /\ WF_(Wk!vars)(On("workers", \E w \in Wk!Slots : Wk!GoesOn("u", w)))
               /\ WF_(Wk!vars)(On("workers", \E w \in Wk!Slots : Wk!Interrupted("u", w)))
               /\ SF_(Wk!vars)(On("workers", \E w \in Wk!Slots : Wk!Begin("u", w)))
               /\ SF_(Wk!vars)(On("workers", \E w \in Wk!Slots :
                                               Wk!Killed("u", w) \/ Wk!SyncTerminated("u", w)))
PlegFair    == /\ WF_(Pl!plegVars)(On("pleg", Pl!StartRelist))
               /\ WF_(Pl!plegVars)(On("pleg", Pl!RelistGoesOn))
PodFair     == /\ WF_(Pr!podVars)(On("pod", Pr!SyncerNext))
               /\ SF_(Pr!podVars)(On("pod", Pr!CreateContainer))
ImagesFair  == /\ \A p \in {"p", "q"} : WF_(Im!imageVars)(On("images", Im!AskNext(p)))
               /\ \A n \in 1..3 :
                    WF_(Im!imageVars)(On("images", n \in DOMAIN v3 /\ Im!PullNext(n)))
PodsProgress ==
  /\ part = "workers" => (WorkersFair =>
       /\ On("workers", ~Wk!Wanted("u"))
            ~> On("workers", Wk!IsOver("u") \/ Wk!Wanted("u") \/ Wk!CameBack("u") \/ v10)
       /\ On("workers", v10) ~> On("workers", ~v2["u"].known))
  /\ part = "pleg" => (PlegFair => []<>On("pleg", Pl!NobodyWaits))
  /\ part = "pod" => (PodFair =>
       /\ <>[]On("pod", Pr!RunsAsAsked)
       /\ On("pod", v1.asked = "end") ~> On("pod", v1.asked = "done"))
  /\ part = "images" => (ImagesFair => \A p \in {"p", "q"} :
       On("images", Im!Waits(p)) ~> On("images", ~Im!Waits(p) \/ Im!TokenIsLost))

\* In the end the API server shows a pod as it is, a deleted one is gone, and a
\* container that answers its readiness probe is ready.
StatusFair == /\ WF_(St!statusVars)(On("status", St!Observe))
              /\ WF_(St!statusVars)(On("status", St!SenderStep))
              /\ SF_(St!statusVars)(On("status", St!SyncAll))
              /\ WF_(St!statusVars)(On("status", St!RemoveOrphanedStatuses))
              /\ WF_(St!statusVars)(On("status", St!SetPodStatus(1)))
              /\ WF_(St!statusVars)(On("status", St!ContainerStops(1) /\ v3[1].stage = "killing"))
              /\ SF_(St!statusVars)(On("status", St!Generate(1)))
              /\ WF_(St!statusVars)(On("status", St!TerminatePod(1)))
              /\ WF_(St!statusVars)(On("status", St!SetContainerReadiness(1)))
ProbeFair  == /\ \A t \in {"readiness", "startup"} :
                   /\ WF_(Pb!probeVars)(On("probes", Pb!ProbeWorkerStep(t)))
                   /\ WF_(Pb!probeVars)(On("probes", Pb!TakeUpdate(t)))
              /\ WF_(Pb!probeVars)(On("probes", Pb!PodWorkerStep))
StatusArrives ==
  /\ part = "status" => (StatusFair => <>[]On("status", St!ShowsWhatIs))
  /\ part = "probes" => (ProbeFair =>
       (<>[]On("probes", Pb!AnswersReady) => <>[]On("probes", v2.ready)))
=============================================================================

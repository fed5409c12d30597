# Webernetes in TLA+

Webernetes is a Kubernetes that runs in a browser: an etcd, an API server's
storage, the controllers, a scheduler, kubelets with a container runtime and a
virtual network, written in TypeScript after the Go sources of Kubernetes. It
is one JavaScript thread. Everything up to an `await` is atomic; what
interleaves are promises, timers and callbacks, and there are thousands of
them. The specifications here are about those interleavings.

Paths below are relative to the repository; `PROJECT.json` maps every
definition to the lines it models and lists the runs, the hazards with the
properties that watch them, and the theorems.

## The system

| Part | State | Operations | Talks to | What is hard |
|---|---|---|---|---|
| etcd (`src/cluster/etcd.ts`) | per-key histories, revision, compaction watermark, watchers, leases | get, put, delete, transactions, compact, watch, withLock | everything above it | a watcher connects a microtask after it is made; histories are trimmed per key and compacted as a whole; locks outlive their callers |
| Go primitives (`src/go`) | waiter queues of mutexes, conditions, channels; the context tree; timers | lock, wait, send, receive, select, cancel | controllers, kubelet, runtime | wake-ups are microtasks: what is handed over is owned before its owner runs |
| work queue (`src/client-go/util/workqueue`) | queue, dirty, processing, shut-down flags; waiting heap; failure counts | add, get, done, addAfter, addRateLimited, shutDown | controllers | add and done take no lock while get waits under one |
| allocatable ranges (`src/cluster/storage/allocatable.ts`) | bitmap, cursor, count, each an etcd key | allocate, claim, release, has | service store | three keys change in three requests under a lock |
| storage (`src/cluster/storage`, `src/client/gen/apis/impls`) | objects in etcd | create, update, delete, patch, status, bind, delete with finalizers, grace and preconditions | etcd, ranges, every client | read-modify-write with conflicts and retries; an update that turns into a deletion |
| informers (`src/client/cache.ts`, `watch.ts`) | cached objects, resource version, one watch | list, watch, start, stop | controllers, proxy, scheduler | what happens between the list and the watch, after an error, after a restart |
| reflector and stores (`src/client-go/tools/cache`) | items, indices, the queue of keys of a FIFO, last synced version | list and watch, add, replace, pop, find by index | kubelet pod source, controllers | relist against watch; an index function that fails half way; keys that are queued and no longer there |
| ReplicaSet controller (`src/controller/replicaset`) | expectations, consistency records, caches | sync, adopt and release, slow start, status | API, informers, work queue | acts on caches that lag behind its own writes |
| Deployment controller (`src/controller/deployment`) | caches | sync, rolling update, recreate, scale, clean up | API, informers, work queue | names by hash, scaling several ReplicaSets within bounds |
| garbage collector (`src/controller/garbagecollector`) | dependency graph with virtual nodes, absent owners | graph events, attempt to delete, attempt to orphan | API, informers, two work queues | owners not yet observed, owners recreated under the same name |
| namespace controller (`src/cluster/images/namespace-controller.ts`) | queued names | delete content, finalize | API | content created while it is deleted |
| scheduler (`src/cluster/images/scheduler.ts`) | pending pods, next node | bind | API | stale pods, retries |
| endpoint slices, kube-proxy (`src/cluster/images`) | slices, service targets | reconcile | API, network | order of events |
| kubelet sync loop and pod workers (`src/cluster/kubelet/kubelet.ts`, `pod-workers.ts`) | one status record and one worker per pod UID, their channels, the work queue | config events, housekeeping, sync functions, close | config, PLEG, status manager, runtime | a pod's life has phases that only go forward while its updates, its deletion and failures come at any time |
| PLEG and pod cache (`src/cluster/kubelet/pleg`, `container/cache.ts`) | last records, pods to reinspect, cached statuses, subscribers | relist, relist one pod, getNewerThan | runtime, pod workers | a worker sleeps until something newer than its last sync is known |
| kubelet's other managers (config, status, probes, images, hooks, node status) | versions, results, pull tokens, back-offs | merge, sync, probe, pull | sync loop, API, runtime | statuses are versioned, probes run beside workers, a pull outlives the call it was made for |
| kuberuntime manager (`src/cluster/kubelet/kuberuntime`) | none of its own | syncPod, killPod, garbage collection | runtime, images, hooks | several steps, each of which may fail |
| container runtime (`src/cluster/cri`) | sandboxes, containers, processes | run, stop, remove, exec | network, images | stop with a grace period beside an exit |
| network (`src/cluster/cni/network.ts`) | addresses, listeners, service targets | register, bind, fetch | runtime, proxy | addresses and names are reused |
| cluster, servers, images, generated client, validation, demo | construction, programs that run in containers, text | | | little that interleaves |

### What makes each part correct

- etcd: a read at any uncompacted revision answers with what was true then; a
  watch delivers each matching revision exactly once, in order, or says that it
  cannot.
- Primitives: exclusion, order, nobody sleeps beside what it waits for.
- Work queue: an item is with one worker at a time, and one that was added is
  processed afterwards.
- Ranges and service store: an index has one owner; what nobody uses is free.
- Storage: two lives of a name do not overlap, no edit is lost, a deletion that
  was accepted is carried out and by somebody.
- Informers: an open watch means an exact cache.
- Controllers: they converge to what the object asks for, and never create or
  delete more than it asks for because a cache lags.
- Stores: an item is found under its own index values and no others; what is queued
  is popped once, in order, and "synced" means handled.
- Kubelet: one worker per pod; no update forgotten; phases go forward; a pod is
  let go of only when it has stopped; what must stop stops.
- Runtime and network: an address has one owner; a stopped container stays
  stopped.

## Modules

| Module | Models |
|---|---|
| `Etcd` | `FakeState` and `WatcherImpl`: histories, transactions, retention, compaction, the life of a watch |
| `Monitor` | `Mutex` and `Cond` as operators on one record |
| `Workqueue` | class `Typed` with workers, shut-downs and drains |
| `WorkSet` | what a work queue promises: the abstract specification `Workqueue` implements |
| `Heap` | `container/heap` over the entries of a delaying queue |
| `DelayingQueue` | the delaying and the rate-limiting queue with the exponential limiter; extends `WorkSet` and `Heap` |
| `Clock` | the simulated clock with its tasks, contexts, `Timer` and `Ticker` |
| `RWMutex` | `RWMutex` |
| `Channel` | `Channel` and `select` |
| `EtcdLock` | `Etcd.withLock`, the lease and its timers |
| `AllocatableRange` | `AllocatableRange`; extends `EtcdLock`, under whose lock it runs |
| `Store` | one object: `Store`, the read-modify-write handlers, `deleteResource`, `retryConflicts` |
| `ServiceStore` | the hooks of `ServiceStore`, with ranges whose operations are atomic, as `AllocatableRange` shows; two history variables, `stray` and `lost`, name the values that the code does not account for |
| `Informer` | `ListWatch` over `Watch` over an etcd log |
| `IndexedStore` | `threadSafeMap` and `StoreIndex` under `Cache` |
| `Fifo` | `FIFO` with its producers and consumers |
| `PodSource` | the reflector of a kubelet, its store, the mux and `PodConfig`, up to the sync loop and the pod manager |
| `PodWorkers` | `PodWorkersImpl` with the sync loop and housekeeping of `Kubelet` |
| `Pleg` | `GenericPLEG`, the pod cache, and a worker that waits on it |
| `PodRuntime` | one pod: the container runtime, the kuberuntime manager, and the kubelet's sync functions |
| `ImagePull` | the image manager, its puller with the tokens, the pull limiter and the back-off of failed pulls |
| `StatusManager` | the status of a pod on its way to the API server |
| `Prober` | the probes of one container, their results, and what the kubelet makes of them |
| `ReplicaSet` | the ReplicaSet controller and one ReplicaSet: claiming, expectations, consistency store, slow start, status |
| `PodRanking` | the choice of the pods a ReplicaSet deletes, `ActivePodsWithRanks` |
| `Deployment` | the Deployment controller and one Deployment with its ReplicaSets |
| `GarbageCollector` | graph builder and both workers of the garbage collector |
| `NamespaceController` | the namespace controller, with its channel and its worker, and the namespace checks of creates |
| `Scheduler` | the scheduler, `bindPod` and `PodStore.bind` |
| `EndpointSlices` | the endpoint slice controller and one service |
| `Network` | the virtual network: addresses, listeners, tables, requests |
| `KubeProxy` | kube-proxy and CoreDNS over `Network`, which it extends |
| `EtcdProofs`, `SyncProofs`, `AllocationProofs`, `ServerProofs`, `KubeletProofs`, `CacheProofs`, `ReplicaSetProofs`, `ClusterProofs` | theorems; `SyncProofs` is about `Workqueue`, `Channel` and `Clock`, `ReplicaSetProofs` about `ReplicaSet` and `PodRanking`, `AllocationProofs` about `RWMutex`, `EtcdLock`, `AllocatableRange` and `ServiceStore`, `ServerProofs` about `Store` and `Network`, `ClusterProofs` about `NamespaceController`, `Scheduler` and `GarbageCollector`, `CacheProofs` about `IndexedStore`, `Fifo`, `Informer` and `PodSource`, `KubeletProofs` about `PodWorkers`, `Pleg`, `StatusManager` and `Prober` |
| `MCWatch`, `MCSync`, `MCControlPlane`, `MCKubelet`, `MCProgress` | instances for TLC; `MCEtcd` holds the constants of etcd's |

Modules that meet through the code meet in the specifications through what one
shows of the other: `DelayingQueue` stands on `WorkSet`, which `Workqueue`
implements; `ServiceStore` on atomic ranges, as `AllocatableRange` is;
`KubeProxy` and `EndpointSlices` on informers whose callbacks run inside the
write they are about, which `Informer` shows of an open watch.

### How state and actions correspond to the code

A variable is a field (its comment says which), an action is a handler or the
part of one between two awaits. The pending promises of a program, which it
keeps in closures, are explicit: a caller's record says which await it is at
and what it has read. Where the code resolves a promise, the model changes the
state of whoever awaits it in that same step and leaves its continuation to a
later one, as the microtask queue does.

- **Etcd.** Every `FakeState` method is synchronous and is one action. The
  microtask that connects a watcher, the zero-delay timer that fails one and
  the microtask that ends one are actions of the watcher. A key is a model
  value and a range the set of keys it covers. The log of events (`log`) is
  what the specification remembers so that it can say what a trimmed history
  should answer.
- **Workqueue.** `add` and `done` are single steps. `get`, `shutDown` and
  `shutDownWithDrain` pass through `mon`, the condition variable with its mutex,
  in which a process is outside, queued for the mutex, handed it, or parked.
- **Channel.** Each call is one step, including what it completes elsewhere.
  Values are numbered so that order and loss can be told apart.
- **EtcdLock.** A caller moves from its transaction to its delete watch, to its
  second transaction, to its select, to the body; the lease ages with a clock
  that the body's steps do not wait for.
- **Store.** A request is a record with its verb, its arguments and its step;
  each etcd request is an action.
- **PodWorkers.** A section under `podLock` is one action. The model gives a
  UID two slots for workers because nothing but the code's logic keeps it to
  one. The runtime, the status manager and the API are as much as the sync
  functions observe of them.
- **Pleg.** A relist is a sequence of awaits under `relistLock`; the clock is
  in milliseconds and many steps happen within one, because the cache compares
  times with "not before".
- **DelayingQueue.** Between two selects the waiting loop runs without an await,
  so a turn of it is one step. A queue is a record of the heap and of the entries
  by item, which in the code are the same objects, so a change by either way is
  seen by both. `promised` is history: the earliest time an item is owed.
- **Clock.** The clock keeps its tasks and lets each run by a `setTimeout` of the
  host, which fires when the host's time has come and not before. A step runs
  all that is due one after another, and callbacks act between them.
- **PodSource.** The API server is its pods and the log of their changes. A push
  of the store carries its whole content; the mux merges it with what it knew, and
  the operations wait in a bounded channel until the sync loop takes them.
- **IndexedStore.** An operation is one step, and what it leaves behind when an
  index function fails is one of its outcomes. `torn` is history: the keys that an
  operation threw for before it had indexed them.
- **Fifo.** What happens between two awaits under the lock is one step, which waits
  until nobody handles an item; a consumer that is woken looks again later.
- **ImagePull.** A call and the pull it starts are two records. A token that is
  returned is handed to the pull that has waited longest, in that step. `failed` is
  history: when each pod's pulls failed.
- **PodRanking.** One comparison of the insertion sort, with its swap, is a step.
- **PodRuntime.** A sync works on a view (`syncer`): what was read of the runtime,
  one request after another. Containers exit, fail their probe, are removed or
  change in the specification meanwhile, and a sync whose context is cancelled
  stops at its next wait. `boxes` and `ctrs` are numbered in order of creation.
- **StatusManager.** A section under `podStatusesLock` is one action. What
  `syncPod` does for one update is a sequence of requests in `sender`. Pods are
  numbered in the order of their creation under one name.
- **Prober.** The instances of the container are numbered, and `probeSpec` is what its
  pod says of it: the probes, the policy, the threshold. A worker probes while all else
  moves, and the pod worker generates a status and acts on the results a while later:
  `Kills` and `Starts` are what `computePodActions` decides for the one container.
- **Deployment.** `syncer` holds the copies its worker took when it started and the
  request that comes next. A write is published and indexed inside the request;
  what the worker wrote it indexes again when the request returns, whatever has
  been indexed since. ReplicaSet controller and kubelets are `RunPods`,
  `PodAvailable` and `PodsLeave`.
- **GarbageCollector.** `graph` follows the events in `graphChanges`; `deleter` and
  `orphaner` are the two workers with the request each is at. `heirs` is history:
  the dependents an owner had when its deletion began.
- **EndpointSlices.** A call takes effect at one step and its answer is acted on at
  a later one, so that a pod or the service may change in between.
- **Network, KubeProxy.** Addresses are numbers, in the order of their range. A
  request passes name resolution, latency and delivery in steps, during which
  sandboxes stop and start and addresses are used again. The proxy's callbacks
  run inside the write they are about.
- **ReplicaSet.** The worker's record holds the copy of the ReplicaSet it works
  from and says which API request comes next. A pod event passes two queues:
  `podEvents` until the informer indexes it (`IndexPod`), `handling` until the
  controller's callback sees it (`HandlePod`), because a sync may run in
  between. `exp` is the entry of the expectations, with the keys of the pods
  to go in their own store as in the code; `wrote` is the consistency store,
  as the number of events still to come up to the controller's last write.
  `made` and `doomed` are history: which pods the controller created and
  which it deleted.
- **NamespaceController.** The channel's values and, behind them, the senders
  that wait are one sequence. `late` holds the objects created since the worker
  last listed their kind, and `stale` says that what the worker read of a
  namespace has been overtaken.
- **Scheduler.** One binding per name, since the code allows no second one;
  `gaveUp` holds the pods whose last binding ended without a node.

## Runs

A run that checks several components starts with a choice of one (`part`) and
the others rest in an initial state, so that a state space is the sum of theirs
and not the product. A module that is checked on several instances is several
parts. Five runs pass:

| Run | Parts | Shows |
|---|---|---|
| `MCWatch` | etcd, informer, slices, services, source, proxy, routing, indexer, fifo | from a write in etcd to a request that reaches a pod |
| `MCSync` | queue, rwmutex, channel, lock, delaying, contexts, timers | what callers wait on |
| `MCControlPlane` | object, service, range, replicasets, ranking, rolling, recreate, garbage, slices, namespaces, scheduler | objects, services and ranges under concurrent requests; the controllers against caches that lag |
| `MCKubelet` | workers, pleg, one, reset, two, status, probes, images, backoff, network | what a kubelet does with a pod |
| `MCProgress` | seventeen components | what must happen happens |

Their properties, with the module each comes from:

- `MCWatch`: `WatchIsSound` (a stream delivers exactly once what the log holds,
  and histories are complete above the watermark) and `ReadsFollowLog`,
  `WatchInOrder` of `Etcd`; `CachesAreSound` (`Informer`: a cache with an open
  watch is exact, one that waits may be resumed from; `PodSource`: one pod of a
  name at a time, and the difference that was sent adds up; `EndpointSlices`: when
  nothing is under way, the slice is as it should be; `KubeProxy`: the network routes
  what the API server says, by tables that agree); `IndexIsSound`
  (`IndexedStore`: an item is found under its own values and under no other, and
  no emptied set is kept); `FifoIsSound` (`Fifo`: what is held is queued, no pop
  sleeps beside it, and synced means that the first list was handled);
  `StepsFollow` (what the kubelet has seen of a pod never gets older, what is routed
  goes to an endpoint that is ready then, and nothing jumps the queue of a `Fifo`).
- `MCSync`: `QueueIsSound`, `NoLostWakeup` and the refinement `ImplementsWorkSet`
  of `Workqueue`; `RWMutexIsSound`; `ChannelIsSound` (order, loss, no pair that
  waits for each other); `LockIsSound` (a body runs alone while its lease is kept
  up); `ClockIsSound` (`Clock`: timers and contexts hold the tasks they need and no
  others, no stale tick); `NoOvertaking` (`RWMutex` lets in by turn);
  `DelaysGoRight` (`DelayingQueue`: after every step nothing is lost or late and the
  heap is a heap; `Clock`: simulated time is that of the tasks it runs, and a
  cancelled context stays so and hands its reason down).
- `MCControlPlane`: `StoreIsSound` (no edit is lost, who finalizes will remove),
  `DeleteIsHonoured`, `ObjectsLiveOnce` of `Store`; `AllocationsAreSound` of
  `ServiceStore` (no value serves two services or leaks, but for those that a service
  stores without a claim or twice); `RangeIsSound` of `AllocatableRange`; `CountsItsOwn` and
  `NeverTooMany` of `ReplicaSet`; `RankingIsSound` of `PodRanking` (a pod keeps
  its rank while it is sorted, and none is deleted while one stays that is worse by
  the criteria that are an order); `DeploymentSteps` (`Deployment`: one ReplicaSet for
  each template, surge and minimum); `ClusterSteps`
  (`GarbageCollector`: what has an owner stays, blocking dependents go first, orphans
  are let go; `NamespaceController` finalizes what is empty, `Scheduler` binds once).
- `MCKubelet`: `WorkersAreSound` and `OnlyOnward` of `PodWorkers`; `PlegIsSound`;
  `ProbesAreSound` of `Prober` (ready means that this container was probed itself, and
  results are kept as long as a worker probes); `PodSteps` (`PodRuntime`: one ready
  sandbox, restarts by the policy, what is over stays over, reported counts never fall;
  `ImagePull`: never more pulls than tokens, back-offs are kept and can be explained;
  `Prober`: a container is replaced only after its own failure); `TerminalIsTrue` and
  `StatusSteps` of `StatusManager` (a terminal phase is shown only of a pod whose
  containers were stopped, a pod is removed only when it is over, and what has ended
  stays so); `NetworkServes` of `Network` (an address has one owner, listeners are live
  processes of it, answers come from whom they were for, turns stay in their lists).
- `MCProgress`: `WatchersHear`, `QueuesServe`, `ReplicasConverge`,
  `ClusterConverges`, `PodsProgress`, `StatusArrives`: each a conjunction over
  parts of "if the part is scheduled fairly, this comes about".

Seven runs refute something the repository says; they are described below.

### Bounds, and why they are enough

- etcd: two keys, one value, one watcher, three revisions (five where only
  retention is asked about), two records kept per key, a start at most one
  revision ahead. Retention needs one write more than the records kept; a
  transaction over two keys, a compaction and a replay fit. Watchers do not
  interact, so one is enough.
- Informer: two keys, four revisions: a list, an event for the other key before
  the watch opens, a stop and a start, and one after. Pod source: one name that
  two UIDs take in turn, one change, one failed list or watch, one compaction, a
  watch whose buffer holds one event and a channel of two: both can fill.
- Indexed store: two keys, three objects, two index functions, one of which fails
  for one object: an item changes its values, shares them, and is refused. FIFO:
  three keys, two consumers, lists of up to three; a key is queued again while an
  old place of it is left.
- Endpoint slices: one service with two changes of its pods, or two services in
  turn under one name. Proxy: two services over two cluster addresses and one node
  port, two nodes that may share an address and an alias, three changes and two
  restarts; requests run on an instance with a DNS pod, a web pod and one change
  while a request is under way. Network (in `MCKubelet`): one address and two
  sandboxes, so that the second takes the first one's address under a request.
- Work queue: two workers, one shut-down and two drains on two items (a second
  item is needed for a signal that wakes the wrong process, a second drain for
  the shared signal); four threads on the read-write lock (a writer with readers
  before and after it, and a writer behind); three callers on a channel without
  and one with a buffer of one, two messages; three calls of `withLock` with a
  lease of three ticks.
- Delaying queue: three items (a heap with two children), two ticks, three calls,
  room for one entry in the channel. Clock: three contexts (a child and a
  grandchild); three tasks with a timer and a ticker, two resets, two controls
  among pause, resume and step.
- Storage: two requests, three revisions, two attempts on an object; two
  services over one address, one outside the range and one port, with three writes:
  an `ExternalName` service with either address (`SubmittedServices`) may take the
  place of another, and a node port may be named twice; two clients of a range of
  two. Everything in the code is pairwise: a request and what comes between its
  reads and its write. The theorems say the same for any number of each.
- Pod workers: one UID, because the records of different UIDs share only
  housekeeping's snapshot; three config events (add, delete or remove, add
  again); grace periods 2 and 3; a pod that is found running at the start. PLEG:
  one pod that changes twice in two milliseconds, with one failed read of the
  runtime. Pod: one container under every restart policy with a fault and two
  sweeps of the collector; one under rules that restart all containers; two
  containers. Status manager: two pods under one name. Probes: two instances of
  the container, with each pair of probes, and thresholds of one and of two. Images:
  three pulls of two pods by one token, so that one waits and one is handed it; one
  pod whose pulls fail in turn, for the doubling, the longest back-off and a pause.
- ReplicaSet: three replicas, one orphan, four pods in all, bursts of two (slow
  start has a batch of one and one of two, which the burst cuts off), caches one
  event behind at each of two stages, and one event among scaling, deletion, a pod
  that finishes or is relabelled, and a request that is refused. What must be told
  apart is a cache that has seen the controller's last write from one that has not,
  and one event behind does that; more events are left to the theorems.
- Ranking: up to four of eight pods, in every order, which differ in each criterion;
  three of them are a circle of the criteria that are no order.
- Deployment: two templates, one change (of the template, the scale or a pause, a
  deletion, or a create that is refused); two
  replicas rolling, where a quarter rounds to a surge of one and nobody missing;
  one replica recreated, beside a ReplicaSet of somebody else that has taken the
  name. Garbage: three UIDs, two of them under one name, so that an owner may be
  replaced; two with an EndpointSlice, which has no informer order with its owner.
- Namespaces: two that share the channel and the worker, two kinds of content,
  four changes by users; a channel of five, which that many changes cannot fill
  (a smaller one reports the divergence below). Scheduler: one pod name that may
  be deleted and created again, two nodes, two attempts on a conflict, five steps
  by others.
- `MCProgress` checks the same modules on instances a size smaller, since
  liveness is checked on the graph as a whole: one item, one UID, one container,
  two revisions of etcd and three of the informer, one change where the other
  runs have two. Every loop a liveness property is about (retry, relist, requeue,
  back-off, resumption) still occurs. The Deployment there recreates one replica
  and meets no foreign ReplicaSet.

### Fairness

Each liveness conjunct of `MCProgress` has the form "fairness of the part implies
what it brings about", and the fairness is that module's own (`DelayFairness`,
`RSFairness`, `PodFairness` and so on) on the part's steps alone.

Only what the event loop and its timers give is assumed: a promise that is
resolved continues (weak fairness of the step after an await), a timer fires. An
action that only some phases enable and that is retried for ever, such as
housekeeping, the sync tick and the status manager's `syncBatch`, has strong
fairness, because its ticker goes on whatever happens in between; so have the
steps that may fail and are tried again (a pod worker's sync functions, the
creation of a container), under the assumption that they do not fail for ever. An
image is promised to whoever waits for it unless a token was lost, which is the
excuse of what `ImagePull_tokens` refutes. A
controller's steps, the informers' deliveries, rate limits that expire, a probe's
turns and a kubelet's removal of a deleted pod have weak fairness. No fairness is
assumed of clients: nobody must add, write, delete, relabel or close anything,
and no request need be refused. `RolledOut` is promised when the controller's
caches are fresh in the end, which is the excuse of the rollout that
`Deployment_rollout` refutes; a ready container when its probe is answered in the
end.

## Theorems

TLC checks the instances above; TLAPS proves these for every value of the
constants.

`EtcdProofs` (assuming `EtcdAssumptions` and `TxnAssumption`, which say that
bounds are numbers and transactions are made of operations):

- `TypeCorrectness`.
- `WatchSoundness`: `WatchIsSound`, the invariant `MCWatch` checks, which is types,
  delivery and completeness together, under the hypotheses of
  `DeliveryIsExactlyOnce` below.
- `UncompactedHistoryIsComplete`: every event above the watermark is in the
  history map. The invariant adds that histories are ordered by revision and
  contain only what the log contains; an append keeps it, and a trim raises the
  watermark to exactly what it drops.
- `StreamsAreOrdered`: a stream never emits a revision after a later one. It
  needs that the stream's next revision is above everything it has emitted, which
  connecting, replaying and publishing each preserve.
- `DeliveryIsExactlyOnce`: a connected stream has emitted each matching revision
  once. It holds under two hypotheses that name where the code does not deliver:
  that no transaction throws half way, and that no watch starts beyond the next
  revision (see the divergences below).
- `ReadsAreSound`: `ReadsFollowLog`. The binary search of
  `findRevisionAtOrBefore` is first shown right on every sorted history
  (`FindIsRight`; that its recursion is defined at all is `SearchExists`). The
  invariant `RecordInv` says that a key's records are sorted, that each is shown by
  the event of its revision, and that every write since the oldest record has its
  own (`FollowsLog`); this is what trimming one record from the front preserves and
  what makes the last record before a revision the value at it, unless there is
  none. Every write, a transaction that throws half way included, is a `RecordStep`.

`SyncProofs`, about the work queue (assuming `WorkqueueAssumptions`: the kinds of process are
disjoint and `NoItem` is no item), for any number of items, workers, stoppers
and drains:

- `TypeCorrectness`.
- `QueueSoundness` (with the types, `QueueIsSound`): two workers never hold one item, the queue is exactly the
  dirty items nobody holds, each once, and the mutex has one owner. The
  inductive invariant is `CoreInvariant`: it adds that `processing` is what the
  workers hold and who of the waiting processes was handed the mutex, without
  which the step after a hand-over could not be shown to run alone.
- `QueueImplementsWorkSet`: `Workqueue` refines `WorkSet` under the mapping that
  forgets the mutex and the order of the queue.
- `NoWakeupIsLost`: a worker sleeps on only while the queue is no longer than the
  number of workers on their way to look at it, and not once it is shutting down.
  `add` and `done` signal without the mutex, so this is not a matter of exclusion:
  `WakeInv` adds that whoever waits is in the condition's queue, and that before a
  shut-down only workers are, so no signal is spent on a process that would not
  take the item. It needs a finite set of workers, to count them.

and about the channels, for any channels and callers, any capacities and any number
of messages:

- `ChannelSoundness`: `ChannelIsSound`. The invariant (`ChannelInv`) adds that no two
  doors hold one message and that what was not offered yet is nowhere: without the
  first, the loser of a `select` would withdraw what another has parked; without the
  second, the next message would not come after all others. The operations that
  deliver or give up are one kind of step (`Settled`, `Delivers`, `FatesAfter`): the
  calls of some callers complete, which takes their entries out of every queue and
  leaves the others in order (`WithoutLeaves`, from `Ranked`, which numbers a finite
  set of positions), and at most one message comes in, the next one or that of the
  first sender. `SettlingKeepsOrder`, `SettlingKeepsFates` and `SettlingKeepsCallers`
  say once what such a step keeps. That `drainSender` never finds a receiver beside
  the sender it lets in is a consequence: receivers are parked on empty channels only.

and about the simulated clock (assuming `ClockAssumption`: delays are numbers, and an
interval is not 0), for any number of tasks, contexts, resets and steps:

- `ClockSoundness` and `ClockGoesRight`: `ClockIsSound`, and `TimeIsRight` with
  `CancelledForGood`. The invariant (`ClockInv`) has a part about time and one about
  what tasks are for. Of time (`TimesInv`) it adds that no two tasks call the same
  thing but promises of `wait`, and that a clock that steps is paused, is not past the
  step's end, and is not past a task that waits once it has run one; that a step goes
  back only to a task the host was late with follows from it. Of contexts (`Linked`) it
  adds that a context that is not cancelled is among its parent's children, that
  whoever is there is not cancelled, and that parents come before their children:
  what a cancel reaches is then closed under children, so nobody below a cancelled
  context is left with a task (`ReachedFacts`, `CancelFacts`). A step keeps one part by
  what it does to times and the other by what it does to `CallsOf(tasks)`, so `pause`,
  `resume` and `StepEnds` need nothing said about contexts, and the operations on
  contexts nothing about time (`FewerTasks`, `SetTaskFacts`, `SameBooks`).

`AllocationProofs`, about the mutex for every set of threads, about the lock in etcd and the
range under it (assuming `LockAssumption`, that a TTL is three units or longer, so
that a third of it is a period, and `SizeAssumption`, that a range is not empty):

- `LockSoundness` and `FirstComeFirstServed`: `RWMutexIsSound` and `NoOvertaking`.
  The invariant adds that each waiting thread is in the line once, that
  `waitingWriters` counts the writers in it, and that `writerActive` is one thread
  that writes: a reader is kept from passing a writer by that count alone.
- `LockSafety`: `LockIsSound`. The invariant adds that a lease is alive only with
  the body it was taken for and that its age is that of its last keep-alive
  (`LeaseIsKept`), from which the timer that would end it never comes first.
- `RangeSafety`: `RangeIsSound`. The three keys change in three requests, so they
  disagree in between; `RangeCore` says by how much at each step of the caller
  inside the lock, that what it has read is still so, and that callers outside have
  changed nothing. That a search that fails has tried every index takes the
  cardinality of what it tried.

and about the services that take addresses and ports from such ranges (assuming
`ServiceAssumption`: the two ranges are apart, what is not set or outside is in
neither, and the bound on ports is a number), whatever services the requests submit:

- `AllocationSoundness`: `AllocationsAreSound`, each value for itself. The code stores
  some values without a claim, or twice (`stray`), and may fail on one of these in the
  middle of a release, so that the rest of the list is `lost`; the theorem is that every
  other value is safe from them. The invariant is that each taken value that is neither
  has one owner (`Owners`), and one that is lost at most one: a stored service that uses
  it, or a request that holds it, because it took it or has yet to give it back. Each step takes a free value for a
  request, gives one back, or, at a commit, hands what a service used and what the
  request holds over to the two of them. That this loses nothing takes two facts about a
  request at its commit: if the revision it read is the stored one, so is the service
  (`IsCurrent`), and each value of the new service was the old one's or was taken for it
  (`GoodWork`), or it is stray once the commit is done (`Once` says what is left: a list
  to release names twice only what is stray).

`ServerProofs` (assuming `StoreAssumption` on the requests and `Addressed`, that addresses
and ports are numbers and that hosts' aliases are known ones), for any callers and any
number of attempts, and for any pods, services and nodes of the network:

- `StoreSoundness`, `DeletionIsHonoured`, `ObjectLifecycle`: `StoreIsSound`,
  `DeleteIsHonoured`, `ObjectsLiveOnce`, with `TypeCorrectness`. The invariant
  (`CopiesFollow`) is why optimistic concurrency works: versions only grow, so a
  copy that has the stored version was edited from what is stored, and one that has
  not will be refused.
- `NetworkSoundness`: `NetworkServes`, of `NetworkSpec`, where the operations on the
  tables that kube-proxy calls may be called at any time and with any arguments (that the
  proxy calls the right ones is model-checked: `RoutingIsCurrent`). What a listener was
  bound at it remembers, and its process may end after the sandbox has lost the address
  and another has got it. No harm comes of it, because a binding that is still its own
  is at the address its sandbox has now, in the table of its kind (`ListenersLive`). For
  requests, that sandboxes never come back (`NobodyReturns`): the one a request was routed
  to has its address still, and then it is the one that listens there, or is gone.

`KubeletProofs`, about the pod workers for any set of UIDs (assuming
`PodWorkersAssumption`: grace periods are numbers, the bound on events is one, and
leftovers are pods), about the pod cache for any pods, changes, errors and time
(assuming `PlegAssumption`, that the bounds are numbers and the clock starts within
its own), about the status manager for any number of pods under a name, of probe
results and of failed requests (assuming `StatusAssumption`, that there is a pod), and
about the probes of a container for any set of them and any number of its instances
(assuming `ProberAssumption`: there are three kinds of probe, and thresholds are numbers):

- `WorkersSoundness` and `RecordsMoveOnward`: `WorkersAreSound` and `OnlyOnward`. The
  invariant `IInv` has one part per UID (`GoodPod`), since no step but `close()` and
  `SyncKnownPods` reaches two. `Lone` says which goroutine the channel belongs to,
  `Sound` and `Asked` what the flags of the record imply of each other and of the
  node, `WorkOK` what the work in a goroutine's hands says of the record it was
  taken from, which may have changed since; `Remembers`, that a pending update has a
  token in the channel or a goroutine that will look again.
- The argument. Each path through `updatePod` either delivers an update to a record
  that has only advanced, or keeps the record and drops the update, and then the pod
  was terminating or had finished (`UpdateEffect`); both keep `GoodPod`. A
  goroutine's step needs only what its place says of the record. `SyncKnownPods`
  is the hard one: it removes a record with its channel, and must not do so under a
  goroutine at work. `RemovedIsFinished` shows it does not, since an update that was
  delivered has been taken by the next turn of the loop (`Settled`), and whoever
  took one has marked the pod started, or the runtime observed it.
- On the way: the branch of `startPodSync` that cannot start a pod is never taken
  (`TakesUpdate`), and an orphan that is not removed has a goroutine for its last
  update (`OrphanAfter`).
- `PlegSoundness`: `PlegIsSound`. The invariant is about times (`IsOf`): what was listed,
  then read, then cached of a pod it still had when the relist began, so it is no older
  than any sync that ended before; and the cache's times are never after that of the
  relist. That nothing is lost is the harder half (`RecordOK`): if the record is behind
  what is cached, the runtime has left that record for good, because a container that
  starts or ends is never again what it was, so the next list will differ from the
  record and the pod is told of; and an error in the cache is one that will be read again.

- `StatusSoundness` and `PodsEndOnce`: `TerminalIsTrue` and `StatusSteps`. A status goes
  from the worker, which generates it and sets it a while later, over the sender, which
  reads the pod, asks the worker whether containers may run and patches what it has,
  to the API server, while newer ones are set behind it. `StatusInv` orders them: from
  what the API server shows to each setting in the sender's hands to what is set now,
  what has ended stays so (`EndsStay`, in `SetFollows`, `TodoFollows`, `SendsWhatIs`).
  A status that was forgotten is set anew from nothing, which would break the chain;
  but it is forgotten only of a pod that the API server no longer has and, as pods are
  numbered in the order of their creation (`InOrder`), never will have again. That the
  sender's answer of the worker is old by the time it patches does no harm: a pod whose
  containers were stopped stays so.
- `ProberSoundness` and `ReplacedOnlyForItsOwn`: `ProbesAreSound` and `ReplacedForItsOwn`
  (which `PodSteps` has TLC check). Worker, sync loop and pod worker each act on what they
  read of a container that may have been replaced since. `ProberInv` says that all of it
  speaks of one instance and stays true of it: a status that is set or in hand
  (`Truthful`), and a result that is cached or on its way (`Justified`), since instances
  only follow one another and one that is over stays so. A failure that no probe has
  given, which a worker sets for a container it finds not running, is of an instance that
  is over. And a container without a result for its readiness is not ready, because
  its worker is there while it runs: the workers of a pod that goes on are made together
  and none ends before the pod does (`WorkersFit`).

`CacheProofs` (assuming `IndexAssumption`, that index functions map objects to
sets of values and that no object stands for its absence, and `FifoAssumption`, that a
list is a sequence of keys; of the informer, that it has no selector, as those of the
controllers have none, and of the pod source, that the bound on pods is a number):

- `IndexSoundness`: `IndexIsSound`. A transaction feeds an operation with the outcome
  of the one before, so what is invariant is said of outcomes (`GoodStore`): every key
  but the torn ones is found under exactly the values of its object. A call that throws
  half way tears its own key and no other (`AnswersAreValues`), and replacing the items
  builds the indices anew.
- `FifoSoundness` and `NothingJumpsTheQueue`: `FifoIsSound`, and the step property
  that `StepsFollow` of `MCWatch` takes from it. `HasSynced` is said of a counter that
  the first list sets and each pop takes one from; it is right because what is left of
  that list stands within as many places of the head of the queue, or is in the hands
  of a consumer who will count it (`FirstIsAhead`, `CountIsRight`).
- `InformerSoundness`: `CacheIsSound`, which is the informer's part of `MCWatch`'s
  `CachesAreSound`. The invariant (`HasUpTo`) says of a cache and a revision that every
  key whose last change is no later is cached as of that change; keys changed since may
  be cached as anything. That is what a list is at its own revision however far the log
  went on meanwhile, what a stop or a failed watch leaves behind, and what a watch
  resumed from that revision mends: replaying the log from it gives what a list would
  answer (`FollowingIsDefined`). While the watch is open the revision is the last one.
- `PodSourceSoundness`: `SourceIsSound`, the pod source's part of the same invariant. The
  store may lag behind the server, the mux's pods behind the store, the manager's behind
  the mux's. Each lag is closed by what is on its way. The events that the reflector has not
  taken lead the store to the server's pods (`Catches`): from the list's revision while it
  is pushed, from the watch's position afterwards, and events that the selector leaves out
  change nothing (`SkipsOthers`). The operations that are queued lead the manager's pods to
  the mux's, one pod of a name all along (`Leads`); that the operations of a push do so in
  the order they are sent is `PushLeads`: what is gone is removed first, so a pod that
  took another's name is never known beside it. The index of names and what the workers
  were told follow the manager's pods (`Indexed`, `Runs`), and until the first operation is
  handled it is at the head of the line with every pod of the first list (`Readies`).

`ReplicaSetProofs` (assuming `ReplicaSetAssumption`, that the bounds are numbers), for
any number of pods and events:

- `PodsAreCounted` and `CreationsAreBounded`: `CountsItsOwn` and `NeverTooMany`. The
  controller decides from caches that lag, and the proof says why it may. Versions of a
  pod only move on (`VersionsFollow`: what the indexer holds, each event on its way and
  what the API server holds follow one another), so a pod of its own is indexed as one
  if it is indexed at all. A pod that is not indexed has an event that the consistency
  store still waits for (`OwnWritesCome`), so a sync that starts has every pod in its
  list (`AllCounted`). A pod it deleted may be indexed as active still, but is then among
  the keys of the expectations, which are satisfied only when there are none
  (`ExpectationsHold`, `NothingDoomed`).
- That bounds the creations: all pods of its own but those just created were counted,
  those are no more than the calls that have returned (`worker.made`), and the slow start
  never has more calls out than what is left of the difference.
- `RankingSoundness`: `RankingIsSound` of `PodRanking` (assuming `RankingAssumption`: a
  pod has a phase and at most one deletion cost, both numbers, and the cache holds finitely
  many pods). The comparison as a whole is not transitive, so the sorted array need not be
  in its order. But its first six criteria are (`CriteriaOrder`), and a step of the sort
  that exchanges two pods never goes against them (`LessIsNotBefore`). The invariant is
  that what was inserted is in their order, but for the pod that moves down, which is not
  behind any above it (`SortedSoFar`); when the sort ends nothing moves, so the pods at
  the front are none that a remaining one comes before. An exchange is a bijection between
  the places a pod had and has (`ExchangeKeepsAll`), so none is lost or doubled, and each
  takes its rank along (`RanksAgree`).

`ClusterProofs`, about the scheduler (assuming `SchedulerAssumption`: the nodes are
finitely many and the tries a number), the namespace controller (assuming
`NamespaceAssumption`: there are namespaces and kinds, and the tries are a number) and
the garbage collector (assuming `GCAssumption`: the objects are finitely many, and
references are to objects), three controllers that act on what they read some requests
ago:

- `PodsStayBound`: `BoundOnce`. The invariant (`UnboundUntilUpdated`) is that a binding
  whose write will be accepted is of a pod that has no node, since whoever gave it one
  after the binding looked has overtaken it.
- `NamespacesFinalizedEmpty`: `FinalizedWhenEmpty`. The invariant (`EmptyBehind`) follows
  the worker through the kinds: unless it has found content left, each kind it has seen
  to is empty or was filled behind it, and the objects so created are those it has not
  listed since.
- `OwnedObjectsStay`: `OwnedStay`. An owner is judged by a request of its own, or by what
  the cache of absent owners remembers, and the deletion comes some requests later. The
  invariant (`GCInv`) says that a judgement does not get old: who is gone stays gone and
  no other takes the UID (`Known`, `Lasting`), so every absence that an event, a virtual
  node's deletion or the cache has on record is one for good (`QueuesSound`, `News`);
  and an owner that waits for its dependents waits until it goes (`KeepsWaiting`). What is
  in hand speaks of objects that are, or were, there (`DeleterSound`, `OrphanerSound`).

Induction over data is out of the prover's reach where it takes an operator as a
parameter; what the proofs need of it is an argument by the least element of a set
of numbers (`SetInduction`).

Only model-checked: everything else. The liveness properties (`MCProgress`) stay
so, since ENABLED and fairness are out of the prover's reach. Of the safety properties,
those of `DelayingQueue`, of the kubelet's containers and image pulls, of the Deployment
controller, of the endpoint slice controller and of kube-proxy's tables, and what the
garbage collector does with finalizers are not proved; those of `DelayingQueue` would
have to speak about the heap, which is a recursive operator, and stay with TLC.

## Where the code does not do what it says

Seven runs refute something the repository says of itself:

- `MCEtcd_retention`: trimming a key's history raises the watermark only to the
  dropped record's own revision, so a read between it and the next record that
  is kept answers as if the key did not exist (`etcd.ts:824`, header `:21`).
- `Store_precondition`: a delete checks its resource version on one read and
  removes what another one returned (`delete.ts:70`, `pod.test.ts:1119`).
- `Informer_compacted`: an informer recognises a compaction by a text that
  the fake etcd does not send, and gives up (`cache.ts:396`,
  `cache.test.ts:132`).
- `Deployment_rollout`: after the write of a status the controller puts the
  Deployment it computed it for back into its cache, over a newer one that the
  informer delivered meanwhile; the change of its template is not rolled out
  before another event comes (`deployment-controller.ts:1207`,
  `deployment.test.ts:839`).
- `KubeProxy_addresses`: an address is looked for at as many offsets from the
  cursor as there are addresses, but past the end of the range the n-th try is the
  n-th address, not the next one after the wrap; "no free pod IPs" is thrown
  although one is free (`network.ts:215`, message `:228`).
- `Prober_startup`: the status of a container that was restarted takes `started`
  over from the old one, which shares its name, so its liveness and readiness are
  probed before its startup probe has succeeded (`kubelet.ts:2473`,
  `probe.test.ts:65`).
- `ImagePull_tokens`: a pull whose caller was cancelled sends its result to a channel
  that nobody will receive from, and returns its token only after that; the pulls
  behind it wait for ever (`puller.ts:69`, `image-manager.ts:216`,
  `image-manager.test.ts:783`).

Other divergences found while modelling, with no run of their own:

- A failed watch that is cancelled still emits `end` (`etcd.ts:1982`, against
  `:1850`).
- A transaction whose later operation throws leaves writes that are never
  published (`etcd.ts:478`, against the header, lines 19-20); a hypothesis of
  `DeliveryIsExactlyOnce`, as no transaction in `src/` throws half way.
- A watch that starts far ahead emits earlier revisions (`etcd.ts:1927`, against
  `:1812`); the other hypothesis.
- A select parks a send on a closed channel (`channel.ts:183`, against the
  header, line 96). Nothing in `src/` closes a channel that a select sends to.
- A finalizer added while an object is being deleted does not hold it
  (`delete.ts:70`, against `replicaset.test.ts:880`).
- A node port that a service names twice is counted once and leaks
  (`service.ts:207`, against `service.test.ts:493`).
- A service of type `ExternalName` keeps the `clusterIP` it is created with, which
  `allocateClusterIP` does not claim (`service.ts:219`) though an update would clear it
  (`:176`). It counts as the service's (`:366`) and is released with it (`:163`): if it
  is another service's, the range may then give it out again; if nobody has taken it, the
  release fails and the node ports behind it stay taken. Values of these two kinds
  are `stray` in `ServiceStore`, which says nothing of who shares them.
- A watch with a selector that resumes does not know which keys matched before
  (`watch.ts:119`, against `:160`); in the run an informer selects everything.
- `done()` signals once, so of two drains that wait one may sleep on
  (`queue.ts:166`); `QueuesServe` says of the drains only that one returns.
- A namespace whose last finalizer is a user's, taken away after the
  controller's own, stays terminating until it is deleted once more: the worker
  passes over a namespace without finalizers (`namespace-controller.ts:151`).
  `MayStay` excuses it by `stranded`.
- The namespace worker sends to the channel that only it receives from, and
  queues a name again that is queued already; a hundred updates of a namespace
  that cannot be emptied yet block it for ever (`namespace-controller.ts:142`).
- `deleteNamespace` decides on one read and then removes, or marks, what is
  under the name by then; a namespace that was created anew goes with the
  finalization of the old one (`CoreV1Api.ts:130`).
- The scheduler drops the events of a pod whose binding is pending and does not
  try a failed binding again before the next event (`scheduler.ts:58`); a pod
  created before there is a node, or again under the same name during a binding,
  waits. `HasNode` excuses it by `gaveUp`.
- Garbage collection: objects that own each other and are deleted in the
  foreground may wait for each other for ever if the graph lags behind. After a conflict only
  the owner references are compared, and then the object is deleted at any
  version, so an owner added in between is not seen, and the policy of a deletion
  under way may be replaced (`garbage-collector.ts`). Finalizers and references
  are removed by name, without the UID: once the orphaning worker has removed the
  last finalizer, its deletion finds the owner gone, which is taken for an error and
  tried again, for ever (`:397`), and a retry takes the finalizer off an owner that
  was created anew under the name and is being deleted likewise, which goes before
  its own dependents were let go. That takes four requests of users, more than
  the runs allow, and was found by TLC with that bound; `ForegroundWaits` and
  `OrphansAreLetGo` therefore speak of the item their worker has at hand. A reference that comes to name another
  object with the same UID is not looked at again.
- `cacheObject` of the controllers' caches puts back what a request returned, and
  with it objects that have changed or gone since.
- Pod runtime: stopping a container that has exited writes its `finishedAt` again;
  a container that was created and never started reads exit code 0 once it is
  stopped; the restart count begins at 0 again after all containers were
  restarted.
- The status manager deletes a finished pod by its name, without its UID, and so
  may delete the next one; a readiness update that waits may mark a container
  ready that has terminated meanwhile.
- Probe results keep their run of failures when the container behind the name
  changes; a worker's own copy of the pod never has a deletion time, so the branch
  of `doProbe` for it is dead.
- `unregisterService` deletes the entries of its addresses and node port, whoever
  they belong to by then; a service that is deleted while kube-proxy is down stays
  routed, and may make a later registration throw. `unregisterNode` does nothing
  for a node without addresses. A slice that is relabelled leaves the targets of
  its old service behind, and each reconciliation resets the round robin. An
  address that was resolved may have been given to another pod when the request
  arrives (`network.ts`, `proxy.ts`).
- `SliceIsOfService` fails for a service deleted in the foreground, since the
  slice that is replaced then loses its owner's UID; the runs use background
  deletion.
- `shutDownWithDrain` of the delaying queue never closes `stopCh`, so its loop
  stays, and a caller of `addAfter` blocked on a full channel may never return
  (`delaying-queue.ts:79`). Nothing but tests calls it.
- `step` of the clock moves time back to a task the host was late with; a callback
  that throws leaves its task behind; a ticker's phase differs between steps and
  real time.

## Assumptions of the models

- `EtcdLock`: the handler of the delete watch is detached before the lock can be
  deleted once more (`NobodyJustWoken`); it takes two microtasks and a body takes
  five or more.
- `AllocatableRange`: a client releases only an index it owns.
- `Store`: an edit carries the version it read, as every caller of `update` does.
- `Informer`: `start` and `stop` are awaited.
- `PodWorkers`: a worker takes its token in the turn in which it is woken
  (`Settled`); the API calls a pod terminal when it is added only if its
  containers have stopped. A pod that comes back under the same UID while its
  termination is being retried may wait for ever: the work queue drops the UID
  of an absent pod and the new `create` only asks for a restart
  (`kubelet.ts:1019`); `PodsProgress` excludes exactly that (`CameBack`).
- `Pleg`: a status is fresh to the millisecond; `notify` uses "not before"
  (`cache.ts:160`).
- Left out of `PodWorkers`: mirror and static pods, which nothing produces, and
  the kill options `evict`, `completedCh` and `podStatusFunc`, which nobody passes.
  Left out of `Pleg`: the events themselves, a function of two records.
- `ReplicaSet`: one ReplicaSet and orphans, no second owner; no pod or
  ReplicaSet comes back under its name (`expectCreations` keeps the keys of the
  last deletions, which would then matter until they expire). Caches that lag
  are a conservative abstraction: etcd publishes a write within it, and the
  informers follow some microtasks later. Expectations do not expire, since
  their events arrive before. Left out: availability after `minReadySeconds`,
  creations in a namespace that terminates (the code counts them as done). Which pods
  go is left open there and is what `PodRanking` is about.
- `ImagePull`: one image per pod, whose name stands for the back-off's key; the
  limiter's blocking forms are left out, since nothing calls them. `IndexedStore`:
  index functions answer alike for the same object. `Fifo`: handlers don't throw.
- `NamespaceController`: a namespace holds at most one object of a kind. The
  ends of the processes are left out, here and in `Scheduler`.
- `PodSource`: one source, `api`, as `makePodSourceConfig` makes it; a node is
  always synced; back-offs take any time.
- `PodRuntime`: no init containers, no state Unknown (the runtime has none), no
  volumes; grace periods and back-offs take any time. `StatusManager`: one
  container that is never restarted, no static or mirror pods. `Prober`: initial
  delay and period are left out, since a turn may come at any time.
- `Deployment`: a ReplicaSet whose labels change is not released, and
  `minReadySeconds` is 0. `GarbageCollector`: one namespace, and kinds are part of
  the names.
- `Network`: one port for each protocol. `KubeProxy`, `EndpointSlices`: their
  informers watch; what happens before and between watches is in `Informer`.
- `DelayingQueue`: the exponential limiter stands for the default one, which is
  the longer of it and a bucket. `Clock`: callbacks don't throw and don't pause,
  resume or step the clock; `clear()` and `reset()` are left out.

## Not modelled, and the plan

What has state and interleaves is modelled, for the most part; `PROJECT.json`
says of each component what is left out. The rest is not modelled because there
is nothing for a model checker to find in it:

- once and wait groups: a counter and a flag, changed and tested in one section;
- life-cycle hooks: steps of `PodRuntime` that may fail;
- node status, kubelet pod helpers (the active deadline among them): functions of
  one object;
- selectors, strategic merge patch, API validation, addresses and numbers, image
  names: text and recursion over untyped data, without state; the models take them
  for what they decide;
- lengths of back-offs and delays other than those of failed pulls, collections, hashes;
- assembly of the cluster, generated client models, workload images, the demo and
  the examples.

The models assume that `start` and `stop` of an informer are awaited and that it is
started once, as every caller does: a `stop()` while its `doneHandler` awaits a list
(`cache.ts:68`) is no behaviour of theirs.

What remains is to prove more: next are the containers of the kubelet (`PodRuntime`) and
its image pulls (`ImagePull`), whose invariants `MCKubelet` checks at every step. Worth
modelling besides: two ReplicaSets that compete for an orphan, and a pod's life as seen
from the API as an abstract specification of `PodRuntime` with `StatusManager`.

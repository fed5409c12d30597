-------------------------------- MODULE Pleg --------------------------------
(***************************************************************************)
(* The pod lifecycle event generator (pleg/generic.ts), which lists the    *)
(* runtime and keeps the pod cache (container/cache.ts), and the pod       *)
(* workers that ask the cache for a status newer than their last sync.     *)
(*                                                                         *)
(* A pod's containers are one value that changes: a number that grows and  *)
(* whether it is running, exited or not there.  Time is the clock's        *)
(* milliseconds: many steps happen within one.                             *)
(***************************************************************************)
EXTENDS Integers, FiniteSets

CONSTANTS
    PodIds,
    MaxChanges,   \* bound: changes of a pod in the runtime
    MaxTime,      \* bound: the clock
    MaxFailures   \* bound: answers of the runtime that are errors

ASSUME PlegAssumption ==
    MaxChanges \in Nat /\ MaxTime \in Nat \ {0} /\ MaxFailures \in Nat

VARIABLES
    now,        \* the clock
    runtime,    \* the containers of each pod
    old,        \* podRecords: what the last events told
    lister,     \* who holds relistLock: where it is, and what it has read
    requests,   \* relistRequests: the pods, with the time they were asked for
    reinspect,  \* podsToReinspect
    relistTime, \* relistTime
    cache,      \* the pod cache's pods
    timestamp,  \* the pod cache's global timestamp
    syncer,     \* the pod workers
    recent,     \* what each pod was within this millisecond
    failures    \* errors so far

plegVars == <<now, runtime, old, lister, requests, reinspect, relistTime, cache, timestamp,
              syncer, recent, failures>>

Gone  == [n |-> 0, state |-> "gone"]   \* no sandbox and no container
Error == [n |-> 0, state |-> "error"]  \* getPodStatus failed
Containers == [n : 1 .. MaxChanges, state : {"running", "exited"}]

NoData  == [has |-> FALSE, value |-> Gone, modified |-> 0, observed |-> 0]
Free    == [pc |-> "free", full |-> FALSE, pod |-> {}, ts |-> 0, current |-> [u \in {} |-> Gone],
            todo |-> {}, at |-> {}, read |-> Gone]

\* A worker: syncing since it got "answer"; asking for a status newer than
\* "last"; "since" is what the pod has been since the millisecond of "last".
NewWorker == [pc |-> "idle", last |-> 0, since |-> {Gone}, answer |-> Gone]

PlegInit ==
    /\ now = 1
    /\ runtime = [u \in PodIds |-> Gone] /\ recent = [u \in PodIds |-> {Gone}]
    /\ old = [u \in PodIds |-> Gone]
    /\ lister = Free /\ requests = {} /\ reinspect = {} /\ relistTime = 0
    /\ cache = [u \in PodIds |-> NoData] /\ timestamp = 0
    /\ syncer = [u \in PodIds |-> NewWorker]
    /\ failures = 0

----------------------------------------------------------------------------
(* The clock and the containers.                                           *)

Tick ==
    /\ now < MaxTime /\ now' = now + 1
    /\ recent' = [u \in PodIds |-> {runtime[u]}]
    /\ UNCHANGED <<runtime, old, lister, requests, reinspect, relistTime, cache, timestamp,
                   syncer, failures>>

\* Containers start only in a sync; they exit, and are removed, at any time.
Changes(u, state, n) ==
    /\ runtime' = [runtime EXCEPT ![u] = IF state = "gone" THEN Gone ELSE [n |-> n, state |-> state]]
    /\ recent' = [recent EXCEPT ![u] = @ \cup {runtime'[u]}]
    /\ syncer' = [syncer EXCEPT ![u].since = @ \cup {runtime'[u]}]
    /\ UNCHANGED <<now, old, lister, requests, reinspect, relistTime, cache, timestamp, failures>>

\* The number a change gets: above all the records, the cache and the workers
\* have seen.
Seen(u) == {runtime[u].n, old[u].n, cache[u].value.n, syncer[u].answer.n, lister.read.n}
             \cup {v.n : v \in syncer[u].since \cup recent[u]}
             \cup (IF u \in DOMAIN lister.current THEN {lister.current[u].n} ELSE {})
Fresh(u) == 1 + (CHOOSE n \in Seen(u) : \A m \in Seen(u) : m <= n)

ContainersStart(u) ==
    /\ syncer[u].pc = "syncing" /\ syncer[u].answer # Error
    /\ runtime[u].state # "running" /\ Fresh(u) <= MaxChanges
    /\ Changes(u, "running", Fresh(u))
ContainersEnd(u) ==
    /\ runtime[u].state = "running" /\ Fresh(u) <= MaxChanges /\ Changes(u, "exited", Fresh(u))
ContainersRemoved(u) ==
    /\ runtime[u].state = "exited" /\ Changes(u, "gone", 0)

----------------------------------------------------------------------------
(* The pod cache.                                                          *)

IsNewer(u, t) ==
    timestamp > t \/ (cache[u].has /\ (cache[u].modified > t \/ cache[u].observed > t))

\* notify: who waits for a time that is not after t gets what the cache has.
Notified(ws, us, data, t) ==
    [u \in PodIds |-> IF u \in us /\ ws[u].pc = "waiting" /\ ~(t < ws[u].last)
                      THEN [ws[u] EXCEPT !.pc = "syncing", !.answer = data[u].value]
                      ELSE ws[u]]

\* getNewerThan: an answer at once, or a subscription.
Ask(u) ==
    /\ syncer[u].pc = "idle"
    /\ syncer' = [syncer EXCEPT ![u] =
          IF IsNewer(u, @.last) THEN [@ EXCEPT !.pc = "syncing", !.answer = cache[u].value]
                                ELSE [@ EXCEPT !.pc = "waiting"]]
    /\ UNCHANGED <<now, runtime, old, lister, requests, reinspect, relistTime, cache, timestamp,
                   recent, failures>>

\* The sync was cancelled while it waited: unsubscribe.
Cancelled(u) ==
    /\ syncer[u].pc = "waiting" /\ syncer' = [syncer EXCEPT ![u].pc = "idle"]
    /\ UNCHANGED <<now, runtime, old, lister, requests, reinspect, relistTime, cache, timestamp,
                   recent, failures>>

\* The sync ends; if it did something, it asks for a relist of its pod.
SyncEnds(u) ==
    /\ syncer[u].pc = "syncing" /\ syncer[u].answer # Error
    /\ syncer' = [syncer EXCEPT ![u] = [@ EXCEPT !.pc = "idle", !.last = now, !.since = recent[u],
                                                 !.answer = Gone]]
    /\ \/ requests' = requests \cup {[pod |-> u, ts |-> now]}
       \/ UNCHANGED requests
    /\ UNCHANGED <<now, runtime, old, lister, reinspect, relistTime, cache, timestamp, recent,
                   failures>>

\* It throws, as it does when it is answered with an error: the time of the last
\* sync stays.
SyncThrows(u) ==
    /\ syncer[u].pc = "syncing"
    /\ syncer' = [syncer EXCEPT ![u].pc = "idle", ![u].answer = Gone]
    /\ UNCHANGED <<now, runtime, old, lister, requests, reinspect, relistTime, cache, timestamp,
                   recent, failures>>

----------------------------------------------------------------------------
(* Relisting, of all pods or of one.                                       *)

StartRelist ==
    /\ lister.pc = "free"
    /\ lister' = [Free EXCEPT !.pc = "list", !.full = TRUE, !.pod = PodIds, !.ts = now]
    /\ UNCHANGED <<now, runtime, old, requests, reinspect, relistTime, cache, timestamp, syncer,
                   recent, failures>>

\* A request older than the last relist is dropped.
StartRelistPod ==
    /\ lister.pc = "free"
    /\ \E r \in requests :
         /\ requests' = requests \ {r}
         /\ lister' = IF r.ts > relistTime
                      THEN [Free EXCEPT !.pc = "list", !.pod = {r.pod}, !.ts = now] ELSE Free
    /\ UNCHANGED <<now, runtime, old, reinspect, relistTime, cache, timestamp, syncer, recent,
                   failures>>

Fail   == failures < MaxFailures /\ failures' = failures + 1

\* A pod that is asked for by itself and is gone is an error too.
List ==
    /\ lister.pc = "list"
    /\ lister.full \/ \A u \in lister.pod : runtime[u] # Gone
    /\ lister' = [lister EXCEPT !.pc = "reconcile", !.todo = lister.pod,
                                !.current = [u \in lister.pod |-> runtime[u]]]
    /\ relistTime' = IF lister.full THEN lister.ts ELSE relistTime
    /\ UNCHANGED <<now, runtime, old, requests, reinspect, cache, timestamp, syncer, recent,
                   failures>>

RelistFails ==
    /\ lister.pc = "list" /\ lister' = Free
    /\ \/ Fail
       \/ ~lister.full /\ (\A u \in lister.pod : runtime[u] = Gone) /\ UNCHANGED failures
    /\ UNCHANGED <<now, runtime, old, requests, reinspect, relistTime, cache, timestamp, syncer,
                   recent>>

\* reconcilePodRecord: nothing to tell, the pod is gone, or it is inspected.
Current(u) == lister.current[u]
Reconciled(u) == [lister EXCEPT !.pc = "reconcile", !.todo = @ \ {u}, !.at = {}, !.read = Gone]

Unchanged(u) ==
    /\ lister.pc = "reconcile" /\ u \in lister.todo
    /\ Current(u) = old[u] /\ u \notin reinspect
    /\ lister' = Reconciled(u)
    /\ UNCHANGED <<now, runtime, old, requests, reinspect, relistTime, cache, timestamp, syncer,
                   recent, failures>>

Vanished(u) ==
    /\ lister.pc = "reconcile" /\ u \in lister.todo
    /\ Current(u) # old[u] \/ u \in reinspect
    /\ Current(u) = Gone
    /\ cache' = [cache EXCEPT ![u] = NoData]
    /\ old' = [old EXCEPT ![u] = Gone]
    /\ reinspect' = reinspect \ {u} /\ lister' = Reconciled(u)
    /\ UNCHANGED <<now, runtime, requests, relistTime, timestamp, syncer, recent, failures>>

Inspect(u) ==
    /\ lister.pc = "reconcile" /\ u \in lister.todo
    /\ Current(u) # old[u] \/ u \in reinspect
    /\ Current(u) # Gone
    /\ reinspect' = reinspect \ {u}
    /\ \/ lister' = [lister EXCEPT !.pc = "set", !.at = {u}, !.read = runtime[u]]
          /\ UNCHANGED failures
       \/ lister' = [lister EXCEPT !.pc = "set", !.at = {u}, !.read = Error] /\ Fail
    /\ UNCHANGED <<now, runtime, old, requests, relistTime, cache, timestamp, syncer, recent>>

\* Mutant: a pod whose status could not be read counts as told.
SetCacheForgets ==
    \E u \in lister.at :
        /\ cache' = [cache EXCEPT ![u] = [has |-> TRUE, value |-> lister.read,
                                          modified |-> lister.ts, observed |-> lister.ts]]
        /\ syncer' = Notified(syncer, {u}, cache', lister.ts)
        /\ old' = [old EXCEPT ![u] = Current(u)] /\ UNCHANGED reinspect
        /\ lister' = Reconciled(u)
        /\ UNCHANGED <<now, runtime, requests, relistTime, timestamp, recent, failures>>

SetCache ==
    \E u \in lister.at :
        /\ cache' = [cache EXCEPT ![u] = [has |-> TRUE, value |-> lister.read,
                                          modified |-> lister.ts, observed |-> lister.ts]]
        /\ syncer' = Notified(syncer, {u}, cache', lister.ts)
        /\ IF lister.read = Error
           THEN reinspect' = reinspect \cup {u} /\ UNCHANGED old
           ELSE old' = [old EXCEPT ![u] = Current(u)] /\ UNCHANGED reinspect
        /\ lister' = Reconciled(u)
        /\ UNCHANGED <<now, runtime, requests, relistTime, timestamp, recent, failures>>

\* Mutant: the new timestamp is told to nobody.
DoneQuietly ==
    /\ lister.pc = "reconcile" /\ lister.todo = {}
    /\ timestamp' = IF lister.full THEN lister.ts ELSE timestamp
    /\ cache' = IF lister.full THEN cache
                ELSE [u \in PodIds |-> IF u \in lister.pod /\ cache[u].has
                                       THEN [cache[u] EXCEPT !.observed = lister.ts] ELSE cache[u]]
    /\ lister' = Free
    /\ UNCHANGED <<now, runtime, old, requests, reinspect, relistTime, syncer, recent, failures>>

\* updateTime for all pods, setObservedTime for one.
Done ==
    /\ lister.pc = "reconcile" /\ lister.todo = {}
    /\ timestamp' = IF lister.full THEN lister.ts ELSE timestamp
    /\ cache' = IF lister.full THEN cache
                ELSE [u \in PodIds |-> IF u \in lister.pod /\ cache[u].has
                                       THEN [cache[u] EXCEPT !.observed = lister.ts] ELSE cache[u]]
    /\ syncer' = Notified(syncer, lister.pod, cache, lister.ts)
    /\ lister' = Free
    /\ UNCHANGED <<now, runtime, old, requests, reinspect, relistTime, recent, failures>>

PlegNext ==
    \/ Tick \/ StartRelist \/ StartRelistPod \/ List \/ RelistFails \/ SetCache \/ Done
    \/ \E u \in PodIds : \/ ContainersStart(u) \/ ContainersEnd(u) \/ ContainersRemoved(u)
                         \/ Ask(u) \/ Cancelled(u) \/ SyncEnds(u) \/ SyncThrows(u)
                         \/ Unchanged(u) \/ Vanished(u) \/ Inspect(u)

PlegSpec == PlegInit /\ [][PlegNext]_plegVars

\* The relist timer fires again and again, and a relist goes on.
RelistGoesOn == \/ List \/ RelistFails \/ SetCache \/ Done
                \/ \E u \in PodIds : Unchanged(u) \/ Vanished(u) \/ Inspect(u)
PlegFairness == WF_plegVars(StartRelist) /\ WF_plegVars(RelistGoesOn)

----------------------------------------------------------------------------
(* Properties.                                                             *)

PlegTypeOK ==
    /\ \A u \in PodIds : {runtime[u], old[u]} \subseteq Containers \cup {Gone}
    /\ \A u \in PodIds : cache[u].value \in Containers \cup {Gone, Error}
    /\ lister.pc \in {"free", "list", "reconcile", "set"}
    /\ {now, relistTime, timestamp, lister.ts} \subseteq 0 .. MaxTime
    /\ reinspect \subseteq PodIds

\* The status a worker syncs with is one the pod had since its last sync ended,
\* to the millisecond, or an error.
FreshEnough ==
    \A u \in PodIds : syncer[u].pc = "syncing" => syncer[u].answer \in syncer[u].since \cup {Error}

\* Whoever is told of a change finds it in the cache: the cache is never
\* behind the record the events were computed from.  A status that could not
\* be read will be read again.
CacheBeforeEvents ==
    \A u \in PodIds :
        /\ old[u] # Gone => /\ cache[u].has
                            /\ cache[u].value \in {Gone, Error} \/ cache[u].value.n >= old[u].n
        /\ cache[u].value = Error => u \in reinspect \cup lister.at

\* Nobody waits while the cache has what it asked for.
NobodyMissed == \A u \in PodIds : syncer[u].pc = "waiting" => ~IsNewer(u, syncer[u].last)

PlegIsSound == PlegTypeOK /\ FreshEnough /\ CacheBeforeEvents /\ NobodyMissed

\* Again and again the cache shows what the runtime runs, and then no worker
\* is left waiting for a newer status.
NobodyWaits == \A u \in PodIds : cache[u].value = runtime[u] /\ syncer[u].pc # "waiting"
CacheServes == []<>NobodyWaits
=============================================================================

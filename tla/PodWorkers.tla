----------------------------- MODULE PodWorkers -----------------------------
(***************************************************************************)
(* The pod workers of a kubelet (pod-workers.ts) under its sync loop       *)
(* (kubelet.ts).  Each pod UID has a status record, guarded by podLock,    *)
(* and a worker: a loop over a channel of capacity 1 that carries "there   *)
(* is an update" while the update itself waits in the record.  A section   *)
(* under podLock is one action; what a worker does between two sections    *)
(* (reading the pod cache, the sync functions) interleaves with the sync   *)
(* loop, which handles one event at a time.                                *)
(*                                                                         *)
(* A worker runs in a slot of its UID.  The code means a UID to have one   *)
(* worker at a time and nothing enforces it, so the model gives it two.    *)
(*                                                                         *)
(* Left out: mirror and static pods (never produced), the kill options     *)
(* evict, completedCh and podStatusFunc (no caller passes them).           *)
(***************************************************************************)
EXTENDS Integers, FiniteSets, FiniteSetsExt

CONSTANTS
    UIDs,
    DeletionGraces, \* values deletionGracePeriodSeconds may have
    SpecGrace,      \* terminationGracePeriodSeconds
    Leftover,       \* pods the runtime may be running when the kubelet starts
    MaxEvents       \* bound: config events in a behaviour

ASSUME PodWorkersAssumption ==
    /\ DeletionGraces \subseteq Nat /\ SpecGrace \in Nat
    /\ Leftover \subseteq UIDs /\ MaxEvents \in Nat

VARIABLES
    config,       \* podManager: the desired pods
    status,       \* podSyncStatuses
    chan,         \* podUpdates: the slot of the worker that listens to it, or 0
    worker,       \* the worker loops, with their end of the channel
    queue,        \* workQueue
    reported,     \* statusManager: pods with a terminal phase
    running,      \* the runtime: pods with a running container
    sourcesReady, \* config has been seen
    hk,           \* where handlePodCleanups is, and what it read
    stopped,      \* close() was called
    events        \* config events so far

vars == <<config, status, chan, worker, queue, reported, running, sourcesReady, hk,
          stopped, events>>

Slots    == 1 .. 2
InFlight == {"ready", "syncing", "started"} \* between startPodSync and its outcome
NoGrace == -1
Absent  == [api |-> "absent"]    \* not in the pod manager
NoPod   == [api |-> "none"]      \* options without a pod
Runtime == [api |-> "runtime", deleting |-> FALSE, terminal |-> FALSE, grace |-> NoGrace]
Pods    == [api : {"pod"}, deleting : BOOLEAN, terminal : BOOLEAN,
            grace : DeletionGraces \cup {NoGrace}]

\* UpdatePodOptions, and what of them an update keeps: the update type and the
\* grace period are handed to the sync functions and decide nothing here.
Options(type, pod) == [type |-> type, pod |-> pod, runtime |-> FALSE, override |-> NoGrace]
KillRunning        == [type |-> "kill", pod |-> NoPod, runtime |-> TRUE, override |-> 1]
Updates  == [pod : Pods \cup {NoPod}, runtime : BOOLEAN]
NoUpdate == [pod |-> Absent, runtime |-> FALSE]

Unknown == [known |-> FALSE]
FreshStatus ==
    [known |-> TRUE, pending |-> NoUpdate, active |-> NoUpdate, started |-> FALSE,
     terminating |-> FALSE, startedTerminating |-> FALSE, terminated |-> FALSE,
     finished |-> FALSE, deleted |-> FALSE, restart |-> FALSE, observed |-> FALSE,
     working |-> FALSE, grace |-> 0, cancel |-> 0]

NoWork   == [type |-> "none", pod |-> NoPod, runtime |-> FALSE]
NoWorker == [pc |-> "none", token |-> FALSE, closed |-> FALSE, cancelled |-> FALSE,
             work |-> NoWork]
NoCleanup == [pc |-> "no", working |-> {}, runtime |-> {}, todo |-> {}]

Present(u) == config[u] # Absent

Init ==
    /\ config = [u \in UIDs |-> Absent]
    /\ status = [u \in UIDs |-> Unknown]
    /\ chan = [u \in UIDs |-> 0]
    /\ worker = [u \in UIDs |-> [w \in Slots |-> NoWorker]]
    /\ queue = {} /\ reported = {} /\ running \in SUBSET Leftover
    /\ sourcesReady = FALSE /\ hk = NoCleanup /\ stopped = FALSE /\ events = 0

----------------------------------------------------------------------------
(* The status record.                                                      *)

WorkType(s) == IF s.terminated THEN "TerminatedPod"
               ELSE IF s.terminating THEN "TerminatingPod" ELSE "SyncPod"

\* calculateEffectiveGracePeriod: the shortest of what asks, the spec's if
\* nothing does, and never below a second.
Shorter(g, override) ==
    IF override # NoGrace /\ (g = 0 \/ override < g) THEN override ELSE g
\* Mutant: the last one to ask decides.
LatestGrace(s, pod, override) ==
    IF override # NoGrace THEN override ELSE IF pod.grace # NoGrace THEN pod.grace
    ELSE IF s.grace # 0 THEN s.grace ELSE IF pod = Runtime THEN 1 ELSE SpecGrace

EffectiveGrace(s, pod, override) ==
    LET unasked == s.grace = 0 /\ pod.grace = NoGrace /\ override = NoGrace
        spec    == IF pod = Runtime THEN 0 ELSE SpecGrace
        g       == IF unasked THEN spec ELSE Shorter(Shorter(s.grace, pod.grace), override)
    IN  IF g < 1 THEN 1 ELSE g

\* requeueLastPodUpdate; its send is Token.
Requeued(s) == IF s.pending # NoUpdate \/ s.active = NoUpdate THEN s
               ELSE [s EXCEPT !.pending = s.active, !.working = TRUE]
Requeues(s) == s.pending = NoUpdate /\ s.active # NoUpdate

\* mergeLastUpdate
Merged(s, o) ==
    LET keeps == s.active # NoUpdate /\ s.active.pod # NoPod /\ o.runtime
    IN  [o EXCEPT !.pod = IF keeps THEN s.active.pod ELSE @]

\* The workers of a UID once its channel has a token, or is closed.
Token(ws, c)  == IF c = 0 THEN ws ELSE [ws EXCEPT ![c].token = TRUE]
Closed(ws, c) == IF c = 0 THEN ws ELSE [ws EXCEPT ![c].closed = TRUE]
Cancel(ws, c) == IF c # 0 /\ ws[c].pc \in InFlight
                 THEN [ws EXCEPT ![c].cancelled = TRUE] ELSE ws

----------------------------------------------------------------------------
(* updatePod.  "terminalAtFirst": the pod is reported terminal and the pod  *)
(* cache shows nothing of it running.  The cache may still show containers  *)
(* that have stopped, and never misses one that runs: nothing starts a      *)
(* container of a pod without a status record.                             *)

FirstStatus(terminalAtFirst) ==
    IF terminalAtFirst
    THEN [FreshStatus EXCEPT !.terminating = TRUE, !.terminated = TRUE,
                             !.startedTerminating = TRUE]
    ELSE FreshStatus

\* A runtime pod borrows the pod of the last update, if one is known.
Resolved(s, o) ==
    IF ~o.runtime THEN o
    ELSE IF s.pending # NoUpdate /\ s.pending.pod # NoPod
    THEN [o EXCEPT !.pod = s.pending.pod, !.runtime = FALSE]
    ELSE IF s.active # NoUpdate /\ s.active.pod # NoPod
    THEN [o EXCEPT !.pod = s.active.pod, !.runtime = FALSE]
    ELSE o

Becomes(s, o, pod) ==
    ~s.terminating /\ (o.runtime \/ pod.deleting \/ pod.terminal \/ o.type = "kill")

\* The update goes to the record, its channel (made with a worker if there is
\* none), and the context of the running sync if it must not go on.
Deliver(u, s, o, interrupts) ==
    \E w \in Slots :
        /\ w = IF chan[u] # 0 THEN chan[u]
               ELSE Min({v \in Slots : worker[u][v].pc = "none"})
        /\ chan' = [chan EXCEPT ![u] = w]
        /\ status' = [status EXCEPT ![u] =
               [s EXCEPT !.pending = [pod |-> o.pod, runtime |-> o.runtime], !.working = TRUE]]
        /\ LET ws == IF chan[u] # 0 THEN worker[u]
                     ELSE [worker[u] EXCEPT ![w] = [NoWorker EXCEPT !.pc = "idle"]]
               sent == Token(ws, w)
           IN  worker' = [worker EXCEPT ![u] = IF interrupts THEN Cancel(sent, s.cancel) ELSE sent]

Keeps(u, s) == status' = [status EXCEPT ![u] = s] /\ UNCHANGED <<chan, worker>>

Update(u, s0, firstTime, options) ==
    LET s1  == [s0 EXCEPT !.observed = @ \/ options.runtime]
        o   == Resolved(s0, options)
        pod == IF o.pod = NoPod THEN Runtime ELSE o.pod
        becomes == Becomes(s1, [o EXCEPT !.runtime = options.runtime], pod)
        s2  == IF becomes
               THEN [s1 EXCEPT !.terminating = TRUE,
                               !.deleted = @ \/ options.runtime \/ pod.deleting]
               ELSE s1
        g   == EffectiveGrace(s2, pod, o.override)
    IN  IF ~firstTime /\ s1.terminating /\ o.type = "create"
        THEN Keeps(u, [s1 EXCEPT !.restart = TRUE])
        ELSE IF s1.finished \/ (s2.terminated /\ options.runtime)
        THEN Keeps(u, s1)
        ELSE IF s2.terminating /\ ~s2.terminated
        THEN Deliver(u, [s2 EXCEPT !.grace = g], o, becomes \/ (s2.grace # 0 /\ s2.grace # g))
        ELSE Deliver(u, s2, o, becomes)

UpdatePod(u, options) ==
    IF stopped
    THEN UNCHANGED <<status, chan, worker>>
    ELSE IF status[u].known
    THEN Update(u, status[u], FALSE, options)
    ELSE \E terminalAtFirst \in BOOLEAN :
             /\ terminalAtFirst => options.pod # NoPod /\ options.pod.terminal /\ u \notin running
             /\ Update(u, FirstStatus(terminalAtFirst), TRUE, options)

----------------------------------------------------------------------------
(* The sync loop: one event at a time.  A token sent to a waiting worker is *)
(* taken within the turn it was sent in, long before the loop's next event. *)

Settled == \A u \in UIDs, w \in Slots : ~(worker[u][w].pc = "idle" /\ worker[u][w].token)
NextEvent == ~stopped /\ hk.pc = "no" /\ Settled
ConfigEvent == NextEvent /\ events < MaxEvents /\ events' = events + 1 /\ sourcesReady' = TRUE

\* A pod comes with whatever the API says of it by now; the API calls it
\* terminal only once a kubelet has seen its containers stop.
HandlePodAdditions(u) ==
    /\ ConfigEvent /\ ~Present(u)
    /\ \E p \in Pods :
         /\ p.terminal => u \notin running
         /\ ~p.deleting => p.grace = NoGrace
         /\ config' = [config EXCEPT ![u] = p]
         /\ UpdatePod(u, Options("create", p))
    /\ UNCHANGED <<queue, reported, running, hk, stopped>>

\* What an API pod may become: deletion and a terminal phase stay, and a
\* grace period only shrinks.
Follows(p, q) ==
    /\ p.deleting => q.deleting
    /\ p.terminal => q.terminal
    /\ p.grace # NoGrace => q.grace # NoGrace /\ q.grace <= p.grace
    /\ ~q.deleting => q.grace = NoGrace

HandlePodUpdates(u) ==
    /\ ConfigEvent /\ Present(u)
    /\ \E p \in Pods : /\ Follows(config[u], p)
                       /\ config' = [config EXCEPT ![u] = p]
                       /\ UpdatePod(u, Options("update", p))
    /\ UNCHANGED <<queue, reported, running, hk, stopped>>

HandlePodReconcile(u) ==
    /\ ConfigEvent /\ Present(u)
    /\ LET p == [config[u] EXCEPT !.terminal = TRUE]
       IN  /\ config' = [config EXCEPT ![u] = p]
           /\ \/ UpdatePod(u, Options("sync", p))      \* readiness changed
              \/ UNCHANGED <<status, chan, worker>>
    /\ UNCHANGED <<queue, reported, running, hk, stopped>>

HandlePodRemoves(u) ==
    /\ ConfigEvent /\ Present(u)
    /\ config' = [config EXCEPT ![u] = Absent]
    /\ UpdatePod(u, Options("kill", config[u]))
    /\ UNCHANGED <<queue, reported, running, hk, stopped>>

\* The first batch of a source may be empty.
NoPods ==
    /\ ConfigEvent /\ ~sourcesReady
    /\ UNCHANGED <<config, status, chan, worker, queue, reported, running, hk, stopped>>

\* A PLEG event, a probe result, an expired deadline.
HandlePodSyncs(u) ==
    /\ NextEvent /\ Present(u)
    /\ UpdatePod(u, Options("sync", config[u]))
    /\ UNCHANGED <<config, queue, reported, running, sourcesReady, hk, stopped, events>>

\* getPodsToSync takes a pod off the work queue, whether it is wanted or not.
SyncTick(u) ==
    /\ NextEvent /\ u \in queue
    /\ queue' = queue \ {u}
    /\ IF Present(u) THEN UpdatePod(u, Options("sync", config[u]))
                     ELSE UNCHANGED <<status, chan, worker>>
    /\ UNCHANGED <<config, reported, running, sourcesReady, hk, stopped, events>>

----------------------------------------------------------------------------
(* handlePodCleanups: the workers are pruned, the runtime is listed, and   *)
(* what the workers do not know is delivered to them.                      *)

\* removeTerminatedWorker
Removable(s, orphan) == s.finished \/ (orphan /\ ~s.started /\ ~s.observed)
Prunes(s, orphan)    == s.known /\ (s.restart \/ orphan)
Orphaned(s) ==
    IF s.terminating THEN Requeued([s EXCEPT !.deleted = TRUE])
    ELSE Requeued([s EXCEPT !.deleted = TRUE, !.terminating = TRUE,
                            !.grace = IF s.active # NoUpdate /\ s.active.pod # NoPod
                                      THEN EffectiveGrace(s, s.active.pod, NoGrace) ELSE 1])

SyncKnownPods ==
    LET removed == {u \in UIDs : /\ Prunes(status[u], ~Present(u))
                                 /\ Removable(status[u], ~Present(u))}
        orphans == {u \in UIDs \ removed : Prunes(status[u], ~Present(u)) /\ ~Present(u)}
    IN  /\ NextEvent /\ sourcesReady
        /\ hk' = [hk EXCEPT !.pc = "list",
                            !.working = {u \in UIDs \ removed : status[u].known}]
        /\ status' = [u \in UIDs |-> IF u \in removed THEN Unknown
                                     ELSE IF u \in orphans THEN Orphaned(status[u])
                                     ELSE status[u]]
        /\ chan' = [u \in UIDs |-> IF u \in removed THEN 0 ELSE chan[u]]
        /\ worker' = [u \in UIDs |->
                        IF u \in removed THEN Closed(worker[u], chan[u])
                        ELSE IF u \in orphans /\ Requeues(status[u])
                        THEN Token(worker[u], chan[u])
                        ELSE worker[u]]
        /\ UNCHANGED <<config, queue, reported, running, sourcesReady, stopped, events>>

ListRuntimePods ==
    /\ ~stopped /\ hk.pc = "list"
    /\ hk' = [hk EXCEPT !.pc = "deliver", !.runtime = running, !.todo = UIDs]
    /\ reported' = {u \in reported : Present(u)}
    /\ UNCHANGED <<config, status, chan, worker, queue, running, sourcesReady, stopped, events>>

ListFails ==
    /\ ~stopped /\ hk.pc = "list" /\ hk' = NoCleanup
    /\ UNCHANGED <<config, status, chan, worker, queue, reported, running, sourcesReady,
                   stopped, events>>

Terminal(u) == Present(u) /\ (config[u].terminal \/ u \in reported)
Creates(u)  == u \notin hk.working /\ Present(u) /\ ~Terminal(u)
Handled(u)  == hk' = [hk EXCEPT !.todo = @ \ {u}]

DeliverCleanup(u) ==
    /\ ~stopped /\ hk.pc = "deliver" /\ u \in hk.todo /\ Handled(u)
    /\ IF Creates(u)
       THEN UpdatePod(u, Options("create", config[u]))
       ELSE IF u \in hk.runtime \ hk.working
       THEN UpdatePod(u, KillRunning)
       ELSE IF u \notin hk.working /\ Present(u) /\ config[u].deleting /\ config[u].terminal
       THEN UpdatePod(u, Options("kill", config[u]))
       ELSE UNCHANGED <<status, chan, worker>>
    /\ UNCHANGED <<config, queue, reported, running, sourcesReady, stopped, events>>

CleanupDone ==
    /\ ~stopped /\ hk.pc = "deliver" /\ hk.todo = {} /\ hk' = NoCleanup
    /\ UNCHANGED <<config, status, chan, worker, queue, reported, running, sourcesReady,
                   stopped, events>>

----------------------------------------------------------------------------
(* A worker.                                                               *)

At(u, w, pc) == worker[u][w].pc = pc
Work(u, w)   == worker[u][w].work
Moves(u, w, pc) == worker' = [worker EXCEPT ![u][w].pc = pc]
Ends(u, w)      == worker' = [worker EXCEPT ![u][w] = NoWorker]

\* Receiving the token and startPodSync.  The token of a closed channel is
\* still received; its worker acts on whatever record its UID has by then.
StartPodSync(u, w) ==
    LET s  == status[u]
        o  == s.pending
        ws == [worker[u] EXCEPT ![w].token = FALSE]
        startable == s.started \/ (o.runtime /\ WorkType(s) = "TerminatingPod") \/ o.pod # NoPod
    IN  /\ At(u, w, "idle") /\ worker[u][w].token
        /\ IF ~s.known
           THEN worker' = [worker EXCEPT ![u] = ws] /\ UNCHANGED status
           ELSE IF o = NoUpdate
           THEN /\ status' = [status EXCEPT ![u].working = FALSE]
                /\ worker' = [worker EXCEPT ![u] = ws]
           ELSE /\ status' = [status EXCEPT ![u] =
                     [s EXCEPT !.pending = NoUpdate, !.active = Merged(s, o), !.cancel = w,
                               !.started = @ \/ (o.pod # NoPod)]]
                /\ LET drained == IF chan[u] = 0 THEN ws ELSE [ws EXCEPT ![chan[u]].token = FALSE]
                   IN  worker' = [worker EXCEPT ![u] =
                         IF startable
                         THEN [drained EXCEPT ![w].pc = "ready", ![w].cancelled = FALSE,
                                 ![w].work = [type |-> WorkType(s), runtime |-> o.runtime,
                                              pod |-> o.pod]]
                         ELSE [drained EXCEPT ![w] = NoWorker]]
        /\ UNCHANGED <<config, chan, queue, reported, running, sourcesReady, hk, stopped, events>>

WorkerEnds(u, w) ==
    /\ At(u, w, "idle") /\ ~worker[u][w].token /\ worker[u][w].closed
    /\ Ends(u, w)
    /\ UNCHANGED <<config, status, chan, queue, reported, running, sourcesReady, hk, stopped,
                   events>>

\* The pod cache answers (a runtime pod needs no answer), and for a
\* terminating pod acknowledgeTerminating.
Begin(u, w) ==
    /\ At(u, w, "ready") /\ Moves(u, w, "syncing")
    /\ IF Work(u, w).type = "TerminatingPod" /\ status[u].known /\ status[u].terminating
       THEN status' = [status EXCEPT ![u].startedTerminating = TRUE]
       ELSE UNCHANGED status
    /\ UNCHANGED <<config, chan, queue, reported, running, sourcesReady, hk, stopped, events>>

\* The cache answers with an error or the context is cancelled while waiting;
\* or a sync function fails.
Fails(u, w) ==
    /\ worker[u][w].pc \in InFlight
    /\ ~(At(u, w, "ready") /\ Work(u, w).runtime)
    /\ Moves(u, w, "completeWork")
    /\ UNCHANGED <<config, status, chan, queue, reported, running, sourcesReady, hk, stopped,
                   events>>

\* syncPod starts the containers, even when cancelled meanwhile.
StartContainers(u, w) ==
    /\ At(u, w, "syncing") /\ Work(u, w).type = "SyncPod"
    /\ running' = running \cup {u}
    /\ Moves(u, w, "started")
    /\ UNCHANGED <<config, status, chan, queue, reported, sourcesReady, hk, stopped, events>>

\* syncPod asks for another round to restart all containers.
RequestSync(u, w) ==
    /\ At(u, w, "started")
    /\ UpdatePod(u, Options("update", Work(u, w).pod))
    /\ UNCHANGED <<config, queue, reported, running, sourcesReady, hk, stopped, events>>

\* syncPod finds the pod terminal: its containers are done for good, or its
\* deadline has passed while they run.
SyncPodTerminal(u, w) ==
    /\ At(u, w, "syncing") /\ Work(u, w).type = "SyncPod"
    /\ reported' = reported \cup {u}
    /\ Moves(u, w, "complete")
    /\ UNCHANGED <<config, status, chan, queue, running, sourcesReady, hk, stopped, events>>

SyncPodDone(u, w) ==
    /\ worker[u][w].pc \in {"syncing", "started"} /\ Work(u, w).type = "SyncPod"
    /\ Moves(u, w, "completeWork")
    /\ UNCHANGED <<config, status, chan, queue, reported, running, sourcesReady, hk, stopped,
                   events>>

\* syncTerminatingPod and syncTerminatingRuntimePod succeed only if no
\* container is left.
Killed(u, w) ==
    /\ At(u, w, "syncing") /\ Work(u, w).type = "TerminatingPod"
    /\ running' = running \ {u}
    /\ reported' = IF Work(u, w).runtime THEN reported ELSE reported \cup {u}
    /\ Moves(u, w, "complete")
    /\ UNCHANGED <<config, status, chan, queue, sourcesReady, hk, stopped, events>>

SyncTerminated(u, w) ==
    /\ At(u, w, "syncing") /\ Work(u, w).type = "TerminatedPod"
    /\ reported' = reported \cup {u}
    /\ Moves(u, w, "complete")
    /\ UNCHANGED <<config, status, chan, queue, running, sourcesReady, hk, stopped, events>>

\* cleanupPodUpdates closes the channel the UID has now; a worker that
\* returns is gone.
Returns(u, w) ==
    /\ chan' = [chan EXCEPT ![u] = 0]
    /\ worker' = [worker EXCEPT ![u] = [Closed(@, chan[u]) EXCEPT ![w] = NoWorker]]

\* The UID has a new record: requeueLastPodUpdate sends to its channel.
Goes(u, w, s, resent) ==
    /\ status' = [status EXCEPT ![u] = s]
    /\ worker' = [worker EXCEPT ![u] =
         [IF resent THEN Token(@, chan[u]) ELSE @ EXCEPT ![w].pc = "completeWork"]]
    /\ UNCHANGED chan

CompleteSync(u, w) ==
    /\ At(u, w, "complete") /\ Work(u, w).type = "SyncPod"
    /\ LET s == IF status[u].known
                THEN Requeued([status[u] EXCEPT !.terminating = TRUE, !.startedTerminating = TRUE])
                ELSE Unknown
       IN  Goes(u, w, s, status[u].known /\ Requeues(status[u]))
    /\ UNCHANGED <<config, queue, reported, running, sourcesReady, hk, stopped, events>>

CompleteTerminating(u, w) ==
    /\ At(u, w, "complete") /\ Work(u, w).type = "TerminatingPod" /\ ~Work(u, w).runtime
    /\ LET s == IF status[u].known THEN Requeued([status[u] EXCEPT !.terminated = TRUE])
                ELSE Unknown
       IN  Goes(u, w, s, status[u].known /\ Requeues(status[u]))
    /\ UNCHANGED <<config, queue, reported, running, sourcesReady, hk, stopped, events>>

CompleteTerminatingRuntimePod(u, w) ==
    /\ At(u, w, "complete") /\ Work(u, w).type = "TerminatingPod" /\ Work(u, w).runtime
    /\ Returns(u, w)
    /\ status' = [status EXCEPT ![u] = Unknown]
    /\ UNCHANGED <<config, queue, reported, running, sourcesReady, hk, stopped, events>>

CompleteTerminated(u, w) ==
    /\ At(u, w, "complete") /\ Work(u, w).type = "TerminatedPod"
    /\ Returns(u, w)
    /\ status' = IF status[u].known
                 THEN [status EXCEPT ![u].finished = TRUE, ![u].working = FALSE] ELSE status
    /\ UNCHANGED <<config, queue, reported, running, sourcesReady, hk, stopped, events>>

\* Mutant: completeWork does not look for an update that came meanwhile.
CompleteWorkAtOnce(u, w) ==
    /\ At(u, w, "completeWork")
    /\ queue' = queue \cup {u}
    /\ status' = IF status[u].known THEN [status EXCEPT ![u].working = FALSE] ELSE status
    /\ worker' = [worker EXCEPT ![u][w] = [@ EXCEPT !.pc = "idle", !.cancelled = FALSE,
                                                    !.work = NoWork]]
    /\ UNCHANGED <<config, chan, reported, running, sourcesReady, hk, stopped, events>>

\* completeWork: back to the loop, with a token if an update came meanwhile.
CompleteWork(u, w) ==
    /\ At(u, w, "completeWork")
    /\ queue' = queue \cup {u}
    /\ LET s == status[u]
           again == s.known /\ s.pending # NoUpdate
       IN  /\ status' = IF s.known /\ ~again THEN [status EXCEPT ![u].working = FALSE] ELSE status
           /\ worker' = [worker EXCEPT ![u] =
                [IF again THEN Token(@, chan[u]) ELSE @ EXCEPT
                   ![w].pc = "idle", ![w].cancelled = FALSE, ![w].work = NoWork]]
    /\ UNCHANGED <<config, chan, reported, running, sourcesReady, hk, stopped, events>>

----------------------------------------------------------------------------
(* Containers stop by themselves; and close().                             *)

ContainersExit(u) ==
    /\ u \in running /\ running' = running \ {u}
    /\ UNCHANGED <<config, status, chan, worker, queue, reported, sourcesReady, hk, stopped,
                   events>>

Close ==
    /\ ~stopped /\ stopped' = TRUE /\ hk' = NoCleanup
    /\ chan' = [u \in UIDs |-> 0]
    /\ worker' = [u \in UIDs |->
                    LET ws == Closed(worker[u], chan[u])
                    IN  IF status[u].known THEN Cancel(ws, status[u].cancel) ELSE ws]
    /\ UNCHANGED <<config, status, queue, reported, running, sourcesReady, events>>

\* close() has waited for every worker.
Closes ==
    /\ stopped /\ \A u \in UIDs, w \in Slots : At(u, w, "none")
    /\ \E u \in UIDs : status[u].known
    /\ status' = [u \in UIDs |-> Unknown]
    /\ UNCHANGED <<config, chan, worker, queue, reported, running, sourcesReady, hk, stopped,
                   events>>

WorkerStep(u, w) ==
    \/ StartPodSync(u, w) \/ WorkerEnds(u, w) \/ Begin(u, w) \/ Fails(u, w)
    \/ StartContainers(u, w) \/ RequestSync(u, w) \/ SyncPodTerminal(u, w) \/ SyncPodDone(u, w)
    \/ Killed(u, w) \/ SyncTerminated(u, w)
    \/ CompleteSync(u, w) \/ CompleteTerminating(u, w) \/ CompleteTerminatingRuntimePod(u, w)
    \/ CompleteTerminated(u, w) \/ CompleteWork(u, w)

Next ==
    \/ \E u \in UIDs : \/ HandlePodAdditions(u) \/ HandlePodUpdates(u) \/ HandlePodReconcile(u)
                       \/ HandlePodRemoves(u) \/ HandlePodSyncs(u) \/ SyncTick(u)
                       \/ DeliverCleanup(u) \/ ContainersExit(u)
                       \/ \E w \in Slots : WorkerStep(u, w)
    \/ NoPods \/ SyncKnownPods \/ ListRuntimePods \/ ListFails \/ CleanupDone
    \/ Close \/ Closes

Spec == Init /\ [][Next]_vars

(* The sync loop and close() go on, and so does a worker; the sync         *)
(* functions return when they are cancelled, and do not fail forever.  A   *)
(* sync that is not cancelled may hang: it pulls images and runs hooks.    *)
LoopMoves == NoPods \/ CleanupDone \/ Closes \/ \E u \in UIDs : DeliverCleanup(u)
LoopGoesOn ==
    /\ WF_vars(LoopMoves) /\ SF_vars(SyncKnownPods) /\ SF_vars(ListRuntimePods)
    /\ \A u \in UIDs : SF_vars(SyncTick(u))

GoesOn(u, w) == \/ StartPodSync(u, w) \/ WorkerEnds(u, w)
                \/ CompleteSync(u, w) \/ CompleteTerminating(u, w)
                \/ CompleteTerminatingRuntimePod(u, w) \/ CompleteTerminated(u, w)
                \/ CompleteWork(u, w)
Interrupted(u, w) == (worker[u][w].cancelled \/ stopped) /\ (Fails(u, w) \/ SyncPodDone(u, w))

WorkersGoOn ==
    \A u \in UIDs :
        /\ WF_vars(\E w \in Slots : GoesOn(u, w))
        /\ WF_vars(\E w \in Slots : Interrupted(u, w))
        /\ SF_vars(\E w \in Slots : Begin(u, w))
        /\ SF_vars(\E w \in Slots : Killed(u, w) \/ SyncTerminated(u, w))

Fairness == LoopGoesOn /\ WorkersGoOn

----------------------------------------------------------------------------
(* Properties.                                                             *)

\* The state is what its fields say.
TypeOK ==
    /\ config \in [UIDs -> Pods \cup {Absent}]
    /\ \A u \in UIDs :
         LET s == status[u]
         IN  s.known => /\ DOMAIN s = DOMAIN FreshStatus
                        /\ {s.pending, s.active} \subseteq Updates \cup {NoUpdate}
                        /\ s.grace \in {0, 1, SpecGrace} \cup DeletionGraces /\ s.cancel \in Slots \cup {0}
    /\ chan \in [UIDs -> Slots \cup {0}]
    /\ \A u \in UIDs, w \in Slots :
         worker[u][w].pc \in InFlight \cup {"none", "idle", "complete", "completeWork"}
    /\ queue \subseteq UIDs /\ reported \subseteq UIDs /\ running \subseteq UIDs
    /\ sourcesReady \in BOOLEAN /\ stopped \in BOOLEAN /\ events \in 0 .. MaxEvents

Busy(u, w) == worker[u][w].pc \in InFlight \cup {"complete", "completeWork"}

\* No pod is synced by two workers, and a worker that listens is the one its
\* UID's channel belongs to.
OneWorker ==
    \A u \in UIDs :
        /\ \A v, w \in Slots : Busy(u, v) /\ Busy(u, w) => v = w
        /\ \A w \in Slots : At(u, w, "idle") /\ ~worker[u][w].closed => chan[u] = w

\* A pod that is terminated has nothing running, and whatever runs is known
\* and not terminated, or a leftover nobody has asked about yet.
RunningIsTracked ==
    \A u \in running : \/ status[u].known /\ ~status[u].terminated
                       \/ u \in Leftover /\ ~status[u].known
                       \/ stopped

\* No update of a pod that is not finished is forgotten: the channel holds a
\* token for it, or the worker is busy and will look; and "working" says which
\* pods have one.
NoUpdateForgotten ==
    \A u \in UIDs : status[u].known /\ ~status[u].finished /\ ~stopped =>
        LET s == status[u]
            busy == \E w \in Slots : Busy(u, w)
        IN  /\ s.pending # NoUpdate =>
                 chan[u] # 0 /\ (worker[u][chan[u]].token \/ Busy(u, chan[u]))
            /\ s.working <=> s.pending # NoUpdate \/ busy

\* A sync that starts containers is told to stop once its pod must terminate.
TerminationInterrupts ==
    \A u \in UIDs, w \in Slots :
        worker[u][w].pc \in InFlight /\ Work(u, w).type = "SyncPod" /\ status[u].known
            /\ status[u].terminating => worker[u][w].cancelled

\* All of these, of a record that is what its fields say.
WorkersAreSound ==
    TypeOK /\ OneWorker /\ RunningIsTracked /\ NoUpdateForgotten /\ TerminationInterrupts

\* A status record only moves on: from syncing to terminating to terminated to
\* finished, and once it is terminating its grace period does not grow.
Onward(s, t) ==
    /\ s.terminating => t.terminating
    /\ s.terminated => t.terminated /\ s.startedTerminating
    /\ s.finished => t.finished /\ t.terminated
    /\ s.started => t.started
    /\ s.terminating /\ s.grace # 0 => t.grace # 0 /\ t.grace <= s.grace
\* A record is dropped only when nothing of the pod is left to do.
Dropped(u) == u \notin running /\ \A w \in Slots : ~(worker'[u][w].pc \in InFlight)
OnlyOnward ==
    [][\A u \in UIDs : status[u].known =>
         IF status'[u].known THEN Onward(status[u], status'[u]) ELSE stopped \/ Dropped(u)]_vars

\* A pod that was removed stops and is forgotten, and one the API wants
\* deleted is terminated, even if its sync hangs.  (Not so for a deleted pod
\* that was removed and came back while its worker was terminating it: if the
\* attempt before failed, the work queue has dropped its UID and nothing
\* retries.)
Wanted(u) == Present(u) /\ ~config[u].deleting
IsOver(u) == u \notin running /\ (status[u].known => Present(u) /\ status[u].terminated)
CameBack(u) == Present(u) /\ status[u].known /\ status[u].restart
UnwantedIsStopped ==
    \A u \in UIDs : ~Wanted(u) ~> IsOver(u) \/ Wanted(u) \/ CameBack(u) \/ stopped

\* close() returns: every worker ends.
CloseReturns == stopped ~> \A u \in UIDs : ~status[u].known

\* What the kubelet was asked to stop does stop: removed pods are forgotten,
\* deleted pods terminated, and close() returns.
PodsProgress == UnwantedIsStopped /\ CloseReturns
=============================================================================

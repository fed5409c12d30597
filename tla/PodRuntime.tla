----------------------------- MODULE PodRuntime -----------------------------
(***************************************************************************)
(* One pod on its node: the container runtime (cri/runtime.ts), the        *)
(* kubelet's syncPod, syncTerminatingPod and syncTerminatedPod with the    *)
(* status they report (kubelet.ts), the runtime manager's SyncPod and      *)
(* KillPod (kuberuntime-manager.ts) and its garbage collector.             *)
(*                                                                         *)
(* A sync works on a view: what was read of the runtime, one request after *)
(* another, since the last sync ended.  Containers exit, fail their probe, *)
(* are removed by the collector or change in the specification meanwhile;  *)
(* a sync whose context is cancelled stops at its next wait.  Sandboxes    *)
(* and containers are numbered in the order of their creation.             *)
(*                                                                         *)
(* Left out: init containers and the state Unknown (the runtime has none), *)
(* readiness gates, hostNetwork, environment variables, volumes, events,   *)
(* and the lengths of grace periods and back-offs.                         *)
(***************************************************************************)
EXTENDS Integers, Sequences, FiniteSets, FiniteSetsExt, SequencesExt

CONSTANTS
    ContainerNames, \* spec.containers
    Policies,       \* restart policies to choose from
    ResetCodes,     \* exit codes with a RestartAllContainers rule
    ExitCodes,      \* codes a container exits with by itself
    MaxKeep,        \* maxPerPodContainer of the collector's policy
    MaxFaults,      \* bound: exits, failures and changes
    MaxSweeps       \* bound: runs of the collector

VARIABLES
    pod,       \* restart policy, specification and what the pod workers ask for
    boxes,     \* the runtime's sandboxes
    ctrs,      \* the runtime's containers
    reported,  \* the pod status set last
    reasons,   \* reasonCache: containers whose start failed
    syncer,    \* the pod's worker
    collector, \* the container garbage collector
    faults     \* so far, against the bound

podVars == <<pod, boxes, ctrs, reported, reasons, syncer, collector, faults>>

NoView   == [boxes |-> <<>>, ctrs |-> <<>>]
AtRest   == [pc |-> "idle", ending |-> FALSE, spec |-> <<>>, view |-> NoView, boxes |-> {},
             ctrs |-> {}, kill |-> <<>>, all |-> FALSE, drop |-> {}, create |-> FALSE, box |-> 0,
             attempt |-> 0, start |-> <<>>, now |-> 0]
NoStatus == [state |-> "none", exit |-> -1, last |-> -1, restarts |-> 0, id |-> 0]
Sweeping(n) == [pc |-> "idle", remove |-> {}, used |-> {}, runs |-> n]

PodInit ==
    /\ \E p \in Policies : pod = [policy |-> p, spec |-> [n \in ContainerNames |-> 0], asked |-> "run"]
    /\ boxes = <<>> /\ ctrs = <<>>
    /\ reported = [phase |-> "Pending", c |-> [n \in ContainerNames |-> NoStatus], resetting |-> FALSE]
    /\ reasons = {} /\ syncer = AtRest /\ collector = Sweeping(0) /\ faults = 0

Live(s)  == {i \in DOMAIN s : s[i].state # "gone"}
Fault    == faults < MaxFaults /\ faults' = faults + 1
Order    == SetToSeq(ContainerNames)   \* spec.containers is a list

----------------------------------------------------------------------------
(* The runtime.                                                            *)

\* ContainerInstance.stop: a process that runs ends with some code, its own if
\* it handles the signal; what never ran becomes Exited without a code, read as 0.
Stopped(c, code) ==
    IF c.state = "Running" THEN [c EXCEPT !.state = "Exited", !.exit = code]
    ELSE IF c.state = "Created" THEN [c EXCEPT !.state = "Exited", !.exit = 0] ELSE c

\* stopPodSandbox: the containers one after another, killed, then the network.
BoxStopped(cs, b) == [i \in DOMAIN cs |-> IF cs[i].box = b THEN Stopped(cs[i], 1) ELSE cs[i]]
Unready(b)        == [boxes EXCEPT ![b].state = IF @ = "gone" THEN @ ELSE "NotReady"]

Exits(i, code) ==
    /\ ctrs[i].state = "Running" /\ Fault
    /\ ctrs' = [ctrs EXCEPT ![i].state = "Exited", ![i].exit = code]
    /\ UNCHANGED <<pod, boxes, reported, reasons, syncer, collector>>

ProbeFails(i) ==
    /\ ctrs[i].state = "Running" /\ ~ctrs[i].sick /\ Fault
    /\ ctrs' = [ctrs EXCEPT ![i].sick = TRUE]
    /\ UNCHANGED <<pod, boxes, reported, reasons, syncer, collector>>

\* A client of the runtime stops the sandbox behind the kubelet's back.
SandboxLost(b) ==
    /\ boxes[b].state = "Ready" /\ Fault
    /\ boxes' = Unready(b) /\ ctrs' = BoxStopped(ctrs, b)
    /\ UNCHANGED <<pod, reported, reasons, syncer, collector>>

SpecChanges(n) ==
    /\ Fault /\ pod.asked = "run" /\ pod' = [pod EXCEPT !.spec[n] = 1 - @]
    /\ UNCHANGED <<boxes, ctrs, reported, reasons, syncer, collector>>

\* The pod workers ask for its end: it was deleted or evicted.
AskedToEnd ==
    /\ pod.asked = "run" /\ pod' = [pod EXCEPT !.asked = "end"]
    /\ UNCHANGED <<boxes, ctrs, reported, reasons, syncer, collector, faults>>

----------------------------------------------------------------------------
(* Reading the runtime: the lists first, then a status at a time; what is  *)
(* not found any more is left out.                                         *)

ListPod ==
    /\ syncer.pc = "idle" /\ pod.asked # "done"
    /\ syncer' = [AtRest EXCEPT !.pc = "boxes", !.boxes = Live(boxes), !.ctrs = Live(ctrs)]
    /\ UNCHANGED <<pod, boxes, ctrs, reported, reasons, collector, faults>>

ReadBoxes ==
    /\ syncer.pc = "boxes"
    /\ syncer' = [syncer EXCEPT !.pc = "ctrs",
                                !.view.boxes = [b \in syncer.boxes \cap Live(boxes) |-> boxes[b]]]
    /\ UNCHANGED <<pod, boxes, ctrs, reported, reasons, collector, faults>>

ReadContainers ==
    /\ syncer.pc = "ctrs"
    /\ syncer' = [syncer EXCEPT !.pc = "viewed", !.boxes = {}, !.ctrs = {}, !.spec = pod.spec,
                                !.view.ctrs = [i \in syncer.ctrs \cap Live(ctrs) |-> ctrs[i]]]
    /\ UNCHANGED <<pod, boxes, ctrs, reported, reasons, collector, faults>>

Named(v, n)    == {i \in DOMAIN v.ctrs : v.ctrs[i].name = n}
\* findContainerStatusByName: the first of the statuses, newest first.
\* Mutant: the oldest.
OldestOf(v, n) == IF Named(v, n) = {} THEN 0 ELSE Min(Named(v, n))
Latest(v, n)   == IF Named(v, n) = {} THEN 0 ELSE Max(Named(v, n))
IsLatest(v, n, state) == Latest(v, n) # 0 /\ v.ctrs[Latest(v, n)].state = state
Running(v)     == {i \in DOMAIN v.ctrs : v.ctrs[i].state = "Running"}
Succeeded(v, n) == IsLatest(v, n, "Exited") /\ v.ctrs[Latest(v, n)].exit = 0

containerShouldRestart(policy, code) ==
    \/ code \in ResetCodes
    \/ policy = "Always"
    \/ policy = "OnFailure" /\ code # 0
\* Asked to end, the pod has a deletion timestamp.
shouldContainerBeRestarted(v, n) ==
    /\ pod.asked = "run"
    /\ ~IsLatest(v, n, "Running")
    /\ IsLatest(v, n, "Exited") => containerShouldRestart(pod.policy, v.ctrs[Latest(v, n)].exit)

----------------------------------------------------------------------------
(* The status the kubelet reports.                                         *)

shouldAllContainersRestart(v) ==
    /\ ResetCodes # {}
    /\ \/ reported.resetting
       \/ \E n \in ContainerNames :
             \/ IsLatest(v, n, "Exited") /\ v.ctrs[Latest(v, n)].exit \in ResetCodes
             \/ reported.c[n].state = "terminated" /\ reported.c[n].exit \in ResetCodes

Reset == 137  \* the code of a container that could not be found again

\* Mutant: the runtime's count, whatever was reported.
ConvertedAlone(i, v, old) ==
    [state |-> IF v.ctrs[i].state = "Running" THEN "running" ELSE "terminated", last |-> -1,
     exit |-> v.ctrs[i].exit, id |-> i, restarts |-> v.ctrs[i].restarts]
\* convertContainerStatus, of container i of the view.
Converted(i, v, old) ==
    LET c == v.ctrs[i]
        last == IF old.id # i /\ old.state = "terminated" THEN old.exit ELSE old.last
        kept == Max({c.restarts, old.restarts})
    IN CASE c.state = "Running" ->
              [state |-> "running", exit |-> -1, last |-> last, id |-> i,
               restarts |-> IF old.state = "terminated" /\ old.restarts >= c.restarts
                            THEN old.restarts + 1 ELSE kept]
         [] c.state = "Created" ->
              [state |-> "waiting", exit |-> -1, last |-> last, id |-> i, restarts |-> kept]
         [] OTHER ->
              [state |-> "terminated", exit |-> c.exit, last |-> last, id |-> i, restarts |-> kept]

\* A container of which the runtime has nothing.
Missing(v, old) ==
    LET waits(last, more) == [NoStatus EXCEPT !.state = "waiting", !.last = last,
                                              !.restarts = old.restarts + more] IN
    IF old.state = "none" THEN [old EXCEPT !.state = "waiting"]
    ELSE IF shouldAllContainersRestart(v) /\ old.state # "waiting" THEN waits(Reset, 1)
    ELSE IF old.state # "running" THEN old
    ELSE IF old.last # -1 THEN waits(old.last, 0)
    ELSE waits(Reset, IF pod.asked = "run" THEN 1 ELSE 0)

ContainerStatus(v, n) ==
    LET old   == reported.c[n]
        older == Named(v, n) \ {Latest(v, n)}
        s1 == IF Named(v, n) = {} THEN Missing(v, old) ELSE Converted(Latest(v, n), v, old)
        s2 == IF older = {} THEN s1 ELSE [s1 EXCEPT !.last = v.ctrs[Max(older)].exit]
    IN IF shouldContainerBeRestarted(v, n) /\ n \in reasons
       THEN [s2 EXCEPT !.state = "waiting", !.last = IF s2.state = "terminated" THEN s2.exit ELSE @]
       ELSE s2

\* getPhase: a waiting container that ended before counts as stopped.
Phase(cs, terminal) ==
    LET ended(n) == IF cs[n].state = "terminated" THEN cs[n].exit ELSE cs[n].last
        running  == {n \in ContainerNames : cs[n].state = "running"}
        waiting  == {n \in ContainerNames : cs[n].state = "waiting" /\ cs[n].last = -1}
        stopped  == ContainerNames \ (running \cup waiting)
        final    == {n \in stopped : ~containerShouldRestart(pod.policy, ended(n)) /\ ended(n) # Reset}
        success  == {n \in stopped : cs[n].state = "terminated" /\ cs[n].exit = 0}
    IN IF waiting # {} THEN "Pending"
       ELSE IF running # {} \/ (~terminal /\ stopped # final) THEN "Running"
       ELSE IF stopped = success THEN "Succeeded" ELSE "Failed"

Terminal == {"Succeeded", "Failed"}

\* generateAPIPodStatus: a terminal phase stays.
Status(v, terminal) ==
    LET cs    == [n \in ContainerNames |-> ContainerStatus(v, n)]
        now   == Phase(cs, terminal)
        phase == IF reported.phase \in Terminal THEN reported.phase ELSE now
    IN [phase |-> phase, c |-> cs,
        resetting |-> phase \notin Terminal /\ shouldAllContainersRestart(v)
                        /\ \E n \in ContainerNames : Named(v, n) # {}]

----------------------------------------------------------------------------
(* computePodActions.                                                      *)

podSandboxChanged(v) ==
    LET b == IF DOMAIN v.boxes = {} THEN 0 ELSE Max(DOMAIN v.boxes)
        ready == {x \in DOMAIN v.boxes : v.boxes[x].state = "Ready"}
        new == b = 0 \/ Cardinality(ready) > 1 \/ b \notin ready
    IN [changed |-> new, box |-> b,
        attempt |-> IF b = 0 THEN 0 ELSE v.boxes[b].attempt + (IF new THEN 1 ELSE 0)]

NoActions(s) == [create |-> FALSE, all |-> FALSE, box |-> s.box, attempt |-> s.attempt,
                 start |-> <<>>, kill |-> <<>>, reset |-> {}]

ActionsForReset(v, s) ==
    [NoActions(s) EXCEPT !.create = s.changed, !.all = s.changed,
                         !.reset = UNION {Named(v, n) : n \in ContainerNames}]

\* A new sandbox, unless the containers of the last one must not run again.
ActionsForSandbox(v, s) ==
    LET start == SelectSeq(Order, LAMBDA n : ~(pod.policy = "OnFailure" /\ Succeeded(v, n)))
        over  == \/ pod.policy = "Never" /\ s.attempt # 0 /\ DOMAIN v.ctrs # {}
                 \/ start = <<>>
    IN [NoActions(s) EXCEPT !.all = TRUE, !.create = ~over, !.start = IF over THEN <<>> ELSE start]

\* The containers that run and are to be killed: changed, or failing a probe.
Changed(v, n) == v.ctrs[Latest(v, n)].hash # syncer.spec[n]
Sick(v, n)    == ctrs[Latest(v, n)].sick
ToStart(v, n) == IF IsLatest(v, n, "Running")
                 THEN Changed(v, n) \/ (Sick(v, n) /\ pod.policy # "Never")
                 ELSE shouldContainerBeRestarted(v, n)
ToKill(v, n)  == IsLatest(v, n, "Running") /\ (Changed(v, n) \/ Sick(v, n))

ActionsForContainers(v, s) ==
    LET start == SelectSeq(Order, LAMBDA n : ToStart(v, n))
        kill  == SelectSeq(Order, LAMBDA n : ToKill(v, n))
        keep  == {n \in ContainerNames : IsLatest(v, n, "Running") /\ ~ToKill(v, n)}
    IN [NoActions(s) EXCEPT !.start = start, !.all = keep = {} /\ start = <<>>,
                            !.kill = [k \in DOMAIN kill |-> Latest(v, kill[k])]]

computePodActions(v, resetting) ==
    LET s == podSandboxChanged(v) IN
    IF resetting THEN ActionsForReset(v, s)
    ELSE IF s.changed THEN ActionsForSandbox(v, s) ELSE ActionsForContainers(v, s)

----------------------------------------------------------------------------
(* The syncs.                                                              *)

\* syncPod: report, then act; a pod in a terminal phase ends instead.
SyncPod ==
    LET v == syncer.view IN
    /\ syncer.pc = "viewed" /\ pod.asked = "run"
    /\ reported' = Status(v, FALSE)
    /\ IF reported'.phase \in Terminal
       THEN /\ pod' = [pod EXCEPT !.asked = "end"] /\ syncer' = AtRest
       ELSE /\ UNCHANGED pod
            /\ LET a == computePodActions(v, reported'.resetting) IN
               syncer' = [syncer EXCEPT !.pc = "kill", !.all = a.all, !.create = a.create,
                   !.box = a.box, !.attempt = a.attempt, !.start = a.start,
                   !.drop = IF a.all THEN {} ELSE a.reset,
                   !.kill = IF a.all THEN SetToSeq(Running(v)) ELSE a.kill,
                   !.boxes = IF a.all THEN DOMAIN v.boxes ELSE {}]
    /\ UNCHANGED <<boxes, ctrs, reasons, collector, faults>>

syncTerminatingPod ==
    LET v == syncer.view IN
    /\ syncer.pc = "viewed" /\ pod.asked = "end"
    /\ reported' = Status(v, FALSE)
    /\ syncer' = [syncer EXCEPT !.pc = "kill", !.ending = TRUE, !.all = TRUE,
                                !.kill = SetToSeq(Running(v)), !.boxes = DOMAIN v.boxes]
    /\ UNCHANGED <<pod, boxes, ctrs, reasons, collector, faults>>

\* The containers to kill: all at once when the whole pod is killed, else one
\* after another.  A container that is gone is a success.
KillContainer ==
    /\ syncer.pc = "kill" /\ syncer.kill # <<>>
    /\ \E k \in IF syncer.all THEN DOMAIN syncer.kill ELSE {1} :
         /\ \E code \in {0, 1} : ctrs' = [ctrs EXCEPT ![syncer.kill[k]] = Stopped(@, code)]
         /\ syncer' = [syncer EXCEPT !.kill = RemoveAt(@, k)]
    /\ UNCHANGED <<pod, boxes, reported, reasons, collector, faults>>

\* RestartAllContainers: each is killed and removed, last the one whose end was
\* the reason.
Sources == {i \in syncer.drop : syncer.view.ctrs[i].exit \in ResetCodes}
ResetContainer ==
    /\ syncer.pc = "kill" /\ syncer.kill = <<>> /\ syncer.drop # {}
    /\ \E i \in IF syncer.drop = Sources THEN Sources ELSE syncer.drop \ Sources :
         /\ ctrs' = [ctrs EXCEPT ![i].state = "gone"]
         /\ syncer' = [syncer EXCEPT !.drop = @ \ {i}]
    /\ UNCHANGED <<pod, boxes, reported, reasons, collector, faults>>

\* The sandboxes of the view are stopped once the containers have been.
StopSandbox ==
    /\ syncer.pc = "kill" /\ syncer.kill = <<>> /\ syncer.boxes # {}
    /\ LET b == Max(syncer.boxes) IN
       /\ boxes' = Unready(b) /\ ctrs' = BoxStopped(ctrs, b)
       /\ syncer' = [syncer EXCEPT !.boxes = @ \ {b}]
    /\ UNCHANGED <<pod, reported, reasons, collector, faults>>

\* Waiting for a hook or a process, a cancelled sync throws; a sync that ends the
\* pod is cancelled only for a shorter grace period.
Cancelled ==
    /\ syncer.pc = "kill" /\ ~syncer.ending /\ pod.asked = "end" /\ syncer.kill # <<>> /\ syncer' = AtRest
    /\ UNCHANGED <<pod, boxes, ctrs, reported, reasons, collector, faults>>

Killed ==
    /\ syncer.pc = "kill" /\ syncer.kill = <<>> /\ syncer.drop = {} /\ syncer.boxes = {}
    /\ syncer' = [syncer EXCEPT !.pc = IF syncer.ending THEN "check"
                                       ELSE IF syncer.create THEN "create" ELSE "start"]
    /\ UNCHANGED <<pod, boxes, ctrs, reported, reasons, collector, faults>>

\* createPodSandbox: it fails when no address is left.
CreateSandbox ==
    /\ syncer.pc = "create"
    /\ \/ /\ boxes' = Append(boxes, [state |-> "Ready", attempt |-> syncer.attempt])
          /\ syncer' = [syncer EXCEPT !.pc = "start", !.box = Len(boxes) + 1]
          /\ UNCHANGED faults
       \/ Fault /\ syncer' = AtRest /\ UNCHANGED boxes
    /\ UNCHANGED <<pod, ctrs, reported, reasons, collector>>

Starting  == Head(syncer.start)
\* reasonCache.update keeps what the sync's StartContainer ended with.
Reasons(failed) == IF failed THEN reasons \cup {Starting} ELSE reasons \ {Starting}

\* doBackOff: a container that has exited may have to wait; so do those after it.
BackedOff ==
    /\ syncer.pc = "start" /\ syncer.start # <<>>
    /\ \E i \in Named(syncer.view, Starting) : syncer.view.ctrs[i].state = "Exited"
    /\ reasons' = Reasons(TRUE) /\ syncer' = AtRest
    /\ UNCHANGED <<pod, boxes, ctrs, reported, collector, faults>>

StartFails ==
    /\ syncer.pc \in {"start", "hook"} /\ syncer.start # <<>> /\ Fault
    /\ reasons' = Reasons(TRUE) /\ syncer' = AtRest
    /\ IF syncer.pc = "hook"
       THEN ctrs' = [ctrs EXCEPT ![syncer.now] = Stopped(@, 1)] ELSE UNCHANGED ctrs
    /\ UNCHANGED <<pod, boxes, reported, collector>>

\* The image is there: a container, with a count one above that of the view.
RestartCount(v, n) == IF Latest(v, n) = 0 THEN 0 ELSE v.ctrs[Latest(v, n)].restarts + 1
CreateContainer ==
    /\ syncer.pc = "start" /\ syncer.start # <<>>
    /\ IF boxes[syncer.box].state = "gone"
       THEN reasons' = Reasons(TRUE) /\ syncer' = AtRest /\ UNCHANGED ctrs
       ELSE /\ ctrs' = Append(ctrs, [name |-> Starting, box |-> syncer.box, state |-> "Created",
                  exit |-> -1, hash |-> syncer.spec[Starting], sick |-> FALSE, ran |-> FALSE,
                  restarts |-> RestartCount(syncer.view, Starting)])
            /\ syncer' = [syncer EXCEPT !.pc = "run", !.now = Len(ctrs) + 1]
            /\ UNCHANGED reasons
    /\ UNCHANGED <<pod, boxes, reported, collector, faults>>

StartContainer ==
    /\ syncer.pc = "run"
    /\ IF ctrs[syncer.now].state = "gone"
       THEN reasons' = Reasons(TRUE) /\ syncer' = AtRest /\ UNCHANGED ctrs
       ELSE /\ ctrs' = [ctrs EXCEPT ![syncer.now] =
                          [@ EXCEPT !.state = "Running", !.exit = -1, !.ran = TRUE]]
            /\ syncer' = [syncer EXCEPT !.pc = "hook"] /\ UNCHANGED reasons
    /\ UNCHANGED <<pod, boxes, reported, collector, faults>>

\* postStart is done: the next container.
Started ==
    /\ syncer.pc = "hook"
    /\ reasons' = Reasons(FALSE) /\ syncer' = [syncer EXCEPT !.pc = "start", !.start = Tail(@)]
    /\ UNCHANGED <<pod, boxes, ctrs, reported, collector, faults>>

SyncEnds ==
    /\ syncer.pc = "start" /\ syncer.start = <<>> /\ syncer' = AtRest
    /\ UNCHANGED <<pod, boxes, ctrs, reported, reasons, collector, faults>>

\* The end of syncTerminatingPod: a fresh status, in which nothing may run.
Now == [boxes |-> [b \in Live(boxes) |-> boxes[b]], ctrs |-> [i \in Live(ctrs) |-> ctrs[i]]]
CheckStopped ==
    /\ syncer.pc = "check" /\ syncer' = AtRest
    /\ IF Running(Now) # {} THEN UNCHANGED <<pod, reported>>
       ELSE pod' = [pod EXCEPT !.asked = "ended"] /\ reported' = Status(Now, TRUE)
    /\ UNCHANGED <<boxes, ctrs, reasons, collector, faults>>

syncTerminatedPod ==
    /\ syncer.pc = "viewed" /\ pod.asked = "ended"
    /\ reported' = Status(syncer.view, TRUE)
    /\ pod' = [pod EXCEPT !.asked = "done"] /\ syncer' = AtRest
    /\ UNCHANGED <<boxes, ctrs, reasons, collector, faults>>

----------------------------------------------------------------------------
(* The collector: lists, then removals one at a time.                      *)

\* shouldPodContentBeRemoved: the pod workers have finished with it.
Removable == pod.asked = "done"

\* All but the newest of a name; the youngest are not looked at.
Evictable(i, old, keep) ==
    Cardinality({j \in old : ctrs[j].name = ctrs[i].name /\ j > i}) >= keep

ListDead ==
    /\ collector.pc = "idle" /\ collector.runs < MaxSweeps /\ Live(ctrs) \cup Live(boxes) # {}
    /\ \E young \in 1 .. (Len(ctrs) + 1) :
         LET old == {i \in Live(ctrs) : ctrs[i].state # "Running" /\ i < young} IN
         collector' = [collector EXCEPT !.pc = "ctrs",
            !.remove = {i \in old : Removable \/ Evictable(i, old, MaxKeep)}]
    /\ UNCHANGED <<pod, boxes, ctrs, reported, reasons, syncer, faults>>

RemoveContainer ==
    /\ collector.pc = "ctrs" /\ collector.remove # {}
    /\ LET i == Min(collector.remove) IN
       /\ ctrs' = [ctrs EXCEPT ![i].state = "gone"]
       /\ collector' = [collector EXCEPT !.remove = @ \ {i}]
    /\ UNCHANGED <<pod, boxes, reported, reasons, syncer, faults>>

ListContainers ==
    /\ collector.pc = "ctrs" /\ collector.remove = {}
    /\ collector' = [collector EXCEPT !.pc = "boxes", !.used = {ctrs[i].box : i \in Live(ctrs)}]
    /\ UNCHANGED <<pod, boxes, ctrs, reported, reasons, syncer, faults>>

\* A sandbox that is ready or has a container is active; so is the newest kept.
ListSandboxes ==
    /\ collector.pc = "boxes"
    /\ LET idle == {b \in Live(boxes) : boxes[b].state # "Ready" /\ b \notin collector.used} IN
       collector' = [Sweeping(collector.runs) EXCEPT !.pc = "sweep",
          !.remove = IF Removable THEN idle ELSE {b \in idle : \E x \in Live(boxes) : x > b}]
    /\ UNCHANGED <<pod, boxes, ctrs, reported, reasons, syncer, faults>>

RemoveSandbox ==
    /\ collector.pc = "sweep"
    /\ IF collector.remove = {}
       THEN collector' = Sweeping(collector.runs + 1) /\ UNCHANGED <<boxes, ctrs>>
       ELSE LET b == Min(collector.remove) IN
            /\ boxes' = [boxes EXCEPT ![b].state = "gone"]
            /\ ctrs' = [i \in DOMAIN ctrs |->
                          IF ctrs[i].box = b THEN [ctrs[i] EXCEPT !.state = "gone"] ELSE ctrs[i]]
            /\ collector' = [collector EXCEPT !.remove = @ \ {b}]
    /\ UNCHANGED <<pod, reported, reasons, syncer, faults>>

----------------------------------------------------------------------------
CollectorNext == ListDead \/ RemoveContainer \/ ListContainers \/ ListSandboxes \/ RemoveSandbox
SyncerNext ==
    \/ ListPod \/ ReadBoxes \/ ReadContainers \/ SyncPod \/ syncTerminatingPod \/ KillContainer
    \/ ResetContainer \/ StopSandbox \/ Killed \/ CreateSandbox \/ CreateContainer
    \/ StartContainer \/ Started \/ SyncEnds \/ CheckStopped \/ syncTerminatedPod
PodNext ==
    \/ \E i \in Live(ctrs) : ProbeFails(i) \/ \E code \in ExitCodes : Exits(i, code)
    \/ \E b \in Live(boxes) : SandboxLost(b)
    \/ \E n \in ContainerNames : SpecChanges(n)
    \/ AskedToEnd \/ SyncerNext \/ Cancelled \/ BackedOff \/ StartFails \/ CollectorNext

PodSpec == PodInit /\ [][PodNext]_podVars

----------------------------------------------------------------------------
(* Properties.                                                             *)

\* syncPod and the collector: of a name at most one container runs; each
\* container that is made after another of its name, and each sandbox, has the
\* higher count, though what it is counted from may have been removed.
CountsAreSound ==
    /\ \A i, j \in DOMAIN ctrs : i < j /\ ctrs[i].name = ctrs[j].name =>
          /\ ~(ctrs[i].state = "Running" /\ ctrs[j].state = "Running")
          /\ i \in Live(ctrs) /\ j \in Live(ctrs) => ctrs[i].restarts < ctrs[j].restarts
    /\ \A a, b \in DOMAIN boxes : a < b => boxes[a].attempt < boxes[b].attempt

\* computePodActions: what ended runs again only as the restart policy says, or
\* because it was changed, reset, or killed with its sandbox (Never: not even then).
Follows(i, j) ==
    /\ i < j /\ ctrs[i].name = ctrs[j].name /\ ctrs[i].ran /\ ctrs[j].ran
    /\ \A k \in (i + 1) .. (j - 1) : ~(ctrs[k].name = ctrs[i].name /\ ctrs[k].ran)
RestartPolicyIsKept ==
    \A i, j \in DOMAIN ctrs : Follows(i, j) =>
        \/ pod.policy = "Always"
        \/ ctrs[i].hash # ctrs[j].hash
        \/ \E k \in DOMAIN ctrs : ctrs[k].exit \in ResetCodes
        \/ pod.policy = "OnFailure"
             /\ (ctrs[i].sick \/ ctrs[i].exit # 0 \/ ctrs[i].box # ctrs[j].box)

\* syncTerminatingPod: it finds nothing running in the end ("CRI violation").
StoppedIsStopped ==
    syncer.pc = "check" => Running(Now) = {} /\ \A b \in Live(boxes) : boxes[b].state # "Ready"

RuntimeIsSound == CountsAreSound /\ RestartPolicyIsKept /\ StoppedIsStopped

\* generateAPIPodStatus: a terminal phase stays, and after it, or while the pod
\* is ended, nothing starts; the restart counts reported never fall, though the
\* runtime counts from the containers it still has.
EndsForGood ==
    /\ reported.phase \in Terminal => reported'.phase = reported.phase
    /\ reported.phase \in Terminal \/ syncer.ending =>
         \A i \in DOMAIN ctrs' : ctrs'[i].ran => i \in DOMAIN ctrs /\ ctrs[i].ran
    /\ \A n \in ContainerNames : reported'.c[n].restarts >= reported.c[n].restarts
PodSteps == [][EndsForGood]_podVars

\* The pod worker syncs again and again, requests are answered, and back-offs end.
PodFairness == WF_podVars(SyncerNext) /\ SF_podVars(CreateContainer)

\* With restart policy Always each container runs in the end, as it is specified;
\* a pod that is to end does.
RunsAsAsked ==
    pod.asked = "run" /\ pod.policy = "Always" =>
        \A n \in ContainerNames : \E i \in DOMAIN ctrs :
            /\ ctrs[i].name = n /\ ctrs[i].state = "Running"
            /\ ctrs[i].hash = pod.spec[n] /\ ~ctrs[i].sick
PodSettles ==
    /\ <>[]RunsAsAsked
    /\ pod.asked = "end" ~> pod.asked = "done"
=============================================================================

------------------------------- MODULE Prober -------------------------------
(***************************************************************************)
(* The probes of one container: the workers of the probe manager           *)
(* (prober-manager.ts, worker.ts, prober.ts), the results they keep and    *)
(* send (results-manager.ts), and what the kubelet makes of them: the      *)
(* container's started and ready, and its restart.                         *)
(*                                                                         *)
(* The container's instances are numbered in the order they run.  A worker *)
(* probes while everything else moves; the sync loop takes the results one *)
(* after another; the pod worker generates a status, sets it a while later *)
(* and acts on the results it then finds.                                  *)
(*                                                                         *)
(* Left out: the initial delay and the period (a worker's turn comes at    *)
(* any time), the output of a probe and its events, RestartAllContainers   *)
(* (PodRuntime has it), and two branches no state of this program takes: a *)
(* worker's own copy of the pod is never deleting, and no container is     *)
(* older than its kubelet.                                                 *)
(***************************************************************************)
EXTENDS Integers, Sequences, FiniteSets

CONSTANTS
    ProbeSets,         \* the probes a container may have
    RestartChoices,    \* whether its restart policy may be another than Never
    SuccessThreshold,
    FailureThresholds, \* the thresholds for failures it may have
    MaxContainers,     \* bound: instances of the container
    MaxUpdates         \* capacity of a results channel; 20 in the code

ASSUME ProberAssumption ==
    /\ ProbeSets \subseteq SUBSET {"startup", "readiness", "liveness"}
    /\ RestartChoices \subseteq BOOLEAN /\ MaxContainers \in Nat
    /\ SuccessThreshold \in Nat /\ FailureThresholds \subseteq Nat

VARIABLES
    probeSpec,    \* the container's probes, restart policy and threshold for failures
    container,    \* the runtime: the instance there is, and whether it runs
    probeStatus,  \* the pod's status in the status manager
    workers,      \* ProbeManagerImpl.workers
    results,      \* per type: the cache and the channel of its ResultsManager
    podWorker,    \* the pod's worker: what it does, whether there is more to do
    probed        \* history: per type, the instances that answered so

probeVars == <<probeSpec, container, probeStatus, workers, results, podWorker, probed>>

Instances  == 0 .. MaxContainers
ProbeTypes == {"startup", "readiness", "liveness"}
Outcomes   == {"success", "failure"}
Unsent     == [phase |-> "none", id |-> 0, running |-> FALSE, started |-> FALSE, ready |-> FALSE]
NoProbeWorker ==
    [pc |-> "none", id |-> 0, onHold |-> FALSE, lastResult |-> "none", resultRun |-> 0,
     stopping |-> FALSE]

ProbeInit ==
    /\ probeSpec \in [types : ProbeSets, restarts : RestartChoices, failures : FailureThresholds]
    /\ container = [id |-> 0, running |-> FALSE] /\ probeStatus = Unsent
    /\ workers = [t \in ProbeTypes |-> NoProbeWorker]
    /\ results = [t \in ProbeTypes |-> [cache |-> [i \in Instances |-> "none"], updates |-> <<>>]]
    /\ podWorker = [pc |-> "idle", stage |-> "sync", pending |-> TRUE, draft |-> Unsent]
    /\ probed = [t \in ProbeTypes |-> [o \in Outcomes |-> {}]]

Exists(t) == workers[t].pc # "none"

----------------------------------------------------------------------------
(* ResultsManager *)

SetResult(r, id, result) ==
    IF r.cache[id] = result THEN r
    ELSE [cache   |-> [r.cache EXCEPT ![id] = result],
          updates |-> Append(r.updates, [id |-> id, result |-> result])]
RemoveResult(r, id) == [r EXCEPT !.cache[id] = "none"]
Room(t) == Len(results[t].updates) + 2 <= MaxUpdates

initialValue(t) == CASE t = "startup" -> "unknown" [] t = "readiness" -> "failure"
                     [] t = "liveness" -> "success"

----------------------------------------------------------------------------
(* A worker *)

(* addPod: it stops at the first worker there is already.                   *)
First(t) == CASE t = "startup" -> {} [] t = "readiness" -> {"startup"}
              [] t = "liveness" -> {"startup", "readiness"}
addPod == [t \in ProbeTypes |->
    IF t \in probeSpec.types /\ \A s \in (First(t) \cup {t}) \cap probeSpec.types : ~Exists(s)
    THEN [NoProbeWorker EXCEPT !.pc = "delayed"] ELSE workers[t]]

StoppedWorkers(types) ==
    [t \in ProbeTypes |-> IF t \in types /\ Exists(t)
                          THEN [workers[t] EXCEPT !.stopping = TRUE] ELSE workers[t]]

(* The end of a worker: what it knows of its container goes with it.        *)
ProbingEnds(t, w, r) ==
    /\ workers' = [workers EXCEPT ![t] = NoProbeWorker]
    /\ results' = [results EXCEPT ![t] = IF w.id = 0 THEN r ELSE RemoveResult(r, w.id)]
ProbingStays(t, w, r, pc) ==
    /\ workers' = [workers EXCEPT ![t] = [w EXCEPT !.pc = pc]]
    /\ results' = [results EXCEPT ![t] = r]

StopsWaiting(t) ==
    /\ workers[t].pc \in {"delayed", "waiting"} /\ workers[t].stopping
    /\ ProbingEnds(t, workers[t], results[t])
    /\ UNCHANGED <<probeSpec, container, probeStatus, podWorker, probed>>

(* Its delay, its ticker or a manual trigger.                               *)
TurnComes(t) ==
    /\ workers[t].pc \in {"delayed", "waiting"}
    /\ ProbingStays(t, workers[t], results[t], "turn")
    /\ UNCHANGED <<probeSpec, container, probeStatus, podWorker, probed>>

(* doProbe, up to the probe: the status it read is its only view of the     *)
(* container from here on.                                                  *)
Resumed(t) ==
    IF workers[t].id = probeStatus.id THEN [w |-> workers[t], r |-> results[t]]
    ELSE [w |-> [workers[t] EXCEPT !.id = probeStatus.id, !.onHold = FALSE],
          r |-> SetResult(IF workers[t].id = 0 THEN results[t]
                          ELSE RemoveResult(results[t], workers[t].id),
                          probeStatus.id, initialValue(t))]
HasTurn(t) == probeStatus.started <=> t # "startup"

doProbe(t) ==
    /\ workers[t].pc = "turn" /\ Room(t)
    /\ \/ /\ probeStatus.phase = "Failed"
          /\ ProbingEnds(t, workers[t], results[t])
       \/ /\ probeStatus.phase # "Failed" /\ probeStatus.id = 0
          /\ ProbingStays(t, workers[t], results[t], "waiting")
       \/ /\ probeStatus.phase # "Failed" /\ probeStatus.id # 0
          /\ LET w == Resumed(t).w
                 r == Resumed(t).r
             IN  \/ w.onHold /\ ProbingStays(t, w, r, "waiting")
                 \/ /\ ~w.onHold /\ ~probeStatus.running
                    /\ LET failed == SetResult(r, w.id, "failure")
                       IN  IF probeSpec.restarts THEN ProbingStays(t, w, failed, "waiting")
                           ELSE ProbingEnds(t, w, failed)
                 \/ /\ ~w.onHold /\ probeStatus.running
                    /\ ProbingStays(t, w, r, IF HasTurn(t) THEN "probing" ELSE "waiting")
    /\ UNCHANGED <<probeSpec, container, probeStatus, podWorker, probed>>

(* The probe answers, or fails three times and says nothing.                *)
Run(w, outcome) == IF w.lastResult = outcome THEN w.resultRun + 1 ELSE 1
Threshold(outcome) == IF outcome = "success" THEN SuccessThreshold ELSE probeSpec.failures
Least(a, b) == IF a < b THEN a ELSE b
Holds(t, outcome) == t = "startup" \/ (t = "liveness" /\ outcome = "failure")

ProbeAnswers(t, outcome) ==
    /\ workers[t].pc = "probing" /\ Room(t)
    /\ outcome = "success" => container = [id |-> workers[t].id, running |-> TRUE]
    /\ LET run == Least(Run(workers[t], outcome), Threshold(outcome))
           w   == [workers[t] EXCEPT !.lastResult = outcome, !.resultRun = run]
       IN  IF run < Threshold(outcome) THEN ProbingStays(t, w, results[t], "waiting")
           ELSE ProbingStays(t,
                    IF Holds(t, outcome) THEN [w EXCEPT !.onHold = TRUE, !.resultRun = 0] ELSE w,
                    SetResult(results[t], w.id, outcome), "waiting")
    /\ probed' = [probed EXCEPT ![t][outcome] = @ \cup {workers[t].id}]
    /\ UNCHANGED <<probeSpec, container, probeStatus, podWorker>>

ProbeFails(t) ==
    /\ workers[t].pc = "probing"
    /\ ProbingStays(t, workers[t], results[t], "waiting")
    /\ UNCHANGED <<probeSpec, container, probeStatus, podWorker, probed>>

----------------------------------------------------------------------------
(* The sync loop takes an update: setContainerReadiness, setContainerStartup *)
(* and another sync of the pod.                                             *)

(* Mutant: the result is taken for any instance of the container.           *)
ToldByName(t, u) ==
    CASE t = "readiness" -> [probeStatus EXCEPT !.ready = (u.result = "success")]
      [] t = "startup"   -> [probeStatus EXCEPT !.started = (u.result = "success")]
      [] OTHER           -> probeStatus
Told(t, u) ==
    IF u.id # probeStatus.id THEN probeStatus
    ELSE CASE t = "readiness" -> [probeStatus EXCEPT !.ready = (u.result = "success")]
           [] t = "startup"   -> [probeStatus EXCEPT !.started = (u.result = "success")]
           [] OTHER           -> probeStatus
Wakes(t, u)   == t = "liveness" => u.result = "failure"

TakeUpdate(t) ==
    /\ results[t].updates # <<>>
    /\ LET u == Head(results[t].updates)
       IN  /\ probeStatus' = Told(t, u)
           /\ podWorker' = [podWorker EXCEPT !.pending = @ \/ Wakes(t, u)]
    /\ results' = [results EXCEPT ![t].updates = Tail(@)]
    /\ UNCHANGED <<probeSpec, container, workers, probed>>

----------------------------------------------------------------------------
(* The pod worker *)

(* isContainerStarted, with the status the instance starts from: a running   *)
(* instance takes over what the last status said of the container's name.    *)
isContainerStarted ==
    /\ container.running
    /\ LET result == results["startup"].cache[container.id]
       IN  \/ result = "success"
           \/ result = "none" /\ (probeStatus.started \/ ~Exists("startup"))

(* updatePodStatus                                                          *)
IsReady ==
    /\ isContainerStarted
    /\ \/ results["readiness"].cache[container.id] = "success"
       \/ ~Exists("readiness")

GenerateStatus ==
    /\ podWorker.pc = "idle" /\ podWorker.pending /\ podWorker.stage # "terminated"
    /\ podWorker' = [podWorker EXCEPT !.pc = "generated", !.pending = FALSE, !.draft =
          [phase   |-> IF ~container.running /\ container.id # 0 /\ ~probeSpec.restarts
                       THEN "Failed" ELSE "Running",
           id      |-> container.id,
           running |-> container.running,
           started |-> isContainerStarted,
           ready   |-> IsReady]]
    /\ UNCHANGED <<probeSpec, container, probeStatus, workers, results, probed>>

(* setPodStatus, then for a pod that goes on addPod and the runtime's        *)
(* syncPod; for one that ends stopLivenessAndStartup.                        *)
Unhealthy == \E t \in {"liveness", "startup"} : results[t].cache[container.id] = "failure"

SyncPod ==
    /\ podWorker.pc = "generated" /\ podWorker.stage = "sync"
    /\ probeStatus' = podWorker.draft
    /\ LET failed == podWorker.draft.phase = "Failed"
       IN  /\ podWorker' = [podWorker EXCEPT !.pc = IF failed THEN "idle" ELSE "starting",
                                             !.stage = IF failed THEN "terminating" ELSE @,
                                             !.pending = @ \/ failed]
           /\ workers' = IF failed THEN workers ELSE addPod
    /\ UNCHANGED <<probeSpec, container, results, probed>>

(* computePodActions: what fails its probes is killed, and is started again  *)
(* like what has ended unless the policy is Never.                           *)
Kills  == podWorker.draft.running /\ Unhealthy
Starts == container.id = 0 \/ (probeSpec.restarts /\ (podWorker.draft.running => Unhealthy))

StartContainer ==
    /\ podWorker.pc = "starting"
    /\ Starts => container.id < MaxContainers
    /\ container' = IF Starts THEN [id |-> container.id + 1, running |-> TRUE]
                    ELSE [container EXCEPT !.running = @ /\ ~Kills]
    /\ podWorker' = [podWorker EXCEPT !.pc = "idle", !.pending = @ \/ Starts \/ Kills]
    /\ UNCHANGED <<probeSpec, probeStatus, workers, results, probed>>

SyncTerminatingPod ==
    /\ podWorker.pc = "generated" /\ podWorker.stage = "terminating"
    /\ probeStatus' = podWorker.draft
    /\ podWorker' = [podWorker EXCEPT !.pc = "killing"]
    /\ workers' = StoppedWorkers({"liveness", "startup"})
    /\ UNCHANGED <<probeSpec, container, results, probed>>

(* killPod, and removePod once it has.                                      *)
KillPod ==
    /\ podWorker.pc = "killing"
    /\ container' = [container EXCEPT !.running = FALSE]
    /\ podWorker' = [podWorker EXCEPT !.pc = "idle", !.stage = "terminated"]
    /\ workers' = StoppedWorkers(ProbeTypes)
    /\ UNCHANGED <<probeSpec, probeStatus, results, probed>>

DeleteProbedPod ==
    /\ podWorker.pc = "idle" /\ podWorker.stage = "sync"
    /\ podWorker' = [podWorker EXCEPT !.stage = "terminating", !.pending = TRUE]
    /\ UNCHANGED <<probeSpec, container, probeStatus, workers, results, probed>>

(* The container ends by itself; the relist of the runtime tells.           *)
ContainerExits ==
    /\ container.running /\ container.id < MaxContainers
    /\ container' = [container EXCEPT !.running = FALSE]
    /\ podWorker' = [podWorker EXCEPT !.pending = TRUE]
    /\ UNCHANGED <<probeSpec, probeStatus, workers, results, probed>>

(* A sync for another reason: an update of the pod, its turn after a backoff. *)
OtherSync ==
    /\ ~podWorker.pending /\ podWorker.stage = "sync"
    /\ podWorker' = [podWorker EXCEPT !.pending = TRUE]
    /\ UNCHANGED <<probeSpec, container, probeStatus, workers, results, probed>>

----------------------------------------------------------------------------

ProbeWorkerStep(t) ==
    \/ StopsWaiting(t) \/ TurnComes(t) \/ doProbe(t) \/ ProbeFails(t)
    \/ \E outcome \in Outcomes : ProbeAnswers(t, outcome)
PodWorkerStep == GenerateStatus \/ SyncPod \/ StartContainer \/ SyncTerminatingPod \/ KillPod

ProbeNext ==
    \/ \E t \in probeSpec.types : ProbeWorkerStep(t) \/ TakeUpdate(t)
    \/ PodWorkerStep \/ DeleteProbedPod \/ ContainerExits \/ OtherSync

ProbeSpec == ProbeInit /\ [][ProbeNext]_probeVars

(* Workers get their turn, the sync loop takes what is sent, the pod worker  *)
(* goes on.                                                                 *)
ProbeFairness ==
    /\ \A t \in ProbeTypes : WF_probeVars(t \in probeSpec.types /\ ProbeWorkerStep(t))
    /\ \A t \in ProbeTypes : WF_probeVars(t \in probeSpec.types /\ TakeUpdate(t))
    /\ WF_probeVars(PodWorkerStep)

----------------------------------------------------------------------------
(* Properties *)

(* A container is reported ready only if it answered a readiness probe      *)
(* itself, whatever the one before it under the name did and however late   *)
(* the results arrive.  (updatePodStatus, setContainerReadiness.)           *)
ReadyWasProbed ==
    probeStatus.ready /\ "readiness" \in probeSpec.types =>
        probeStatus.id \in probed["readiness"]["success"]

(* The results of an instance are kept as long as a worker probes it.       *)
(* (run's finally, doProbe.)                                                *)
ResultsHaveWorkers ==
    \A t \in ProbeTypes, i \in Instances : results[t].cache[i] # "none" => workers[t].id = i

ProbesAreSound == ReadyWasProbed /\ ResultsHaveWorkers

(* The sync of a pod stops or replaces a running container only if that      *)
(* container, not one before it, failed a liveness or startup probe.         *)
(* (computePodActions, ResultsManager.)                                      *)
ReplacedAfterFailing ==
    /\ container.running /\ container' # container
    /\ podWorker.pc = "starting" /\ podWorker'.pc = "idle"
    => \E t \in {"liveness", "startup"} : container.id \in probed[t]["failure"]
ReplacedForItsOwn == [][ReplacedAfterFailing]_probeVars

(* No other probe of a container is executed until its startup probe has    *)
(* succeeded: it fails, because a container restarted by the sync that      *)
(* killed it takes over the started of the one before.                      *)
StartupFirst ==
    [][\A t \in {"readiness", "liveness"} :
          /\ "startup" \in probeSpec.types
          /\ workers'[t].pc = "probing" /\ workers[t].pc # "probing"
          => workers'[t].id \in probed["startup"]["success"]]_probeVars

(* A readiness that stays as it is gets into the status.                    *)
AnswersReady ==
    /\ podWorker.stage = "sync" /\ container.running
    /\ results["readiness"].cache[container.id] = "success"
    /\ results["startup"].cache[container.id] \in {"none", "success"} /\ probeStatus.started
ReadinessArrives == <>[]AnswersReady => <>[](probeStatus.ready)
=============================================================================

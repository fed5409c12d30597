----------------------------- MODULE MCKubelet -----------------------------
(***************************************************************************)
(* The kubelet's loops, each on a small instance of its own: a behaviour   *)
(* picks one and runs it while the others rest, so one run explores them   *)
(* all.                                                                    *)
(*                                                                         *)
(*  - workers: the pod workers and the sync loop, on one pod UID that the  *)
(*    kubelet may find running when it starts                              *)
(*  - pleg: the pod lifecycle event generator, the pod cache and one pod's *)
(*    worker that waits for it                                             *)
(*  - one, reset, two: the runtime manager and the container collector, on *)
(*    a pod of one container, of one that a rule restarts, and of two      *)
(*  - status: the status manager and two lives of one pod name             *)
(*  - probes: readiness and liveness probes of a container that is         *)
(*    restarted, a liveness probe of one that is not, and a readiness probe *)
(*    that waits for a startup probe                                       *)
(*  - images, backoff: pods that pull beside each other, and one that fails *)
(*  - network: one pod's sandboxes on a network with a single address, and  *)
(*    a request                                                            *)
(***************************************************************************)
EXTENDS PodWorkers, Pleg, StatusManager, Network, Prober, TLC

VARIABLES
  part,                                                            \* what runs
  pod, boxes, ctrs, podReported, reasons, podSyncer, collector, faults, \* PodRuntime
  registry, asks, pulls, bucket, backOff, prevErr, clock, failed   \* ImagePull

P1 == INSTANCE PodRuntime WITH
        reported <- podReported, syncer <- podSyncer, ContainerNames <- {"a"},
        Policies <- {"Always", "OnFailure", "Never"}, ResetCodes <- {}, ExitCodes <- {0, 1},
        MaxKeep <- 1, MaxFaults <- 1, MaxSweeps <- 2
Pt == INSTANCE PodRuntime WITH
        reported <- podReported, syncer <- podSyncer, ContainerNames <- {"a"},
        Policies <- {"OnFailure", "Never"}, ResetCodes <- {2}, ExitCodes <- {0, 2},
        MaxKeep <- 1, MaxFaults <- 2, MaxSweeps <- 0
P2 == INSTANCE PodRuntime WITH
        reported <- podReported, syncer <- podSyncer, ContainerNames <- {"a", "b"},
        Policies <- {"OnFailure"}, ResetCodes <- {}, ExitCodes <- {0, 1},
        MaxKeep <- 1, MaxFaults <- 1, MaxSweeps <- 1

Im == INSTANCE ImagePull WITH
        PullPods <- {"p", "q"}, Images <- {"i"}, PullPolicies <- {"Always", "IfNotPresent"},
        MaxParallel <- 1, Initial <- 1, Most <- 3, Burst <- 1, Rate <- 1, MaxClock <- 1,
        MaxPulls <- 3
Ib == INSTANCE ImagePull WITH
        PullPods <- {"p"}, Images <- {"i"}, PullPolicies <- {"IfNotPresent", "Never"},
        MaxParallel <- 0, Initial <- 1, Most <- 3, Burst <- 1, Rate <- 1, MaxClock <- 7,
        MaxPulls <- 4

\* The containers that are probed.
MCProbeSpecs ==
  {[types |-> {"readiness", "liveness"}, restarts |-> TRUE,  failures |-> 1],
   [types |-> {"liveness"},              restarts |-> FALSE, failures |-> 2],
   [types |-> {"readiness", "startup"},  restarts |-> TRUE,  failures |-> 1]}

\* What a request is sent to: the pods' address, and the pod it comes from.
MCHosts ==
  {[kind |-> "ip", ip |-> 1, port |-> 0, name |-> "", alias |-> ""],
   [kind |-> "localhost", ip |-> 0, port |-> 0, name |-> "", alias |-> ""]}

podVars    == <<pod, boxes, ctrs, podReported, reasons, podSyncer, collector, faults>>
imageVars  == <<registry, asks, pulls, bucket, backOff, prevErr, clock, failed>>
kubeletVars == <<part, vars, plegVars, podVars, statusVars, probeVars, imageVars, netVars>>

\* A part that doesn't run has no state worth keeping.
Resting == "rests"
KubeletInit ==
  /\ part \in {"workers", "pleg", "one", "reset", "two", "status", "probes", "images", "backoff",
              "network"}
  /\ Init /\ (part # "workers" => running = {})
  /\ PlegInit
  /\ StatusInit
  /\ NetworkInit
  /\ ProbeInit
  /\ probeSpec \in MCProbeSpecs /\ (part # "probes" => probeSpec.types = {"liveness"})
  /\ \/ part = "one" /\ P1!PodInit
     \/ part = "reset" /\ Pt!PodInit
     \/ part = "two" /\ P2!PodInit
     \/ /\ part \notin {"one", "reset", "two"} /\ pod = Resting /\ boxes = Resting /\ ctrs = Resting
        /\ podReported = Resting /\ reasons = Resting /\ podSyncer = Resting
        /\ collector = Resting /\ faults = Resting
  /\ \/ part = "images" /\ Im!ImageInit
     \/ part = "backoff" /\ Ib!ImageInit
     \/ /\ part \notin {"images", "backoff"} /\ registry = Resting /\ asks = Resting
        /\ pulls = Resting /\ bucket = Resting /\ backOff = Resting /\ prevErr = Resting
        /\ clock = Resting /\ failed = Resting

PodNext ==
  \/ part = "one" /\ P1!PodNext
  \/ part = "reset" /\ Pt!PodNext
  \/ part = "two" /\ P2!PodNext
PullNext ==
  \/ part = "images"  /\ Im!ImageNext
  \/ part = "backoff" /\ Ib!ImageNext

KubeletNext ==
  /\ UNCHANGED part
  /\ \/ /\ part = "workers" /\ Next
        /\ UNCHANGED <<plegVars, podVars, statusVars, probeVars, imageVars, netVars>>
     \/ /\ part = "pleg" /\ PlegNext
        /\ UNCHANGED <<vars, podVars, statusVars, probeVars, imageVars, netVars>>
     \/ PodNext   /\ UNCHANGED <<vars, plegVars, statusVars, probeVars, imageVars, netVars>>
     \/ /\ part = "status" /\ StatusNext
        /\ UNCHANGED <<vars, plegVars, podVars, probeVars, imageVars, netVars>>
     \/ /\ part = "probes" /\ ProbeNext
        /\ UNCHANGED <<vars, plegVars, podVars, statusVars, imageVars, netVars>>
     \/ PullNext  /\ UNCHANGED <<vars, plegVars, podVars, statusVars, probeVars, netVars>>
     \/ /\ part = "network" /\ (PodStep \/ RequestStep)
        /\ UNCHANGED <<vars, plegVars, podVars, statusVars, probeVars, imageVars>>

KubeletSpec == KubeletInit /\ [][KubeletNext]_kubeletVars

-----------------------------------------------------------------------------
(* Properties: those of PodWorkers, Pleg, StatusManager, Network and Prober *)
(* as they stand, and these of the others.                                 *)

\* PodRuntime, ImagePull: restart counts rise, restarts follow the policy, and a
\* pod that is stopped has nothing running; pulls keep to their tokens and their
\* back-off, and a pull's result goes to the call that waits for it.
RuntimeIsSound ==
  /\ part = "one" => P1!RuntimeIsSound
  /\ part = "reset" => Pt!RuntimeIsSound
  /\ part = "two" => P2!RuntimeIsSound
  /\ part = "images" => Im!PullsAreSound
  /\ part = "backoff" => Ib!PullsAreSound

\* PodRuntime, ImagePull: each step leaves them sound; what is over stays so, and
\* reported counts never fall.  Prober: a running container is stopped or replaced
\* only if it failed a probe itself.
PodSteps ==
  [][/\ RuntimeIsSound'
     /\ part = "one" => P1!EndsForGood
     /\ part = "reset" => Pt!EndsForGood
     /\ part = "two" => P2!EndsForGood
     /\ ReplacedAfterFailing]_<<podVars, imageVars, probeVars>>
=============================================================================

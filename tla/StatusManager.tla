--------------------------- MODULE StatusManager ---------------------------
(***************************************************************************)
(* The status of a pod on its way to the API server: the status manager    *)
(* (status-manager.ts), the conditions it generates (generate.ts) and the  *)
(* patch it sends (util/pod/pod.ts), between pod workers that set statuses *)
(* and users who delete the pod and create another under its name.         *)
(*                                                                         *)
(* A section under podStatusesLock is one action; what syncPod does for an *)
(* update, one request after another, interleaves with everything.  Pods   *)
(* are numbered in the order of their creation under one name, and have    *)
(* one container, whose restart policy is Never.                           *)
(*                                                                         *)
(* Left out: static and mirror pods (no source makes one), transition      *)
(* times, observedGeneration, reasons and messages, startup (handled as    *)
(* readiness is), and the notifiers (nobody registers one).                *)
(***************************************************************************)
EXTENDS Integers, Sequences, FiniteSets

CONSTANTS
    MaxPods,         \* bound: pods created under the name
    MaxStatusChanges \* bound: probe results, exits and failed requests

ASSUME StatusAssumption == MaxPods \in Nat \ {0}

VARIABLES
    api,                \* the pod the API server has under the name
    known,              \* the pod the pod manager has: api as it was a while ago
    node,               \* per pod: its worker, its container and its probe
    podStatuses,        \* per uid: what was set last, with a version
    apiStatusVersions,  \* per uid: the version sent last, 0 for none
    podStatusChannel,   \* there is something to send
    sender,             \* the loop that sends
    changes             \* so far, against the bound

statusVars == <<api, known, node, podStatuses, apiStatusVersions, podStatusChannel, sender,
                changes>>

PodUids   == 1 .. MaxPods
Terminals == {"Succeeded", "Failed"}
Blank     == [phase |-> "Pending", ctr |-> "none", ready |-> FALSE, cond |-> FALSE]
NoApiPod  == [uid |-> 0, deleting |-> FALSE, status |-> Blank]
Unset     == [version |-> 0, status |-> Blank, finished |-> FALSE]
NoDraft   == [made |-> FALSE, status |-> Blank, stage |-> "none"]
NotStarted == [stage |-> "none", ctr |-> "waiting", probe |-> FALSE, results |-> <<>>,
               draft |-> NoDraft]
Waiting   == [pc |-> "idle", todo |-> {}, uid |-> 0, set |-> Unset, pod |-> NoApiPod,
              ran |-> FALSE]

StatusInit ==
    /\ api = NoApiPod /\ known = NoApiPod /\ node = [u \in PodUids |-> NotStarted]
    /\ podStatuses = [u \in PodUids |-> Unset] /\ apiStatusVersions = [u \in PodUids |-> 0]
    /\ podStatusChannel = FALSE /\ sender = Waiting /\ changes = 0

managerVars == <<podStatuses, apiStatusVersions, podStatusChannel>>
Change == changes < MaxStatusChanges /\ changes' = changes + 1

----------------------------------------------------------------------------
(* Users, and the pod on its node.                                         *)

Created == IF node[MaxPods].stage # "none" THEN MaxPods
           ELSE CHOOSE u \in 0 .. MaxPods : \A x \in PodUids : node[x].stage # "none" <=> x <= u
CreatePod ==
    /\ api.uid = 0 /\ Created < MaxPods
    /\ api' = [NoApiPod EXCEPT !.uid = Created + 1]
    /\ node' = [node EXCEPT ![Created + 1].stage = "new"]
    /\ UNCHANGED <<known, managerVars, sender, changes>>

DeletePod ==
    /\ api.uid # 0
    /\ \/ ~api.deleting /\ api' = [api EXCEPT !.deleting = TRUE] /\ UNCHANGED changes
       \/ Change /\ api' = NoApiPod
    /\ UNCHANGED <<known, node, managerVars, sender>>

\* The pod manager follows; the pod workers start what is new (its container runs
\* by the first status they set), and end what is deleted or gone.
Observe ==
    /\ known # api /\ known' = api
    /\ node' = [u \in PodUids |->
          IF node[u].stage = "new" /\ api.uid = u /\ ~api.deleting
          THEN [node[u] EXCEPT !.stage = "sync", !.ctr = "running"]
          ELSE IF \/ node[u].stage = "sync" /\ (api.uid # u \/ api.deleting)
                  \/ node[u].stage = "new" /\ api.uid = u
               THEN [node[u] EXCEPT !.stage = "terminating"] ELSE node[u]]
    /\ UNCHANGED <<api, managerVars, sender, changes>>

\* It exits, or syncTerminatingPod kills it, having set a status.
ContainerStops(u) ==
    /\ \/ /\ node[u].stage = "killing" /\ UNCHANGED changes
          /\ node' = [node EXCEPT ![u].ctr = "terminated", ![u].stage = "killed"]
       \/ /\ node[u].stage = "sync" /\ node[u].ctr = "running" /\ Change
          /\ node' = [node EXCEPT ![u].ctr = "terminated"]
    /\ UNCHANGED <<api, known, managerVars, sender>>

\* The readiness manager's channel carries each new result.
Probed(u) ==
    /\ node[u].stage = "sync" /\ node[u].ctr = "running" /\ Change
    /\ node' = [node EXCEPT ![u].probe = ~@, ![u].results = Append(@, ~node[u].probe)]
    /\ UNCHANGED <<api, known, managerVars, sender>>

----------------------------------------------------------------------------
(* The conditions, and the set statuses.                                   *)

\* generatePodReadyCondition, generateContainersReadyCondition: the container
\* is ready, and the phase not a terminal one.
WithConditions(s) == [s EXCEPT !.cond = s.ready /\ s.phase \notin Terminals]

OldStatus(u) == IF podStatuses[u].version # 0 THEN podStatuses[u].status
                ELSE IF known.uid = u THEN known.status ELSE Blank

\* checkContainerStateTransition, under the policy Never.
Illegal(old, new) == old.ctr = "terminated" /\ new.ctr # "terminated"

\* updateStatusInternal: a finished pod stays one; what is equal is not set again.
updateStatusInternal(u, status, force, finished) ==
    LET cached == podStatuses[u] IN
    IF Illegal(OldStatus(u), status) \/ (cached.version # 0 /\ cached.status = status /\ ~force)
    THEN UNCHANGED <<podStatuses, podStatusChannel>>
    ELSE /\ podStatuses' = [podStatuses EXCEPT ![u] =
                [version |-> @.version + 1, status |-> status, finished |-> @.finished \/ finished]]
         /\ podStatusChannel' = TRUE

\* generateAPIPodStatus: it takes the probe's last result, and waits before the
\* status is set.
Generate(u) ==
    /\ node[u].stage \in {"sync", "terminating", "killed"} /\ ~node[u].draft.made
    /\ LET old   == OldStatus(u)
           ready == node[u].ctr = "running" /\ node[u].probe
           phase == IF old.phase \in Terminals THEN old.phase
                    ELSE CASE node[u].ctr = "waiting" -> "Pending"
                           [] node[u].ctr = "running" -> "Running"
                           [] OTHER -> IF node[u].stage = "sync" THEN "Succeeded" ELSE "Failed"
       IN node' = [node EXCEPT ![u].draft = [made |-> TRUE, stage |-> node[u].stage,
             status |-> WithConditions([phase |-> phase, ctr |-> node[u].ctr, ready |-> ready,
                                        cond |-> FALSE])]]
    /\ UNCHANGED <<api, known, managerVars, sender, changes>>

\* setPodStatus, by syncPod or by syncTerminatingPod (the last: nothing runs).
SetPodStatus(u) ==
    /\ node[u].draft.made
    /\ updateStatusInternal(u, node[u].draft.status, known.uid = u /\ known.deleting, FALSE)
    /\ node' = [node EXCEPT ![u].draft = NoDraft,
                  ![u].stage = CASE node[u].draft.stage = "killed" -> "terminated"
                                 [] node[u].draft.stage = "terminating" -> "killing"
                                 [] @ = "sync" /\ node[u].draft.status.phase \in Terminals ->
                                      "terminating"
                                 [] OTHER -> @]
    /\ UNCHANGED <<api, known, apiStatusVersions, sender, changes>>

\* terminatePod, at the end of syncTerminatedPod.
TerminatePod(u) ==
    /\ node[u].stage = "terminated"
    /\ LET old == OldStatus(u) IN
       updateStatusInternal(u, [old EXCEPT !.ctr = "terminated",
                                           !.phase = IF @ \in Terminals THEN @ ELSE "Failed"],
                            TRUE, TRUE)
    /\ node' = [node EXCEPT ![u].stage = "finished"]
    /\ UNCHANGED <<api, known, apiStatusVersions, sender, changes>>

\* setContainerReadiness, for a pod that is known, has a status, and the container
\* in it; with the conditions that follow.
SetContainerReadiness(u) ==
    /\ node[u].results # <<>>
    /\ LET ready == Head(node[u].results)
           set   == podStatuses[u]
       IN IF known.uid = u /\ set.version # 0 /\ set.status.ctr # "none" /\ set.status.ready # ready
          THEN updateStatusInternal(u, WithConditions([set.status EXCEPT !.ready = ready]),
                                    FALSE, FALSE)
          ELSE UNCHANGED <<podStatuses, podStatusChannel>>
    /\ node' = [node EXCEPT ![u].results = Tail(@)]
    /\ UNCHANGED <<api, known, apiStatusVersions, sender, changes>>

RemoveOrphanedStatuses ==
    /\ podStatuses' = [u \in PodUids |-> IF known.uid = u THEN podStatuses[u] ELSE Unset]
    /\ podStatuses' # podStatuses
    /\ UNCHANGED <<api, known, node, apiStatusVersions, podStatusChannel, sender, changes>>

----------------------------------------------------------------------------
(* Sending.                                                                *)

\* Mutant: a terminal phase is enough.
DeletableEarly(pod, finished) == pod.deleting /\ pod.status.phase \in Terminals
canBeDeleted(pod, finished) == pod.deleting /\ pod.status.phase \in Terminals /\ finished
\* Mutant: a removal that failed is not tried again.
OnlyNewer(u) == apiStatusVersions[u] < podStatuses[u].version
needsUpdate(u) ==
    \/ apiStatusVersions[u] < podStatuses[u].version
    \/ known.uid = u /\ canBeDeleted(known, podStatuses[u].finished)
needsReconcile(u) == known.uid = u /\ known.status # podStatuses[u].status

\* syncBatch for what was set since.
SyncSome ==
    /\ sender.pc = "idle" /\ podStatusChannel /\ podStatusChannel' = FALSE
    /\ sender' = [Waiting EXCEPT !.pc = "next",
                    !.todo = {<<u, podStatuses[u]>> : u \in {x \in PodUids :
                                podStatuses[x].version > apiStatusVersions[x]}}]
    /\ UNCHANGED <<api, known, node, podStatuses, apiStatusVersions, changes>>

\* syncBatch for all, at a tick: versions of what is gone are dropped, and what
\* the API server has is compared.
SyncAll ==
    LET set   == {u \in PodUids : podStatuses[u].version # 0}
        again == {u \in set : ~needsUpdate(u) /\ needsReconcile(u)}
        due   == {u \in set : needsUpdate(u)} \cup again
    IN /\ sender.pc = "idle"
       /\ apiStatusVersions' = [u \in PodUids |->
                                  IF u \in set \ again THEN apiStatusVersions[u] ELSE 0]
       /\ sender' = [Waiting EXCEPT !.pc = "next", !.todo = {<<u, podStatuses[u]>> : u \in due}]
       /\ UNCHANGED <<api, known, node, podStatuses, podStatusChannel, changes>>

CouldHaveRunningContainers(u) == node[u].stage \notin {"terminated", "finished"}
Next_(todo) == IF todo = {} THEN Waiting ELSE [Waiting EXCEPT !.pc = "next", !.todo = todo]

\* syncPod reads the pod; of another uid: the status is dropped.
ReadPod(t) ==
    LET left == sender.todo \ {t} IN
    /\ sender.pc = "next" /\ t \in sender.todo
    /\ podStatuses' = IF api.uid \in {0, t[1]} THEN podStatuses
                      ELSE [podStatuses EXCEPT ![t[1]] = Unset]
    /\ sender' = IF api.uid # t[1] THEN Next_(left)
                 ELSE [pc |-> "patch", todo |-> left, uid |-> t[1], set |-> t[2], pod |-> api,
                       ran |-> CouldHaveRunningContainers(t[1])]
    /\ UNCHANGED <<api, known, node, apiStatusVersions, podStatusChannel, changes>>

NothingToDo ==
    /\ sender.pc = "next" /\ sender.todo = {} /\ sender' = Waiting
    /\ UNCHANGED <<api, known, node, managerVars, changes>>

\* mergePodStatus: no terminal phase while containers may run, and with it no Ready.
\* Mutant: what was set is sent as it is.
MergeAll(old, new, running) == new
mergePodStatus(old, new, running) ==
    LET kept == [new EXCEPT !.phase = IF old.phase \notin Terminals /\ @ \in Terminals /\ running
                                      THEN old.phase ELSE @]
    IN IF kept.phase \in Terminals THEN [kept EXCEPT !.cond = FALSE] ELSE kept

\* patchPodStatus: nothing is sent that changes nothing; the patch names the uid.
\* Whether containers may run was asked at some time since the read.
MergedStatuses == {mergePodStatus(sender.pod.status, sender.set.status, r) :
                     r \in {sender.ran, CouldHaveRunningContainers(sender.uid)}}
Patched(pod) ==
    /\ apiStatusVersions' = [apiStatusVersions EXCEPT ![sender.uid] = sender.set.version]
    /\ sender' = IF canBeDeleted(pod, sender.set.finished)
                 THEN [sender EXCEPT !.pc = "delete"] ELSE Next_(sender.todo)
    /\ UNCHANGED changes
Patch ==
    /\ sender.pc = "patch"
    /\ \E merged \in MergedStatuses :
         \/ /\ merged = sender.pod.status
            /\ Patched(sender.pod) /\ UNCHANGED api
         \/ /\ merged # sender.pod.status /\ api.uid = sender.uid
            /\ api' = [api EXCEPT !.status = merged] /\ Patched(api')
         \/ /\ merged # sender.pod.status
            /\ IF api.uid = sender.uid THEN Change ELSE UNCHANGED changes
            /\ sender' = Next_(sender.todo) /\ UNCHANGED <<api, apiStatusVersions>>
    /\ UNCHANGED <<known, node, podStatuses, podStatusChannel>>

\* deleteNamespacedPod without a grace period, by name.
DeleteFinished ==
    /\ sender.pc = "delete" /\ sender' = Next_(sender.todo)
    /\ \/ api.uid # 0 /\ api' = NoApiPod /\ UNCHANGED changes
          /\ podStatuses' = [podStatuses EXCEPT ![sender.uid] = Unset]
       \/ (IF api.uid = 0 THEN UNCHANGED changes ELSE Change) /\ UNCHANGED <<api, podStatuses>>
    /\ UNCHANGED <<known, node, apiStatusVersions, podStatusChannel>>

----------------------------------------------------------------------------
SenderStep ==
    \/ SyncSome \/ NothingToDo \/ Patch \/ DeleteFinished
    \/ \E t \in sender.todo : ReadPod(t)
StatusNext ==
    \/ CreatePod \/ DeletePod \/ Observe \/ SenderStep \/ SyncAll \/ RemoveOrphanedStatuses
    \/ \E u \in PodUids : \/ ContainerStops(u) \/ Probed(u) \/ Generate(u)
                       \/ SetPodStatus(u) \/ TerminatePod(u) \/ SetContainerReadiness(u)
StatusSpec == StatusInit /\ [][StatusNext]_statusVars

----------------------------------------------------------------------------
(* Properties.                                                             *)

\* mergePodStatus: the API server shows a terminal phase only of a pod whose
\* worker has stopped its containers, and Ready only of one that is not over.
TerminalIsTrue ==
    api.uid # 0 =>
        /\ api.status.phase \in Terminals => ~CouldHaveRunningContainers(api.uid)
        /\ api.status.cond => api.status.ready /\ api.status.phase \notin Terminals

\* syncPod: a pod that was not replaced since it was read is removed only when its
\* worker has finished and the status it ended with is there to be seen; and what
\* the API server shows as ended never runs again.
RemovedWhenOver ==
    /\ sender.pc = "delete" /\ api' # api /\ api.uid = sender.uid =>
         /\ node[api.uid].stage = "finished" /\ api.status.ctr = "terminated"
         /\ api.status.phase \in Terminals
    /\ api.uid # 0 /\ api'.uid = api.uid =>
         /\ api.status.phase \in Terminals => api'.status.phase = api.status.phase
         /\ api.status.ctr = "terminated" => api'.status.ctr = "terminated"
StatusSteps == [][RemovedWhenOver]_statusVars

\* The loops of the kubelet run on, and the pod workers sync again and again.
StatusFairness ==
    /\ WF_statusVars(Observe) /\ WF_statusVars(SenderStep) /\ SF_statusVars(SyncAll)
    /\ WF_statusVars(RemoveOrphanedStatuses)
    /\ \A u \in PodUids :
         /\ WF_statusVars(SetPodStatus(u))
         /\ WF_statusVars(ContainerStops(u) /\ node[u].stage = "killing")
         /\ SF_statusVars(Generate(u)) /\ WF_statusVars(TerminatePod(u))
         /\ WF_statusVars(SetContainerReadiness(u))

\* In the end the API server shows a pod as it is, one that is deleted is gone, and
\* nothing is kept of pods that are.
ShowsWhatIs ==
    /\ \A u \in PodUids : u # api.uid => podStatuses[u] = Unset
    /\ api.uid # 0 =>
         /\ ~api.deleting /\ api.status.ctr = node[api.uid].ctr
         /\ api.status.cond = (node[api.uid].ctr = "running" /\ node[api.uid].probe)
         /\ node[api.uid].ctr = "terminated" <=> api.status.phase \in Terminals
StatusArrives == <>[]ShowsWhatIs
=============================================================================

------------------------------ MODULE Scheduler ------------------------------
(***************************************************************************)
(* The scheduler (cluster/images/scheduler.ts): each event of a pod        *)
(* without a node starts a binding unless one is pending under the pod's   *)
(* name, and nodes are taken in turn.  Around it: users and nodes that     *)
(* create, change and delete pods, another client that binds them, and     *)
(* nodes that register.                                                    *)
(*                                                                         *)
(* Each API request is one step.  A write that has been overtaken since    *)
(* its read is a conflict, as in module Store.  Left out: other scheduler  *)
(* names, and the end of the process.                                      *)
(***************************************************************************)
EXTENDS Integers, Sequences, FiniteSets, SequencesExt

CONSTANTS
    Pods,        \* names of pods
    Nodes,       \* nodes that may register
    NoNode,      \* a model value
    BindTries,   \* attempts of retryConflicts (5)
    MaxSteps     \* bound: what others do

SchedulerAssumption == IsFiniteSet(Nodes) /\ BindTries \in Nat

VARIABLES
    nodes,       \* listNode, in whatever order
    pods,        \* the pods: the node each is bound to
    podNews,     \* events the informer has to deliver
    pending,     \* names with a binding under way
    binder,      \* the binding of each name
    nextServer,  \* nextServerIndex, modulo what any number of nodes divides
    gaveUp,      \* pods whose last binding ended without a node
    steps

schedulerVars == <<nodes, pods, podNews, pending, binder, nextServer, gaveUp, steps>>

NoPod == [there |-> FALSE, node |-> NoNode]
Done  == [pc |-> "idle", server |-> NoNode, tries |-> 0, stale |-> FALSE]

Unbound(p) == pods[p].there /\ pods[p].node = NoNode

SchedulerInit ==
    /\ nodes \in {<<>>} \cup {<<n>> : n \in Nodes}
    /\ pods = [p \in Pods |-> NoPod] /\ podNews = <<>>
    /\ pending = {} /\ binder = [p \in Pods |-> Done]
    /\ nextServer = 0 /\ gaveUp = {} /\ steps = 0

\* A write by others: an event, which the informer passes on in order.
Writes(p, new) ==
    /\ pods' = [pods EXCEPT ![p] = new]
    /\ podNews' = IF new.there THEN Append(podNews, [pod |-> p, bound |-> new.node # NoNode])
                               ELSE podNews

Stepped == steps < MaxSteps /\ steps' = steps + 1

OthersWrite(p, new) ==
    /\ Writes(p, new)
    /\ binder' = [binder EXCEPT ![p].stale = TRUE]
    /\ gaveUp' = gaveUp \ {p}
    /\ Stepped /\ UNCHANGED <<nodes, pending, nextServer>>

CreatePod(p) == ~pods[p].there /\ OthersWrite(p, [there |-> TRUE, node |-> NoNode])
UpdatePod(p) == pods[p].there /\ OthersWrite(p, pods[p])
DeletePod(p) == pods[p].there /\ OthersWrite(p, NoPod)
BindElsewhere(p) ==
    /\ Unbound(p)
    /\ \E n \in Nodes : OthersWrite(p, [pods[p] EXCEPT !.node = n])

RegisterNode ==
    /\ \E n \in Nodes \ ToSet(nodes) : nodes' = Append(nodes, n)
    /\ Stepped
    /\ UNCHANGED <<pods, podNews, pending, binder, nextServer, gaveUp>>

----------------------------------------------------------------------------
schedulePod ==
    /\ podNews # <<>>
    /\ LET e == Head(podNews) IN
       IF e.bound \/ e.pod \in pending THEN UNCHANGED <<pending, binder>>
       ELSE /\ pending' = pending \cup {e.pod}
            /\ binder' = [binder EXCEPT ![e.pod] = [Done EXCEPT !.pc = "server"]]
    /\ podNews' = Tail(podNews)
    /\ UNCHANGED <<nodes, pods, nextServer, gaveUp, steps>>

At(p, pc) == binder[p].pc = pc
MovesOn(p, pc) == binder' = [binder EXCEPT ![p].pc = pc]
BinderOnly == UNCHANGED <<nodes, pods, podNews, pending, nextServer, gaveUp, steps>>

\* Mutant: a binding that failed stays pending.
EndsKeepingFailed(p) ==
    /\ binder' = [binder EXCEPT ![p] = Done]
    /\ pending' = IF Unbound(p) THEN pending ELSE pending \ {p}
    /\ gaveUp' = IF Unbound(p) THEN gaveUp \cup {p} ELSE gaveUp

\* Whether it failed or not, the name is pending no more, and nobody tries again
\* before the next event.
Ends(p) ==
    /\ binder' = [binder EXCEPT ![p] = Done]
    /\ pending' = pending \ {p}
    /\ gaveUp' = IF Unbound(p) THEN gaveUp \cup {p} ELSE gaveUp

EndsOnly == UNCHANGED <<nodes, pods, podNews, nextServer, steps>>

Period == Cardinality(Nodes) * (Cardinality(Nodes) + 1)

NextServer(p) ==
    /\ At(p, "server") /\ nodes # <<>>
    /\ binder' = [binder EXCEPT ![p] =
                    [Done EXCEPT !.pc = "read", !.server = nodes[(nextServer % Len(nodes)) + 1],
                                 !.tries = BindTries]]
    /\ nextServer' = (nextServer + 1) % Period
    /\ UNCHANGED <<nodes, pods, podNews, pending, gaveUp, steps>>

NoServer(p) == At(p, "server") /\ nodes = <<>> /\ Ends(p) /\ EndsOnly

\* bindPod reads the pod, and bind reads it again.
ReadPod(p) == At(p, "read") /\ Unbound(p) /\ MovesOn(p, "bind") /\ BinderOnly
ReadNothingToDo(p) == At(p, "read") /\ ~Unbound(p) /\ Ends(p) /\ EndsOnly

MayBind(p) == Unbound(p)

Bind(p) ==
    /\ At(p, "bind") /\ MayBind(p)
    /\ binder' = [binder EXCEPT ![p].pc = "update", ![p].stale = FALSE]
    /\ BinderOnly

BindInvalid(p) == At(p, "bind") /\ ~MayBind(p) /\ Ends(p) /\ EndsOnly

Update(p) ==
    /\ At(p, "update") /\ ~binder[p].stale
    /\ Writes(p, [pods[p] EXCEPT !.node = binder[p].server])
    /\ MovesOn(p, "reread")
    /\ UNCHANGED <<nodes, pending, nextServer, gaveUp, steps>>

\* A conflict is tried again from bindPod's read.
UpdateConflicts(p) ==
    /\ At(p, "update") /\ binder[p].stale /\ pods[p].there /\ binder[p].tries > 1
    /\ binder' = [binder EXCEPT ![p].pc = "read", ![p].tries = @ - 1]
    /\ BinderOnly

UpdateFails(p) ==
    /\ At(p, "update") /\ binder[p].stale /\ (~pods[p].there \/ binder[p].tries = 1)
    /\ Ends(p) /\ EndsOnly

\* The pod is read for the event that says it was scheduled.
RereadBound(p) ==
    /\ At(p, "reread")
    /\ IF pods[p].there THEN MovesOn(p, "record") /\ UNCHANGED <<pending, gaveUp>>
                        ELSE Ends(p)
    /\ EndsOnly

Recorded(p) == At(p, "record") /\ Ends(p) /\ EndsOnly

----------------------------------------------------------------------------
Binds(p) ==
    \/ NextServer(p) \/ NoServer(p) \/ ReadPod(p) \/ ReadNothingToDo(p) \/ Bind(p) \/ BindInvalid(p)
    \/ Update(p) \/ UpdateConflicts(p) \/ UpdateFails(p) \/ RereadBound(p) \/ Recorded(p)

SchedulerNext ==
    \/ schedulePod \/ RegisterNode
    \/ \E p \in Pods : \/ Binds(p)
                       \/ CreatePod(p) \/ UpdatePod(p) \/ DeletePod(p) \/ BindElsewhere(p)

SchedulerFairness ==
    WF_schedulerVars(schedulePod) /\ \A p \in Pods : WF_schedulerVars(Binds(p))

SchedulerSpec == SchedulerInit /\ [][SchedulerNext]_schedulerVars /\ SchedulerFairness

----------------------------------------------------------------------------
\* A pod that has a node keeps it: neither an overtaken binding nor one for an
\* earlier pod of the name moves it (PodStore.bind, bindPod).
StaysBound ==
    \A p \in Pods :
        pods[p].there /\ pods'[p].there /\ pods[p].node # NoNode =>
            pods'[p].node = pods[p].node
BoundOnce == [][StaysBound]_schedulerVars

\* A pod stays without a node only when its own binding gave up and nothing has
\* happened to it since (schedulePod, bindPod).
HasNode(p) == ~Unbound(p) \/ p \in gaveUp
PodsGetNodes == \A p \in Pods : []<>HasNode(p)
=============================================================================

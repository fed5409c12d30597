--------------------------- MODULE ClusterProofs ---------------------------
(***************************************************************************)
(* Theorems about the controllers that act on what they read some requests *)
(* ago: the scheduler, which never moves a pod that has a node, the        *)
(* namespace controller, which lets go of a namespace only when nothing is *)
(* left in it but what was created behind its back, and the garbage        *)
(* collector, which deletes nothing that had an owner when it was read.    *)
(* For any pods, nodes, namespaces, kinds and objects, and any number of   *)
(* tries and of others' writes.                                            *)
(***************************************************************************)
EXTENDS NamespaceController, Scheduler, GarbageCollector, FiniteSetTheorems, TLAPS

----
(* The scheduler.  A binding whose write will be accepted is of a pod that *)
(* has no node: whoever gave it one since the binding looked has overtaken *)
(* it.                                                                     *)

Places   == {"idle", "server", "read", "bind", "update", "reread", "record"}
Bindings == [pc : Places, server : Nodes \cup {NoNode}, tries : Int, stale : BOOLEAN]
PodKinds == [there : BOOLEAN, node : Nodes \cup {NoNode}]
PodEvents == [pod : Pods, bound : BOOLEAN]

SchedulerTyped ==
    /\ nodes \in Seq(Nodes) /\ nextServer \in Nat
    /\ binder \in [Pods -> Bindings] /\ pods \in [Pods -> PodKinds]
    /\ podNews \in Seq(PodEvents)

UnboundUntilUpdated ==
    \A p \in Pods : binder[p].pc = "update" /\ ~binder[p].stale => Unbound(p)

SchedulerInv == SchedulerTyped /\ UnboundUntilUpdated

LEMMA SchedulerStarts == SchedulerInit => SchedulerInv
<1> SUFFICES ASSUME SchedulerInit PROVE SchedulerInv
  OBVIOUS
<1>1. Done \in Bindings /\ Done.pc = "idle" /\ NoPod \in PodKinds
  BY DEF Done, NoPod, Bindings, PodKinds, Places
<1>2. nodes \in Seq(Nodes) /\ nextServer \in Nat /\ podNews \in Seq(PodEvents)
  <2>1. <<>> \in Seq(Nodes) /\ \A n \in Nodes : <<n>> \in Seq(Nodes)
    OBVIOUS
  <2>2. nodes = <<>> \/ \E n \in Nodes : nodes = <<n>>
    BY DEF SchedulerInit
  <2>3. nodes \in Seq(Nodes)
    BY <2>1, <2>2, Zenon
  <2>4. nextServer \in Nat /\ podNews \in Seq(PodEvents)
    BY DEF SchedulerInit
  <2> QED BY <2>3, <2>4
<1>3. binder \in [Pods -> Bindings] /\ pods \in [Pods -> PodKinds]
  BY <1>1 DEF SchedulerInit
<1>4. UnboundUntilUpdated
  BY <1>1 DEF SchedulerInit, UnboundUntilUpdated
<1> QED BY <1>2, <1>3, <1>4 DEF SchedulerInv, SchedulerTyped

\* A write of a pod is an event, if the pod is there.
LEMMA WritesTyped ==
    ASSUME SchedulerTyped, NEW p \in Pods, NEW new \in PodKinds, Writes(p, new)
    PROVE  /\ pods' \in [Pods -> PodKinds] /\ podNews' \in Seq(PodEvents)
           /\ pods'[p] = new /\ \A q \in Pods : q # p => pods'[q] = pods[q]
<1>1. pods' = [pods EXCEPT ![p] = new]
  BY DEF Writes
<1>2. [pod |-> p, bound |-> new.node # NoNode] \in PodEvents
  BY DEF PodEvents
<1>3. podNews' \in Seq(PodEvents)
  BY <1>2 DEF Writes, SchedulerTyped
<1> QED BY <1>1, <1>3 DEF SchedulerTyped

\* Others overtake the binding of the pod they write.
LEMMA OthersKeep ==
    ASSUME SchedulerInv, NEW p \in Pods, NEW new \in PodKinds, OthersWrite(p, new)
    PROVE  SchedulerInv'
<1> USE DEF SchedulerInv
<1>1. /\ Writes(p, new) /\ binder' = [binder EXCEPT ![p].stale = TRUE]
      /\ UNCHANGED <<nodes, nextServer>>
  BY DEF OthersWrite
<1>2. /\ pods' \in [Pods -> PodKinds] /\ podNews' \in Seq(PodEvents)
      /\ pods'[p] = new /\ \A q \in Pods : q # p => pods'[q] = pods[q]
  BY <1>1, WritesTyped
<1>3. binder[p] \in Bindings
  BY DEF SchedulerTyped
<1>4. [binder[p] EXCEPT !.stale = TRUE] \in Bindings
  BY <1>3 DEF Bindings
<1>5. binder' \in [Pods -> Bindings] /\ binder'[p].stale = TRUE
  BY <1>1, <1>3, <1>4 DEF SchedulerTyped, Bindings
<1>6. \A q \in Pods : q # p => binder'[q] = binder[q]
  BY <1>1 DEF SchedulerTyped
<1>7. SchedulerTyped'
  BY <1>1, <1>2, <1>5 DEF SchedulerTyped
<1>8. UnboundUntilUpdated'
  BY <1>2, <1>5, <1>6 DEF UnboundUntilUpdated, Unbound
<1> QED BY <1>7, <1>8

\* A binding goes on, and no pod changes.
LEMMA BinderKeeps ==
    ASSUME SchedulerInv, NEW p \in Pods, NEW new \in Bindings, binder' = [binder EXCEPT ![p] = new],
           new.pc = "update" => Unbound(p), nextServer' \in Nat,
           podNews' \in Seq(PodEvents), UNCHANGED <<nodes, pods>>
    PROVE  SchedulerInv'
<1> USE DEF SchedulerInv
<1>1. binder' \in [Pods -> Bindings] /\ binder'[p] = new /\ \A q \in Pods : q # p => binder'[q] = binder[q]
  BY DEF SchedulerTyped
<1>2. SchedulerTyped'
  BY <1>1 DEF SchedulerTyped
<1>3. UnboundUntilUpdated'
  BY <1>1 DEF UnboundUntilUpdated, Unbound
<1> QED BY <1>2, <1>3

LEMMA EndsKeep ==
    ASSUME SchedulerInv, NEW p \in Pods, Ends(p), UNCHANGED <<nodes, pods, podNews, nextServer>>
    PROVE  SchedulerInv'
<1>1. Done \in Bindings /\ Done.pc = "idle" /\ binder' = [binder EXCEPT ![p] = Done]
  BY DEF Done, Ends, Bindings, Places
<1>2. nextServer' \in Nat /\ podNews' \in Seq(PodEvents)
  BY DEF SchedulerInv, SchedulerTyped
<1> QED BY <1>1, <1>2, BinderKeeps

LEMMA EventsKeep == ASSUME SchedulerInv, schedulePod PROVE SchedulerInv'
<1> USE DEF SchedulerInv
<1> DEFINE e == Head(podNews)
           new == [Done EXCEPT !.pc = "server"]
<1>1. /\ podNews # <<>> /\ podNews' = Tail(podNews)
      /\ UNCHANGED binder \/ binder' = [binder EXCEPT ![e.pod] = new]
      /\ UNCHANGED <<nodes, pods, nextServer>>
  BY DEF schedulePod
<1>2. podNews' \in Seq(PodEvents) /\ e.pod \in Pods
  <2>1. podNews \in Seq(PodEvents) /\ podNews # <<>>
    BY <1>1 DEF SchedulerTyped
  <2>2. Tail(podNews) \in Seq(PodEvents) /\ Head(podNews) \in PodEvents
    BY <2>1
  <2> QED BY <1>1, <2>2 DEF PodEvents
<1>3. new \in Bindings /\ new.pc = "server"
  <2>1. Done \in Bindings
    BY DEF Done, Bindings, Places
  <2> QED BY <2>1 DEF Bindings, Places
<1>4. nextServer' \in Nat
  BY <1>1 DEF SchedulerTyped
<1>5. CASE UNCHANGED binder
  BY <1>1, <1>2, <1>5 DEF SchedulerTyped, UnboundUntilUpdated, Unbound
<1>6. CASE binder' = [binder EXCEPT ![e.pod] = new]
  <2> HIDE DEF e, new
  <2> QED BY <1>1, <1>2, <1>3, <1>4, <1>6, BinderKeeps
<1> QED BY <1>1, <1>5, <1>6

\* The nodes that there are are taken in turn.
LEMMA NextServerKeeps == ASSUME SchedulerAssumption, SchedulerInv, NEW p \in Pods, NextServer(p) PROVE SchedulerInv'
<1> DEFINE i == (nextServer % Len(nodes)) + 1
           new == [Done EXCEPT !.pc = "read", !.server = nodes[i], !.tries = BindTries]
<1>1. /\ nodes # <<>> /\ binder' = [binder EXCEPT ![p] = new]
      /\ nextServer' = (nextServer + 1) % Period
      /\ UNCHANGED <<nodes, pods, podNews>>
  BY DEF NextServer
<1>2. nodes \in Seq(Nodes) /\ nextServer \in Nat /\ podNews' \in Seq(PodEvents)
  BY <1>1 DEF SchedulerInv, SchedulerTyped
<1>3. Len(nodes) \in Nat /\ Len(nodes) > 0
  BY <1>1, <1>2
<1>4. i \in 1 .. Len(nodes)
  BY <1>2, <1>3
<1>5. nodes[i] \in Nodes
  BY <1>2, <1>4
<1>6. new \in Bindings /\ new.pc = "read"
  <2>1. Done \in Bindings
    BY DEF Done, Bindings, Places
  <2>2. BindTries \in Int
    BY DEF SchedulerAssumption
  <2> QED BY <1>5, <2>1, <2>2 DEF Bindings, Places
<1>7. Period \in Nat \ {0}
  <2> DEFINE c == Cardinality(Nodes)
  <2>1. c \in Nat /\ c # 0
    BY <1>5, FS_CardinalityType, FS_EmptySet DEF SchedulerAssumption
  <2> HIDE DEF c
  <2>2. c * (c + 1) \in Nat \ {0}
    BY <2>1
  <2> QED BY <2>2 DEF c, Period
<1>8. nextServer' \in Nat
  BY <1>1, <1>2, <1>7
<1> HIDE DEF new
<1> QED BY <1>1, <1>2, <1>6, <1>8, BinderKeeps

\* The steps of one binding: the pod is looked at before the write, and only then.
LEMMA BindsKeep == ASSUME SchedulerAssumption, SchedulerInv, NEW p \in Pods, Binds(p) PROVE SchedulerInv'
<1>1. binder[p] \in Bindings /\ pods[p] \in PodKinds /\ SchedulerTyped /\ UnboundUntilUpdated
  BY DEF SchedulerInv, SchedulerTyped
<1>2. nextServer \in Nat /\ podNews \in Seq(PodEvents)
  BY <1>1 DEF SchedulerTyped
<1>3. ASSUME NEW pc \in Places \ {"update"}, NEW n \in Int,
             binder' = [binder EXCEPT ![p] = [binder[p] EXCEPT !.pc = pc, !.tries = n]],
             UNCHANGED <<nodes, pods, podNews, nextServer>>
      PROVE  SchedulerInv'
  <2> DEFINE new == [binder[p] EXCEPT !.pc = pc, !.tries = n]
  <2>1. new \in Bindings /\ new.pc = pc
    BY <1>1 DEF Bindings
  <2> HIDE DEF new
  <2>2. binder' = [binder EXCEPT ![p] = new] /\ (new.pc = "update" => Unbound(p))
    BY <1>3, <2>1 DEF new
  <2> QED BY <1>2, <1>3, <2>1, <2>2, BinderKeeps
<1>4. binder[p].tries \in Int /\ binder[p].tries - 1 \in Int
  BY <1>1 DEF Bindings
<1>5. ASSUME NEW pc \in Places \ {"update"}, MovesOn(p, pc), UNCHANGED <<nodes, pods, podNews, nextServer>>
      PROVE  SchedulerInv'
  <2>1. binder' = [binder EXCEPT ![p] = [binder[p] EXCEPT !.pc = pc, !.tries = binder[p].tries]]
    BY <1>1, <1>5 DEF MovesOn, Bindings, SchedulerTyped
  <2> QED BY <1>3, <1>4, <1>5, <2>1
<1>6. CASE NextServer(p)
  BY <1>6, NextServerKeeps
<1>7. CASE NoServer(p) \/ ReadNothingToDo(p) \/ BindInvalid(p) \/ UpdateFails(p) \/ Recorded(p)
  <2>1. Ends(p) /\ UNCHANGED <<nodes, pods, podNews, nextServer>>
    BY <1>7 DEF NoServer, ReadNothingToDo, BindInvalid, UpdateFails, Recorded, EndsOnly
  <2> QED BY <2>1, EndsKeep
<1>8. CASE ReadPod(p)
  BY <1>5, <1>8 DEF ReadPod, BinderOnly, Places
<1>9. CASE RereadBound(p)
  BY <1>5, <1>9, EndsKeep DEF RereadBound, EndsOnly, Places
<1>10. CASE UpdateConflicts(p)
  <2>1. /\ binder' = [binder EXCEPT ![p] = [binder[p] EXCEPT !.pc = "read", !.tries = binder[p].tries - 1]]
        /\ UNCHANGED <<nodes, pods, podNews, nextServer>>
    BY <1>1, <1>10 DEF UpdateConflicts, BinderOnly, SchedulerTyped
  <2> QED BY <1>3, <1>4, <2>1 DEF Places
<1>11. CASE Bind(p)
  <2> DEFINE new == [binder[p] EXCEPT !.pc = "update", !.stale = FALSE]
  <2>1. new \in Bindings
    BY <1>1 DEF Bindings, Places
  <2>2. /\ binder' = [binder EXCEPT ![p] = new] /\ Unbound(p)
        /\ UNCHANGED <<nodes, pods, podNews, nextServer>>
    BY <1>1, <1>11 DEF Bind, BinderOnly, MayBind, SchedulerTyped
  <2> HIDE DEF new
  <2> QED BY <1>2, <2>1, <2>2, BinderKeeps
<1>12. CASE Update(p)
  <2> DEFINE obj == [pods[p] EXCEPT !.node = binder[p].server]
  <2>1. obj \in PodKinds
    BY <1>1 DEF PodKinds, Bindings
  <2>2. /\ Writes(p, obj) /\ binder' = [binder EXCEPT ![p].pc = "reread"]
        /\ UNCHANGED <<nodes, nextServer>>
    BY <1>12 DEF Update, MovesOn
  <2> HIDE DEF obj
  <2>3. /\ pods' \in [Pods -> PodKinds] /\ podNews' \in Seq(PodEvents)
        /\ \A q \in Pods : q # p => pods'[q] = pods[q]
    BY <1>1, <2>1, <2>2, WritesTyped
  <2>4. [binder[p] EXCEPT !.pc = "reread"] \in Bindings
    BY <1>1 DEF Bindings, Places
  <2>5. /\ binder' \in [Pods -> Bindings] /\ binder'[p].pc = "reread"
        /\ \A q \in Pods : q # p => binder'[q] = binder[q]
    BY <1>1, <2>2, <2>4 DEF SchedulerTyped, Bindings
  <2> QED
    BY <1>1, <2>2, <2>3, <2>5 DEF SchedulerInv, SchedulerTyped, UnboundUntilUpdated, Unbound
<1> QED BY <1>6, <1>7, <1>8, <1>9, <1>10, <1>11, <1>12 DEF Binds

LEMMA SchedulerKeeps ==
    SchedulerAssumption /\ SchedulerInv /\ [SchedulerNext]_schedulerVars => SchedulerInv'
<1> SUFFICES ASSUME SchedulerAssumption, SchedulerInv, [SchedulerNext]_schedulerVars PROVE SchedulerInv'
  OBVIOUS
<1>1. CASE schedulePod
  BY <1>1, EventsKeep
<1>2. CASE RegisterNode
  <2>1. nodes' \in Seq(Nodes)
    BY <1>2 DEF RegisterNode, SchedulerInv, SchedulerTyped
  <2> QED
    BY <1>2, <2>1 DEF RegisterNode, SchedulerInv, SchedulerTyped, UnboundUntilUpdated, Unbound
<1>3. ASSUME NEW p \in Pods, Binds(p) PROVE SchedulerInv'
  BY <1>3, BindsKeep
<1>4. ASSUME NEW p \in Pods, CreatePod(p) \/ UpdatePod(p) \/ DeletePod(p) \/ BindElsewhere(p)
      PROVE  SchedulerInv'
  <2>1. pods[p] \in PodKinds
    BY DEF SchedulerInv, SchedulerTyped
  <2>2. PICK new \in PodKinds : OthersWrite(p, new)
    <3>1. CASE CreatePod(p) \/ DeletePod(p) \/ UpdatePod(p)
      BY <2>1, <3>1 DEF CreatePod, DeletePod, UpdatePod, NoPod, PodKinds
    <3>2. CASE BindElsewhere(p)
      <4>1. PICK n \in Nodes : OthersWrite(p, [pods[p] EXCEPT !.node = n])
        BY <3>2 DEF BindElsewhere
      <4>2. [pods[p] EXCEPT !.node = n] \in PodKinds
        BY <2>1 DEF PodKinds
      <4> QED BY <4>1, <4>2
    <3> QED BY <1>4, <3>1, <3>2
  <2> QED BY <2>2, OthersKeep
<1>5. CASE UNCHANGED schedulerVars
  BY <1>5 DEF schedulerVars, SchedulerInv, SchedulerTyped, UnboundUntilUpdated, Unbound
<1> QED BY <1>1, <1>2, <1>3, <1>4, <1>5 DEF SchedulerNext

LEMMA SchedulerStepsStay == SchedulerInv /\ [SchedulerNext]_schedulerVars => StaysBound
<1> SUFFICES ASSUME SchedulerInv, [SchedulerNext]_schedulerVars, NEW p \in Pods,
                    pods[p].there, pods'[p].there, pods[p].node # NoNode
             PROVE  pods'[p].node = pods[p].node
  BY DEF StaysBound
<1>1. SchedulerTyped /\ UnboundUntilUpdated /\ pods[p] \in PodKinds
  BY DEF SchedulerInv, SchedulerTyped
<1>2. CASE UNCHANGED pods
  BY <1>2
<1>3. ASSUME NEW q \in Pods, NEW new, Writes(q, new), p # q PROVE pods'[p] = pods[p]
  BY <1>1, <1>3 DEF Writes, SchedulerTyped
<1>4. ASSUME NEW q \in Pods, Update(q) PROVE pods'[p].node = pods[p].node
  <2>1. q # p
    BY <1>1, <1>4 DEF Update, At, UnboundUntilUpdated, Unbound
  <2> QED BY <1>3, <1>4, <2>1 DEF Update
<1>5. ASSUME NEW q \in Pods, CreatePod(q) \/ UpdatePod(q) \/ DeletePod(q) \/ BindElsewhere(q)
      PROVE  pods'[p].node = pods[p].node
  <2>1. CASE q # p
    BY <1>3, <1>5, <2>1 DEF CreatePod, UpdatePod, DeletePod, BindElsewhere, OthersWrite
  <2>2. CASE q = p
    <3>1. UpdatePod(p) \/ DeletePod(p)
      BY <1>5, <2>2 DEF CreatePod, BindElsewhere, Unbound
    <3>2. pods' = [pods EXCEPT ![p] = pods[p]] \/ pods' = [pods EXCEPT ![p] = NoPod]
      BY <3>1 DEF UpdatePod, DeletePod, OthersWrite, Writes
    <3> QED BY <1>1, <3>2 DEF NoPod, SchedulerTyped
  <2> QED BY <2>1, <2>2
<1>6. ASSUME NEW q \in Pods, Binds(q), ~Update(q) PROVE UNCHANGED pods
  BY <1>6 DEF Binds, NextServer, NoServer, ReadPod, ReadNothingToDo, Bind, BindInvalid, UpdateConflicts,
              UpdateFails, RereadBound, Recorded, EndsOnly, BinderOnly
<1> QED
  BY <1>2, <1>4, <1>5, <1>6 DEF SchedulerNext, schedulePod, RegisterNode, schedulerVars

\* A pod that has a node keeps it: neither a binding that was overtaken since it looked
\* nor one for an earlier pod of the name moves it (PodStore.bind, bindPod).
THEOREM PodsStayBound ==
    ASSUME SchedulerAssumption PROVE SchedulerSpec => BoundOnce
<1>1. SchedulerInv /\ [SchedulerNext]_schedulerVars => SchedulerInv'
  BY SchedulerKeeps
<1>2. SchedulerSpec => []SchedulerInv
  BY <1>1, SchedulerStarts, PTL DEF SchedulerSpec
<1> QED BY <1>2, SchedulerStepsStay, PTL DEF SchedulerSpec, BoundOnce

----
(* The namespace controller.  Its worker goes through the kinds one by one,*)
(* and a create that had found its namespace may commit after the worker   *)
(* looked: what it finds empty stays empty but for those.                  *)

WorkerPlaces == {"idle", "read", "list", "delete", "check", "sleep", "reread", "replace",
                 "finalize", "mark", "remove", "blocked"}
Workers == [pc : WorkerPlaces, name : Names, kind : Kinds, found : BOOLEAN, remaining : BOOLEAN,
            tries : Int, stale : BOOLEAN]
Spaces  == [phase : {"absent", "active", "terminating"}, fins : SUBSET {"kubernetes", "user"},
            stranded : BOOLEAN]
States  == {"none", "there", "held", "going"}

NamespaceTyped ==
    /\ worker \in Workers /\ queue \in Seq(Names)
    /\ ns \in [Names -> Spaces] /\ content \in [Names -> [Kinds -> States]]

Finalizing == {"reread", "replace"}

\* The kinds the worker w has seen to.
SeenTo(w) == IF w.pc \in {"list", "delete", "check"} THEN {k \in Kinds : k < w.kind}
             ELSE IF w.pc \in Finalizing THEN Kinds ELSE {}

EmptyBehind(w, objects, l) ==
    /\ w.pc = "read" => w.kind = 1
    /\ w.pc \in Finalizing => ~w.remaining
    /\ ~w.remaining => \A k \in SeenTo(w) : objects[w.name][k] = "none" \/ <<w.name, k>> \in l

NamespaceInv == NamespaceTyped /\ EmptyBehind(worker, content, late)

LEMMA AtRestIsWorker ==
    ASSUME NamespaceAssumption
    PROVE  AtRest \in Workers /\ AtRest.pc = "idle" /\ AtRest.kind = 1
<1>1. (CHOOSE n \in Names : TRUE) \in Names
  BY DEF NamespaceAssumption
<1>2. 1 \in Kinds
  BY DEF NamespaceAssumption, Kinds
<1> QED BY <1>1, <1>2 DEF AtRest, Workers, WorkerPlaces

LEMMA NamespaceStarts == NamespaceAssumption /\ NamespaceInit => NamespaceInv
<1> SUFFICES ASSUME NamespaceAssumption, NamespaceInit PROVE NamespaceInv
  OBVIOUS
<1>1. worker \in Workers /\ worker.pc = "idle"
  BY AtRestIsWorker DEF NamespaceInit
<1>2. [NoNamespace EXCEPT !.phase = "active", !.fins = {"kubernetes"}] \in Spaces
  BY DEF NoNamespace, Spaces
<1>3. ns \in [Names -> Spaces]
  BY <1>2 DEF NamespaceInit
<1>4. content \in [Names -> [Kinds -> States]] /\ queue \in Seq(Names)
  BY DEF NamespaceInit, States
<1>5. EmptyBehind(worker, content, late)
  BY <1>1 DEF EmptyBehind, SeenTo, Finalizing
<1> QED BY <1>1, <1>3, <1>4, <1>5 DEF NamespaceInv, NamespaceTyped

\* What others write leaves the worker where it is.
LEMMA OvertakenKeeps ==
    ASSUME NamespaceInv, NEW n \in Names, worker' = Overtakes(n), ns' \in [Names -> Spaces],
           UNCHANGED <<content, late, queue>>
    PROVE  NamespaceInv'
<1>1. worker \in Workers /\ worker.stale \in BOOLEAN /\ (worker.stale \/ worker.name = n) \in BOOLEAN
  BY DEF NamespaceInv, NamespaceTyped, Workers
<1>2. /\ worker' \in Workers /\ worker'.pc = worker.pc /\ worker'.kind = worker.kind
      /\ worker'.name = worker.name /\ (worker'.remaining <=> worker.remaining)
  BY <1>1 DEF Overtakes, Workers
<1>3. EmptyBehind(worker, content, late)'
  BY <1>2 DEF NamespaceInv, EmptyBehind, SeenTo
<1> QED BY <1>2, <1>3 DEF NamespaceInv, NamespaceTyped

\* A step of the worker after which what it has seen to is no more than before.
LEMMA WorkerKeeps ==
    ASSUME NamespaceInv, NEW new \in Workers, worker' = new, EmptyBehind(new, content, late),
           ns' \in [Names -> Spaces], queue' \in Seq(Names), UNCHANGED <<content, late>>
    PROVE  NamespaceInv'
BY DEF NamespaceInv, NamespaceTyped

LEMMA UsersKeep ==
    ASSUME NamespaceInv, NEW n \in Names,
           CreateNamespace(n) \/ DeleteNamespace(n) \/ PatchNamespace(n)
    PROVE  NamespaceInv'
<1>1. ns \in [Names -> Spaces] /\ ns[n] \in Spaces
  BY DEF NamespaceInv, NamespaceTyped
<1>2. PICK new \in Spaces : ns' = [ns EXCEPT ![n] = new]
  <2>1. NoNamespace \in Spaces
    BY DEF NoNamespace, Spaces
  <2>2. CASE CreateNamespace(n)
    BY <2>1, <2>2 DEF CreateNamespace, WriteNamespace, Spaces
  <2>3. CASE DeleteNamespace(n)
    BY <1>1, <2>1, <2>3 DEF DeleteNamespace, WriteNamespace, Spaces
  <2>4. CASE PatchNamespace(n)
    <3>1. PICK fins \in {ns[n].fins, ns[n].fins \ {"user"}} :
            ns' = [ns EXCEPT ![n] = [ns[n] EXCEPT
                     !.fins = fins, !.stranded = ns[n].stranded \/ (fins = {} /\ fins # ns[n].fins)]]
      BY <1>1, <2>4 DEF PatchNamespace, WriteNamespace, Spaces
    <3>2. fins \in SUBSET {"kubernetes", "user"}
      BY <1>1 DEF Spaces
    <3>3. [ns[n] EXCEPT !.fins = fins,
                        !.stranded = ns[n].stranded \/ (fins = {} /\ fins # ns[n].fins)] \in Spaces
      BY <1>1, <3>2 DEF Spaces
    <3> QED BY <3>1, <3>3
  <2> QED BY <2>2, <2>3, <2>4
<1>3. ns' \in [Names -> Spaces]
  BY <1>1, <1>2
<1>4. worker' = Overtakes(n) /\ UNCHANGED <<content, late, queue>>
  BY DEF CreateNamespace, DeleteNamespace, PatchNamespace, nsQueueVars
<1> QED BY <1>3, <1>4, OvertakenKeeps

\* A create that commits behind the worker's back is one of the late.
LEMMA CommitKeeps ==
    ASSUME NamespaceInv, NEW n \in Names, NEW k \in Kinds, CommitCreate(n, k) PROVE NamespaceInv'
<1>1. UNCHANGED <<worker, ns, queue>>
  BY DEF CommitCreate, nsQueueVars
<1>2. CASE UNCHANGED <<content, late>>
  BY <1>1, <1>2 DEF NamespaceInv, NamespaceTyped
<1>3. CASE ~UNCHANGED <<content, late>>
  <2>1. PICK s \in States : /\ content' = [content EXCEPT ![n][k] = s]
                            /\ late' = late \cup {<<n, k>>}
    BY <1>3 DEF CommitCreate, States
  <2>2. content' \in [Names -> [Kinds -> States]]
    BY <2>1 DEF NamespaceInv, NamespaceTyped
  <2>3. worker \in Workers /\ worker.name \in Names
    BY DEF NamespaceInv, NamespaceTyped, Workers
  <2>4. ASSUME NEW j \in Kinds, content[worker.name][j] = "none" \/ <<worker.name, j>> \in late
        PROVE  content'[worker.name][j] = "none" \/ <<worker.name, j>> \in late'
    <3>1. CASE worker.name = n /\ j = k
      BY <2>1, <3>1
    <3>2. CASE ~(worker.name = n /\ j = k)
      BY <2>1, <2>3, <2>4, <3>2 DEF NamespaceInv, NamespaceTyped
    <3> QED BY <3>1, <3>2
  <2>5. SeenTo(worker) \subseteq Kinds
    BY DEF SeenTo
  <2>6. EmptyBehind(worker, content', late')
    BY <2>4, <2>5 DEF NamespaceInv, EmptyBehind, Name
  <2> QED BY <1>1, <2>2, <2>6 DEF NamespaceInv, NamespaceTyped
<1> QED BY <1>2, <1>3

\* An object that becomes empty, or one the worker has not seen to.
LEMMA ContentKeeps ==
    ASSUME NamespaceInv, NEW n \in Names, NEW k \in Kinds, NEW s \in States,
           content' = [content EXCEPT ![n][k] = s],
           s = "none" \/ n # worker'.name \/ k \notin SeenTo(worker'),
           worker' \in Workers, EmptyBehind(worker', content, late), UNCHANGED <<late, ns, queue>>
    PROVE  NamespaceInv'
<1>1. content' \in [Names -> [Kinds -> States]]
  BY DEF NamespaceInv, NamespaceTyped
<1>2. worker'.name \in Names /\ SeenTo(worker') \subseteq Kinds
  BY DEF Workers, SeenTo
<1>3. ASSUME NEW j \in SeenTo(worker'), content[worker'.name][j] = "none" \/ <<worker'.name, j>> \in late
      PROVE  content'[worker'.name][j] = "none" \/ <<worker'.name, j>> \in late
  <2>1. CASE worker'.name = n /\ j = k
    BY <1>2, <1>3, <2>1 DEF NamespaceInv, NamespaceTyped
  <2>2. CASE ~(worker'.name = n /\ j = k)
    BY <1>2, <1>3, <2>2 DEF NamespaceInv, NamespaceTyped
  <2> QED BY <2>1, <2>2
<1>4. EmptyBehind(worker', content', late)
  BY <1>3 DEF EmptyBehind
<1> QED BY <1>1, <1>4 DEF NamespaceInv, NamespaceTyped

LEMMA ReleaseKeeps ==
    ASSUME NamespaceInv, NEW n \in Names, NEW k \in Kinds, Release(n, k) PROVE NamespaceInv'
<1>1. content' = [content EXCEPT ![n][k] = "none"] /\ UNCHANGED <<worker, late, ns, queue>>
  BY DEF Release, nsQueueVars
<1>2. worker' \in Workers /\ EmptyBehind(worker', content, late) /\ "none" \in States
  BY <1>1 DEF NamespaceInv, NamespaceTyped, States
<1> QED BY <1>1, <1>2, ContentKeeps

LEMMA DeleteListedKeeps == ASSUME NamespaceAssumption, NamespaceInv, DeleteListed PROVE NamespaceInv'
<1> DEFINE n == worker.name
           k == worker.kind
<1>1. worker \in Workers /\ worker.pc = "delete" /\ n \in Names /\ k \in Kinds /\ k \in Int
  BY DEF NamespaceInv, NamespaceTyped, Workers, DeleteListed, Kinds, NamespaceAssumption
<1>2. /\ worker' \in Workers /\ worker'.pc = "check" /\ worker'.name = n /\ worker'.kind = k
      /\ (worker'.remaining <=> worker.remaining) /\ UNCHANGED <<late, ns, queue>>
  BY <1>1 DEF DeleteListed, Goes, Workers, WorkerPlaces, nsQueueVars
<1>3. PICK s \in States : content' = [content EXCEPT ![n][k] = s]
  <2> DEFINE s == IF ~worker.found \/ content[n][k] \in {"none", "there"}
                  THEN IF worker.found THEN "none" ELSE content[n][k]
                  ELSE "going"
  <2>1. s \in States
    BY <1>1 DEF NamespaceInv, NamespaceTyped, States
  <2>2. content' = [content EXCEPT ![n][k] = s]
    BY DEF DeleteListed, Name
  <2> HIDE DEF s
  <2> QED BY <2>1, <2>2
<1>4. k \notin SeenTo(worker') /\ SeenTo(worker') = SeenTo(worker)
  BY <1>1, <1>2 DEF SeenTo, Finalizing
<1>5. EmptyBehind(worker', content, late)
  BY <1>1, <1>2, <1>4 DEF NamespaceInv, EmptyBehind, Finalizing
<1> HIDE DEF n, k
<1> QED BY <1>1, <1>2, <1>3, <1>4, <1>5, ContentKeeps

\* The worker has seen to a kind: nothing of it is left, or something is.
LEMMA CheckKeeps == ASSUME NamespaceAssumption, NamespaceInv, Check PROVE NamespaceInv'
<1> DEFINE n == worker.name
           k == worker.kind
           left == StillThere(worker.remaining, k)
<1>1. /\ worker \in Workers /\ worker.pc = "check" /\ n \in Names /\ k \in Kinds /\ k \in Int
      /\ worker.remaining \in BOOLEAN /\ KindCount \in Int /\ Kinds = 1 .. KindCount /\ Attempts \in Int
  BY DEF NamespaceInv, NamespaceTyped, Workers, Check, Kinds, NamespaceAssumption
<1>2. left \in BOOLEAN /\ (left <=> worker.remaining \/ content[n][k] # "none")
  BY DEF StillThere, Name
<1>3. worker' = IF k < KindCount
                THEN [worker EXCEPT !.pc = "list", !.kind = k + 1, !.remaining = left]
                ELSE [worker EXCEPT !.pc = IF left THEN "sleep" ELSE "reread",
                                    !.remaining = left, !.tries = Attempts]
  BY <1>1 DEF Check, Workers
<1>4. late' = late \ {<<n, k>>} /\ UNCHANGED <<ns, content, queue>>
  BY DEF Check, nsQueueVars, Name
<1> HIDE DEF left
<1>5. worker' \in Workers /\ worker'.name = n /\ (worker'.remaining <=> left)
  <2>1. CASE k < KindCount
    <3>1. k + 1 \in Kinds
      BY <1>1, <2>1
    <3>2. worker' = [worker EXCEPT !.pc = "list", !.kind = k + 1, !.remaining = left]
      BY <1>3, <2>1
    <3> HIDE DEF k
    <3> QED BY <1>1, <1>2, <3>1, <3>2 DEF Workers, WorkerPlaces
  <2>2. CASE ~(k < KindCount)
    BY <1>1, <1>2, <1>3, <2>2 DEF Workers, WorkerPlaces
  <2> QED BY <2>1, <2>2
<1>6. SeenTo(worker') \subseteq SeenTo(worker) \cup {k}
  <2>1. CASE k < KindCount
    BY <1>1, <1>3, <2>1 DEF SeenTo, Finalizing, Workers
  <2>2. CASE ~(k < KindCount)
    <3>1. SeenTo(worker) = {j \in Kinds : j < k}
      BY <1>1 DEF SeenTo
    <3>2. Kinds \subseteq SeenTo(worker) \cup {k}
      BY <1>1, <2>2, <3>1
    <3> QED BY <3>2 DEF SeenTo
  <2> QED BY <2>1, <2>2
<1>7. k \notin SeenTo(worker)
  BY <1>1 DEF SeenTo, Finalizing
<1>8. worker'.pc \in {"list", "sleep", "reread"} /\ (worker'.pc = "reread" => ~left)
  <2>1. CASE k < KindCount
    BY <1>1, <1>3, <2>1 DEF Workers
  <2>2. CASE ~(k < KindCount)
    BY <1>1, <1>2, <1>3, <2>2 DEF Workers
  <2> QED BY <2>1, <2>2
<1>9. ASSUME ~left, NEW j \in SeenTo(worker')
      PROVE  content[n][j] = "none" \/ <<n, j>> \in late'
  <2>1. CASE j = k
    BY <1>2, <1>9, <2>1
  <2>2. CASE j \in SeenTo(worker)
    <3>1. content[n][j] = "none" \/ <<n, j>> \in late
      BY <1>2, <1>9, <2>2 DEF NamespaceInv, EmptyBehind
    <3>2. j # k
      BY <1>7, <2>2
    <3> QED BY <1>4, <3>1, <3>2
  <2> QED BY <1>6, <1>9, <2>1, <2>2
<1>10. EmptyBehind(worker', content', late')
  BY <1>4, <1>5, <1>8, <1>9 DEF EmptyBehind, Finalizing
<1> QED BY <1>4, <1>5, <1>10 DEF NamespaceInv, NamespaceTyped

\* Where the worker goes on, it has seen to what it had seen to, or to nothing.
LEMMA GoesKeeps ==
    ASSUME NamespaceAssumption, NamespaceInv, NEW pc \in WorkerPlaces, NEW stale \in BOOLEAN, NEW tries \in Int,
           NEW found \in BOOLEAN,
           worker' = [worker EXCEPT !.pc = pc, !.found = found, !.tries = tries, !.stale = stale],
           pc # "read", pc \in Finalizing => worker.pc \in Finalizing,
           pc \in {"list", "delete", "check"} => worker.pc \in {"read", "list", "delete", "check"},
           ns' \in [Names -> Spaces], queue' \in Seq(Names), UNCHANGED <<content, late>>
    PROVE  NamespaceInv'
<1>1. worker \in Workers /\ EmptyBehind(worker, content, late)
  BY DEF NamespaceInv, NamespaceTyped
<1>2. /\ worker' \in Workers /\ worker'.pc = pc /\ worker'.kind = worker.kind
      /\ worker'.name = worker.name /\ (worker'.remaining <=> worker.remaining)
      /\ worker.kind \in Int /\ Kinds \subseteq Int /\ \A j \in Kinds : j >= 1
  <2>1. Kinds \subseteq Int /\ \A j \in Kinds : j >= 1
    BY DEF Kinds, NamespaceAssumption
  <2>2. worker.kind \in Kinds
    BY <1>1 DEF Workers
  <2>3. /\ worker' \in Workers /\ worker'.pc = pc /\ worker'.kind = worker.kind
        /\ worker'.name = worker.name /\ (worker'.remaining <=> worker.remaining)
    BY <1>1 DEF Workers
  <2> QED BY <2>1, <2>2, <2>3
<1>3. SeenTo(worker') \subseteq SeenTo(worker)
  <2>1. CASE pc \in Finalizing
    BY <1>2, <2>1 DEF SeenTo, Finalizing
  <2>2. CASE pc \in {"list", "delete", "check"}
    <3>1. CASE worker.pc = "read"
      <4>1. worker.kind = 1
        BY <1>1, <3>1 DEF EmptyBehind
      <4>2. SeenTo(worker') = {}
        BY <1>2, <2>2, <4>1 DEF SeenTo, Finalizing
      <4> QED BY <4>2
    <3>2. CASE worker.pc # "read"
      BY <1>2, <2>2, <3>2 DEF SeenTo, Finalizing
    <3> QED BY <3>1, <3>2
  <2>3. CASE pc \notin {"list", "delete", "check"} /\ pc \notin Finalizing
    BY <1>2, <2>3 DEF SeenTo
  <2> QED BY <2>1, <2>2, <2>3
<1>4. EmptyBehind(worker', content', late')
  BY <1>1, <1>2, <1>3 DEF EmptyBehind
<1> QED BY <1>2, <1>4 DEF NamespaceInv, NamespaceTyped

LEMMA TakeKeeps == ASSUME NamespaceAssumption, NamespaceInv, Take PROVE NamespaceInv'
<1> DEFINE new == [AtRest EXCEPT !.pc = "read", !.name = Head(queue)]
<1>1. /\ queue \in Seq(Names) /\ queue # <<>> /\ queue' = Tail(queue) /\ worker' = new
      /\ UNCHANGED <<ns, content, late>>
  BY DEF NamespaceInv, NamespaceTyped, Take
<1>2. Head(queue) \in Names /\ queue' \in Seq(Names)
  BY <1>1
<1>3. new \in Workers /\ new.pc = "read" /\ new.kind = 1
  BY <1>2, AtRestIsWorker DEF Workers, WorkerPlaces
<1>4. ns' \in [Names -> Spaces]
  BY <1>1 DEF NamespaceInv, NamespaceTyped
<1> HIDE DEF new
<1>5. EmptyBehind(new, content, late)
  BY <1>3 DEF EmptyBehind, SeenTo, Finalizing
<1> QED BY <1>1, <1>2, <1>3, <1>4, <1>5, WorkerKeeps

\* The steps of the worker that write nothing.
LEMMA ReadsKeep ==
    ASSUME NamespaceAssumption, NamespaceInv,
           ReadNamespace \/ List \/ DeleteFails \/ Reread \/ ReplaceFails \/ FinalizeRead
    PROVE  NamespaceInv'
<1>1. worker \in Workers /\ worker.pc \in WorkerPlaces /\ UNCHANGED <<ns, content, late, queue>>
  BY DEF NamespaceInv, NamespaceTyped, Workers, ReadNamespace, List, DeleteFails, Reread, ReplaceFails,
         FinalizeRead, WorkerOnly, nsQueueVars
<1>2. /\ worker.found \in BOOLEAN /\ worker.tries \in Int /\ worker.stale \in BOOLEAN
      /\ worker.tries - 1 \in Int
  BY <1>1 DEF Workers
<1>3. ns' \in [Names -> Spaces] /\ queue' \in Seq(Names)
  BY <1>1 DEF NamespaceInv, NamespaceTyped
<1>4. CASE ReadNamespace
  <2>1. PICK pc \in {"list", "idle"} : worker' = [worker EXCEPT !.pc = pc]
    BY <1>4 DEF ReadNamespace, Goes
  <2>2. worker' = [worker EXCEPT !.pc = pc, !.found = worker.found, !.tries = worker.tries,
                                 !.stale = worker.stale]
    BY <1>1, <2>1 DEF Workers
  <2>3. pc \in WorkerPlaces /\ pc # "read" /\ pc \notin Finalizing /\ worker.pc = "read"
    BY <1>4, <2>1 DEF ReadNamespace, WorkerPlaces, Finalizing
  <2> QED BY <1>1, <1>2, <1>3, <2>2, <2>3, GoesKeeps
<1>5. CASE List
  <2> DEFINE found == content[worker.name][worker.kind] # "none"
  <2>1. worker' = [worker EXCEPT !.pc = "delete", !.found = found] /\ worker.pc = "list"
    BY <1>5 DEF List, Name
  <2>2. worker' = [worker EXCEPT !.pc = "delete", !.found = found, !.tries = worker.tries,
                                 !.stale = worker.stale]
    BY <1>1, <2>1 DEF Workers
  <2>3. "delete" \in WorkerPlaces /\ "delete" \notin Finalizing /\ found \in BOOLEAN
    BY DEF WorkerPlaces, Finalizing
  <2> HIDE DEF found
  <2> QED BY <1>1, <1>2, <1>3, <2>1, <2>2, <2>3, GoesKeeps
<1>6. CASE DeleteFails
  <2>1. worker' = [worker EXCEPT !.pc = "sleep", !.found = worker.found, !.tries = worker.tries,
                                 !.stale = worker.stale]
    BY <1>1, <1>6 DEF DeleteFails, Goes, Workers
  <2>2. "sleep" \in WorkerPlaces /\ "sleep" \notin Finalizing
    BY DEF WorkerPlaces, Finalizing
  <2> QED BY <1>1, <1>2, <1>3, <2>1, <2>2, GoesKeeps
<1>7. CASE Reread
  <2>1. PICK pc \in {"replace", "idle"} : worker' = [worker EXCEPT !.pc = pc, !.stale = FALSE]
    BY <1>7 DEF Reread
  <2>2. worker' = [worker EXCEPT !.pc = pc, !.found = worker.found, !.tries = worker.tries,
                                 !.stale = FALSE]
    BY <1>1, <2>1 DEF Workers
  <2>3. pc \in WorkerPlaces /\ pc # "read" /\ worker.pc \in Finalizing
        /\ pc \notin {"list", "delete", "check"}
    BY <1>7, <2>1 DEF Reread, WorkerPlaces, Finalizing
  <2> QED BY <1>1, <1>2, <1>3, <2>2, <2>3, GoesKeeps
<1>8. CASE ReplaceFails
  <2>1. \/ worker' = [worker EXCEPT !.pc = "reread", !.tries = worker.tries - 1]
        \/ worker' = [worker EXCEPT !.pc = "sleep"]
    BY <1>1, <1>8 DEF ReplaceFails, Workers
  <2>2. PICK pc \in {"reread", "sleep"}, tries \in Int :
          worker' = [worker EXCEPT !.pc = pc, !.found = worker.found, !.tries = tries,
                                   !.stale = worker.stale]
    <3>1. \/ worker' = [worker EXCEPT !.pc = "reread", !.found = worker.found,
                                      !.tries = worker.tries - 1, !.stale = worker.stale]
          \/ worker' = [worker EXCEPT !.pc = "sleep", !.found = worker.found,
                                      !.tries = worker.tries, !.stale = worker.stale]
      BY <1>1, <2>1 DEF Workers
    <3> QED BY <1>2, <3>1, Zenon
  <2>3. pc \in WorkerPlaces /\ pc # "read" /\ worker.pc \in Finalizing
        /\ pc \notin {"list", "delete", "check"}
    BY <1>8, <2>2 DEF ReplaceFails, WorkerPlaces, Finalizing
  <2> QED BY <1>1, <1>2, <1>3, <2>2, <2>3, GoesKeeps
<1>9. CASE FinalizeRead
  <2>1. PICK pc \in {"sleep", "mark", "remove", "idle"} :
          worker' = [worker EXCEPT !.pc = pc, !.stale = FALSE]
    BY <1>9 DEF FinalizeRead
  <2>2. worker' = [worker EXCEPT !.pc = pc, !.found = worker.found, !.tries = worker.tries,
                                 !.stale = FALSE]
    BY <1>1, <2>1 DEF Workers
  <2>3. pc \in WorkerPlaces /\ pc # "read" /\ pc \notin Finalizing
        /\ pc \notin {"list", "delete", "check"}
    BY <2>1 DEF WorkerPlaces, Finalizing
  <2> QED BY <1>1, <1>2, <1>3, <2>2, <2>3, GoesKeeps
<1> QED BY <1>4, <1>5, <1>6, <1>7, <1>8, <1>9

\* The steps of the worker that write the namespace, or queue it again.
LEMMA WritesKeep ==
    ASSUME NamespaceAssumption, NamespaceInv, Replace \/ Mark \/ RemoveNamespace \/ Wake
    PROVE  NamespaceInv'
<1>1. worker \in Workers /\ ns \in [Names -> Spaces] /\ queue \in Seq(Names) /\ Name \in Names
  BY DEF NamespaceInv, NamespaceTyped, Workers, Name
<1>2. worker.found \in BOOLEAN /\ worker.tries \in Int /\ worker.stale \in BOOLEAN
  BY <1>1 DEF Workers
<1>3. UNCHANGED <<content, late>>
  BY DEF Replace, Mark, RemoveNamespace, Wake
<1>4. ns' \in [Names -> Spaces]
  <2>1. ns[Name] \in Spaces /\ NoNamespace \in Spaces
    BY <1>1 DEF NoNamespace, Spaces
  <2>2. /\ [ns[Name] EXCEPT !.fins = ns[Name].fins \ {"kubernetes"}] \in Spaces
        /\ [ns[Name] EXCEPT !.phase = "terminating"] \in Spaces
    BY <2>1 DEF Spaces
  <2>3. \/ UNCHANGED ns \/ ns' = [ns EXCEPT ![Name] = NoNamespace]
        \/ ns' = [ns EXCEPT ![Name] = [ns[Name] EXCEPT !.fins = ns[Name].fins \ {"kubernetes"}]]
        \/ ns' = [ns EXCEPT ![Name] = [ns[Name] EXCEPT !.phase = "terminating"]]
    <3>1. CASE Replace
      BY <2>1, <3>1 DEF Replace, WriteNamespace, Spaces
    <3>2. CASE ~Replace
      BY <3>2 DEF Mark, RemoveNamespace, Wake, WriteNamespace
    <3> QED BY <3>1, <3>2
  <2> QED BY <1>1, <2>1, <2>2, <2>3
<1>5. queue' \in Seq(Names)
  BY <1>1 DEF Replace, Mark, RemoveNamespace, Wake, nsQueueVars
<1>6. PICK pc \in {"finalize", "sleep", "idle", "blocked"} : Goes(pc)
  BY DEF Replace, Mark, RemoveNamespace, Wake
<1>7. worker' = [worker EXCEPT !.pc = pc, !.found = worker.found, !.tries = worker.tries,
                               !.stale = worker.stale]
  BY <1>1, <1>6 DEF Goes, Workers
<1>8. pc \in WorkerPlaces /\ pc # "read" /\ pc \notin Finalizing /\ pc \notin {"list", "delete", "check"}
  BY <1>6 DEF WorkerPlaces, Finalizing
<1> QED BY <1>2, <1>3, <1>4, <1>5, <1>7, <1>8, GoesKeeps

LEMMA NamespaceKeeps ==
    NamespaceAssumption /\ NamespaceInv /\ [NamespaceNext]_nsVars => NamespaceInv'
<1> SUFFICES ASSUME NamespaceAssumption, NamespaceInv, [NamespaceNext]_nsVars PROVE NamespaceInv'
  OBVIOUS
<1>1. CASE Syncs \/ DeleteFails
  BY <1>1, TakeKeeps, ReadsKeep, WritesKeep, CheckKeeps, DeleteListedKeeps DEF Syncs
<1>2. ASSUME NEW n \in Names, CreateNamespace(n) \/ DeleteNamespace(n) \/ PatchNamespace(n)
      PROVE  NamespaceInv'
  BY <1>2, UsersKeep
<1>3. ASSUME NEW n \in Names, handleNamespace(n) PROVE NamespaceInv'
  <2>1. queue \in Seq(Names) /\ UNCHANGED <<worker, ns, content, late>>
    BY <1>3 DEF handleNamespace, NamespaceInv, NamespaceTyped
  <2>2. queue' \in Seq(Names)
    BY <1>3, <2>1 DEF handleNamespace, nsQueueVars
  <2> QED BY <2>1, <2>2 DEF NamespaceInv, NamespaceTyped
<1>4. ASSUME NEW n \in Names, NEW k \in Kinds, BeginCreate(n, k) \/ CommitCreate(n, k) \/ Release(n, k)
      PROVE  NamespaceInv'
  <2>1. CASE BeginCreate(n, k)
    BY <2>1 DEF BeginCreate, NamespaceInv, NamespaceTyped, nsQueueVars
  <2> QED BY <1>4, <2>1, CommitKeeps, ReleaseKeeps
<1>5. CASE UNCHANGED nsVars
  BY <1>5 DEF nsVars, NamespaceInv, NamespaceTyped
<1> QED BY <1>1, <1>2, <1>3, <1>4, <1>5 DEF NamespaceNext

\* Only the worker takes the controller's finalizer away.
LEMMA NamespaceStepsFinalize == NamespaceInv /\ [NamespaceNext]_nsVars => FinalizesEmpty
<1> SUFFICES ASSUME NamespaceInv, [NamespaceNext]_nsVars, NEW n \in Names,
                    "kubernetes" \in ns[n].fins, Exists(n)', "kubernetes" \notin ns'[n].fins,
                    NEW k \in Kinds
             PROVE  content[n][k] = "none" \/ <<n, k>> \in late
  BY DEF FinalizesEmpty
<1>1. ns \in [Names -> Spaces] /\ ns[n] \in Spaces /\ worker \in Workers /\ worker.name \in Names
  BY DEF NamespaceInv, NamespaceTyped, Workers
<1>2. CASE Replace
  <2>1. n = worker.name
    BY <1>1, <1>2 DEF Replace, WriteNamespace, Name
  <2>2. worker.pc = "replace" /\ SeenTo(worker) = Kinds
    BY <1>2 DEF Replace, SeenTo, Finalizing
  <2> QED BY <2>1, <2>2 DEF NamespaceInv, EmptyBehind, Finalizing
<1>3. ASSUME NEW m \in Names, NEW new \in Spaces, ns' = [ns EXCEPT ![m] = new],
             new.phase = "absent" \/ "kubernetes" \in new.fins \/ "kubernetes" \notin ns[m].fins
      PROVE  FALSE
  BY <1>1, <1>3 DEF Exists
<1>4. CASE UNCHANGED ns
  BY <1>4
<1>5. NoNamespace \in Spaces /\ NoNamespace.phase = "absent"
  BY DEF NoNamespace, Spaces
<1>6. ASSUME NEW m \in Names, CreateNamespace(m) PROVE FALSE
  <2>1. PICK fins \in {{"kubernetes"}, {"kubernetes", "user"}} :
          ns' = [ns EXCEPT ![m] = [NoNamespace EXCEPT !.phase = "active", !.fins = fins]]
    BY <1>6 DEF CreateNamespace, WriteNamespace
  <2> DEFINE new == [NoNamespace EXCEPT !.phase = "active", !.fins = fins]
  <2>2. new \in Spaces /\ "kubernetes" \in new.fins
    BY <1>5, <2>1 DEF Spaces
  <2> HIDE DEF new
  <2> QED BY <1>3, <2>1, <2>2 DEF new
<1>7. ASSUME NEW m \in Names, ns' = [ns EXCEPT ![m] = [ns[m] EXCEPT !.phase = "terminating"]]
      PROVE  FALSE
  BY <1>1, <1>7 DEF Spaces
<1>8. ASSUME NEW m \in Names, ns' = [ns EXCEPT ![m] = NoNamespace] PROVE FALSE
  BY <1>3, <1>5, <1>8
<1>9. ASSUME NEW m \in Names, DeleteNamespace(m) PROVE FALSE
  BY <1>7, <1>8, <1>9 DEF DeleteNamespace, WriteNamespace
<1>10. ASSUME NEW m \in Names, PatchNamespace(m) PROVE FALSE
  <2>1. ns[m] \in Spaces
    BY <1>1
  <2>2. PICK fins \in {ns[m].fins, ns[m].fins \ {"user"}} :
          ns' = [ns EXCEPT ![m] = [ns[m] EXCEPT
                   !.fins = fins, !.stranded = ns[m].stranded \/ (fins = {} /\ fins # ns[m].fins)]]
    BY <1>10, <2>1 DEF PatchNamespace, WriteNamespace, Spaces
  <2>3. m = n => ns'[n].fins = fins
    BY <1>1, <2>1, <2>2 DEF Spaces
  <2>4. "kubernetes" \in ns[m].fins => "kubernetes" \in fins
    BY <2>2
  <2> QED BY <1>1, <2>2, <2>3, <2>4
<1>11. ASSUME Mark \/ RemoveNamespace PROVE FALSE
  BY <1>1, <1>4, <1>7, <1>8, <1>11 DEF Mark, RemoveNamespace, WriteNamespace, Name
<1> QED
  BY <1>2, <1>4, <1>6, <1>9, <1>10, <1>11 DEF NamespaceNext, Syncs, nsVars, Take, ReadNamespace, List,
     DeleteListed, Check, Reread, ReplaceFails, FinalizeRead, Wake, WorkerOnly, DeleteFails, handleNamespace,
     BeginCreate, CommitCreate, Release

\* When the controller takes its finalizer away nothing is left in the namespace but what
\* was created after it had looked (deleteAllContent, syncNamespace).
THEOREM NamespacesFinalizedEmpty ==
    ASSUME NamespaceAssumption PROVE NamespaceSpec => FinalizedWhenEmpty
<1>1. NamespaceInv /\ [NamespaceNext]_nsVars => NamespaceInv'
  BY NamespaceKeeps
<1>2. NamespaceInit => NamespaceInv
  BY NamespaceStarts
<1>3. NamespaceSpec => []NamespaceInv
  BY <1>1, <1>2, PTL DEF NamespaceSpec
<1> QED BY <1>3, NamespaceStepsFinalize, PTL DEF NamespaceSpec, FinalizedWhenEmpty

----
(* The garbage collector.  What is gone stays gone and its uid is not used *)
(* again: an owner found absent is absent for good, however late that is   *)
(* used.  An owner that waits for its dependents waits or goes.            *)

ObjectStates == {"unborn", "live", "gone"}
Words        == AllNames \cup {r.name : r \in UNION OwnerSets} \cup {""}
Refs(W)      == [uid : W, name : Words, block : BOOLEAN]
Objects(W)   == [state : ObjectStates, deleting : BOOLEAN, finalizers : SUBSET PolicyFinalizers,
                 owners : SUBSET Refs(W)]
GraphNodes(W) == [in : BOOLEAN, name : Words, virtual : BOOLEAN, beingDeleted : BOOLEAN,
                  deletingDependents : BOOLEAN, owners : SUBSET Refs(W), dependents : SUBSET W]
GraphNews(W) == [type : {"add", "update", "delete", "virtual"}, uid : W, name : Words,
                 obj : Objects(W), old : Objects(W)]
Items(W)     == [uid : W, name : Words]
Policies     == {"", "Orphan", "Foreground", "Background"}
DeleterPlaces == {"idle", "get", "classify", "patch", "unblock", "unfinalize", "answered",
                  "delete", "recheck"}
Deletions(W) == [pc : DeleterPlaces, item : Items(W) \cup {NoItem}, read : Objects(W),
                 todo : SUBSET Refs(W), solid : SUBSET Refs(W), dangling : SUBSET Refs(W),
                 waiting : SUBSET Refs(W), policy : Policies, fresh : BOOLEAN,
                 cache : Objects(W), refs : SUBSET W, after : {"", "done", "delete"}]
Orphanings(W) == [pc : {"idle", "orphan", "answered", "delete"}, owner : W \cup {""},
                  todo : SUBSET W, refs : SUBSET W, cache : Objects(W), failed : BOOLEAN]

\* What is true of given objects o: those that are, or were, there; whether one
\* is there under a name; whether it waits for its dependents.
Known(o)     == {u \in Uids : o[u].state # "unborn"}
There(o, u, name) == o[u].state = "live" /\ NameOf[u] = name
Stays(o, r)  == There(o, r.uid, r.name)
                /\ ~(o[r.uid].deleting /\ "foregroundDeletion" \in o[r.uid].finalizers)
Absentees(o) == {i \in Items(Known(o)) : ~There(o, i.uid, i.name)}
News(o)      == {e \in GraphNews(Known(o)) :
                   e.type \in {"delete", "virtual"} => ~There(o, e.uid, e.name)}

\* One step of the objects.
Lasting(o, p) ==
    \A u \in Uids : /\ o[u].state # "unborn" => p[u].state # "unborn"
                    /\ o[u].state = "gone" => p[u].state = "gone"
Waiting(x) == x.deleting /\ "foregroundDeletion" \in x.finalizers
KeepsWaiting(o, p) ==
    \A u \in Uids : o[u].state = "live" /\ Waiting(o[u]) => p[u].state = "gone" \/ Waiting(p[u])

ApiSound(o, s, c) ==
    /\ o \in [Uids -> Objects(Known(o))] /\ s \in [AllNames -> Objects(Known(o))]
    /\ c \in Seq(News(o))
QueuesSound(o, g, absent, toDelete, toOrphan) ==
    /\ g \in [Uids -> GraphNodes(Known(o))] /\ absent \subseteq Absentees(o)
    /\ toDelete \subseteq Items(Known(o)) /\ toOrphan \subseteq Known(o)
Judged(w) == \/ w.pc \in {"unblock", "delete", "recheck"}
             \/ w.pc = "answered" /\ w.after = "delete"
DeleterSound(o, w) ==
    /\ w \in Deletions(Known(o)) /\ (w.pc # "idle" => w.item \in Items(Known(o)))
    /\ w.pc = "classify" => \A r \in w.read.owners : r \in w.todo \/ r \in w.solid \/ ~Stays(o, r)
    /\ Judged(w) => \A r \in w.read.owners : ~Stays(o, r)
OrphanerSound(o, w) ==
    w \in Orphanings(Known(o)) /\ (w.pc # "idle" => w.owner \in Known(o))

GCInv == /\ ApiSound(objs, seen, graphChanges)
         /\ QueuesSound(objs, graph, absentOwnerCache, attemptToDelete, attemptToOrphan)
         /\ DeleterSound(objs, deleter) /\ OrphanerSound(objs, orphaner)

LEMMA RefsTyped ==
    ASSUME GCAssumption, NEW owners \in OwnerSets
    PROVE  owners \subseteq [uid : Uids, name : Words, block : BOOLEAN]
<1>1. \A r \in owners : r.name \in Words
  BY DEF Words
<1>2. owners \subseteq [uid : Uids, name : STRING, block : BOOLEAN]
  BY DEF GCAssumption
<1> QED BY <1>1, <1>2

LEMMA TypesGrow ==
    ASSUME NEW V, NEW W \in SUBSET V
    PROVE  /\ Refs(W) \subseteq Refs(V) /\ Objects(W) \subseteq Objects(V)
           /\ GraphNodes(W) \subseteq GraphNodes(V) /\ GraphNews(W) \subseteq GraphNews(V)
           /\ Items(W) \subseteq Items(V) /\ Deletions(W) \subseteq Deletions(V)
           /\ Orphanings(W) \subseteq Orphanings(V)
<1>1. Refs(W) \subseteq Refs(V) /\ Items(W) \subseteq Items(V)
  BY DEF Refs, Items
<1>2. SUBSET Refs(W) \subseteq SUBSET Refs(V)
  BY <1>1
<1> DEFINE RW == SUBSET Refs(W)
           RV == SUBSET Refs(V)
<1>3. Objects(W) \subseteq Objects(V)
  <2>1. RW \subseteq RV
    BY <1>2
  <2> HIDE DEF RW, RV
  <2> QED BY <2>1 DEF Objects, RW, RV
<1>4. GraphNodes(W) \subseteq GraphNodes(V)
  BY <1>1 DEF GraphNodes
<1>5. GraphNews(W) \subseteq GraphNews(V)
  BY <1>3 DEF GraphNews
<1>6. Deletions(W) \subseteq Deletions(V)
  BY <1>1, <1>3 DEF Deletions
<1>7. Orphanings(W) \subseteq Orphanings(V)
  BY <1>3 DEF Orphanings
<1> QED BY <1>1, <1>3, <1>4, <1>5, <1>6, <1>7

\* What lasts: the objects known, those absent, and what the news tell.
LEMMA KnowledgeLasts ==
    ASSUME NEW o, NEW p, o \in [Uids -> Objects(Known(o))], Lasting(o, p)
    PROVE  /\ Known(o) \subseteq Known(p) /\ Absentees(o) \subseteq Absentees(p)
           /\ News(o) \subseteq News(p)
<1>1. Known(o) \subseteq Known(p)
  BY DEF Known, Lasting
<1>2. ASSUME NEW u \in Known(o), NEW name, ~There(o, u, name) PROVE ~There(p, u, name)
  <2>1. u \in Uids /\ o[u].state # "unborn" /\ o[u].state \in ObjectStates
    BY DEF Known, Objects
  <2> QED BY <1>2, <2>1 DEF There, Lasting, ObjectStates
<1>3. Items(Known(o)) \subseteq Items(Known(p)) /\ GraphNews(Known(o)) \subseteq GraphNews(Known(p))
  BY <1>1, TypesGrow
<1>4. Absentees(o) \subseteq Absentees(p)
  <2>1. \A i \in Items(Known(o)) : i.uid \in Known(o)
    BY DEF Items
  <2> QED BY <1>2, <1>3, <2>1 DEF Absentees
<1>5. News(o) \subseteq News(p)
  <2>1. \A e \in GraphNews(Known(o)) : e.uid \in Known(o)
    BY DEF GraphNews
  <2> QED BY <1>2, <1>3, <2>1 DEF News
<1> QED BY <1>1, <1>4, <1>5

LEMMA JudgementLasts ==
    ASSUME NEW o, NEW p, o \in [Uids -> Objects(Known(o))], Lasting(o, p), KeepsWaiting(o, p),
           NEW r \in Refs(Known(o)), ~Stays(o, r)
    PROVE  ~Stays(p, r)
<1>1. r.uid \in Uids /\ o[r.uid].state # "unborn" /\ o[r.uid].state \in ObjectStates
  BY DEF Refs, Known, Objects
<1>2. CASE ~There(o, r.uid, r.name)
  BY <1>1, <1>2 DEF There, Stays, Lasting, ObjectStates
<1>3. CASE There(o, r.uid, r.name)
  <2>1. o[r.uid].state = "live" /\ Waiting(o[r.uid])
    BY <1>3 DEF There, Stays, Waiting
  <2>2. p[r.uid].state = "gone" \/ Waiting(p[r.uid])
    BY <1>1, <2>1 DEF KeepsWaiting
  <2> QED BY <2>2 DEF Stays, There, Waiting
<1> QED BY <1>2, <1>3

LEMMA DeleterLasts ==
    ASSUME NEW o, NEW p, NEW w, o \in [Uids -> Objects(Known(o))], Lasting(o, p), KeepsWaiting(o, p),
           DeleterSound(o, w)
    PROVE  DeleterSound(p, w)
<1>1. Known(o) \subseteq Known(p)
  BY KnowledgeLasts
<1>2. w \in Deletions(Known(p)) /\ (w.pc # "idle" => w.item \in Items(Known(p)))
  BY <1>1, TypesGrow DEF DeleterSound
<1>3. \A r \in w.read.owners : r \in Refs(Known(o))
  BY DEF DeleterSound, Deletions, Objects
<1>4. \A r \in w.read.owners : ~Stays(o, r) => ~Stays(p, r)
  BY <1>3, JudgementLasts
<1> QED BY <1>2, <1>4 DEF DeleterSound

LEMMA OthersLast ==
    ASSUME NEW o, NEW p, o \in [Uids -> Objects(Known(o))], Lasting(o, p), NEW w, OrphanerSound(o, w),
           NEW g, NEW absent, NEW toDelete, NEW toOrphan, QueuesSound(o, g, absent, toDelete, toOrphan)
    PROVE  OrphanerSound(p, w) /\ QueuesSound(p, g, absent, toDelete, toOrphan)
<1>1. Known(o) \subseteq Known(p) /\ Absentees(o) \subseteq Absentees(p)
  BY KnowledgeLasts
<1>2. /\ Orphanings(Known(o)) \subseteq Orphanings(Known(p)) /\ Items(Known(o)) \subseteq Items(Known(p))
      /\ GraphNodes(Known(o)) \subseteq GraphNodes(Known(p))
  BY <1>1, TypesGrow
<1>3. OrphanerSound(p, w)
  BY <1>1, <1>2 DEF OrphanerSound
<1> QED BY <1>1, <1>2, <1>3 DEF QueuesSound

\* A step of the API's that the deleter did not make.
LEMMA ApiKeeps ==
    ASSUME GCInv, Lasting(objs, objs'), KeepsWaiting(objs, objs'),
           ApiSound(objs', seen', graphChanges'), UNCHANGED <<queues, deleter, orphaner>>
    PROVE  GCInv'
<1>1. objs \in [Uids -> Objects(Known(objs))]
  BY DEF GCInv, ApiSound
<1>2. DeleterSound(objs', deleter)
  BY <1>1, DeleterLasts DEF GCInv
<1>3. OrphanerSound(objs', orphaner)
      /\ QueuesSound(objs', graph, absentOwnerCache, attemptToDelete, attemptToOrphan)
  BY <1>1, OthersLast DEF GCInv
<1> QED BY <1>2, <1>3 DEF GCInv, queues

----
\* What is written is published.
LEMMA NewsTyped ==
    ASSUME NEW S, NEW c \in Seq(S), NEW e \in S PROVE Append(c, e) \in Seq(S)
  OBVIOUS

LEMMA PublishSound ==
    ASSUME ApiSound(objs, seen, graphChanges), Lasting(objs, objs'),
           objs' \in [Uids -> Objects(Known(objs'))], NEW u \in Known(objs'),
           NEW obj \in Objects(Known(objs')), NEW type \in {"add", "update", "delete"},
           type = "delete" => objs'[u].state = "gone", Publish(u, type, obj), GCAssumption
    PROVE  ApiSound(objs', seen', graphChanges')
<1> DEFINE W == Known(objs')
           n == NameOf[u]
           e == [type |-> type, uid |-> u, name |-> n, obj |-> obj,
                 old |-> IF type = "delete" THEN Unborn ELSE seen[n]]
<1>1. /\ Known(objs) \subseteq W /\ News(objs) \subseteq News(objs')
  BY KnowledgeLasts DEF ApiSound
<1>2. Objects(Known(objs)) \subseteq Objects(W)
  BY <1>1, TypesGrow
<1>3. Unborn \in Objects(W)
  BY DEF Unborn, Objects, ObjectStates
<1>4. n \in AllNames /\ n \in Words /\ u \in W
  BY DEF AllNames, Words, Known
<1>5. seen \in [AllNames -> Objects(W)]
  BY <1>2 DEF ApiSound
<1>6. graphChanges' = Append(graphChanges, e)
      /\ seen' = [seen EXCEPT ![n] = IF type = "delete" THEN Unborn ELSE obj]
  BY DEF Publish
<1>7. e \in GraphNews(W)
  <2> DEFINE old == IF type = "delete" THEN Unborn ELSE seen[n]
  <2>1. old \in Objects(W)
    BY <1>3, <1>4, <1>5
  <2> HIDE DEF old, n, W
  <2>2. [type |-> type, uid |-> u, name |-> n, obj |-> obj, old |-> old] \in GraphNews(W)
    BY <1>4, <2>1 DEF GraphNews, W
  <2> QED BY <2>2 DEF old
<1>8. e \in News(objs')
  <2>1. e.type = type /\ e.uid = u /\ e.name = n
    OBVIOUS
  <2>2. type = "delete" => ~There(objs', u, n)
    BY DEF There
  <2> HIDE DEF e
  <2> QED BY <1>7, <2>1, <2>2 DEF News
<1>9. seen' \in [AllNames -> Objects(W)]
  <2> HIDE DEF n, W
  <2> QED BY <1>3, <1>4, <1>5, <1>6 DEF W
<1> HIDE DEF e
<1>10. graphChanges \in Seq(News(objs'))
  BY <1>1 DEF ApiSound
<1>11. graphChanges' \in Seq(News(objs'))
  BY <1>6, <1>8, <1>10, NewsTyped
<1> QED BY <1>9, <1>11 DEF ApiSound

LEMMA GoneTyped == ASSUME NEW W PROVE Gone \in Objects(W) /\ Unborn \in Objects(W) /\ Gone.state = "gone"
BY DEF Gone, Unborn, Objects, ObjectStates

\* What is there is there; nothing else becomes known.
LEMMA ReplaceSound ==
    ASSUME ApiSound(objs, seen, graphChanges), NEW u \in Uids, Live(u), NEW x \in Objects(Known(objs)),
           x.state \in {"live", "gone"}, objs' = [objs EXCEPT ![u] = x]
    PROVE  /\ Known(objs') = Known(objs) /\ objs' \in [Uids -> Objects(Known(objs'))]
           /\ Lasting(objs, objs') /\ u \in Known(objs') /\ objs'[u] = x
<1> DEFINE W == Known(objs)
<1>1. objs \in [Uids -> Objects(W)] /\ objs' \in [Uids -> Objects(W)]
  BY DEF ApiSound
<1>2. objs'[u] = x /\ \A v \in Uids : v # u => objs'[v] = objs[v]
  BY <1>1
<1>3. Known(objs') = W
  BY <1>2 DEF Known, Live
<1>4. Lasting(objs, objs')
  BY <1>2 DEF Lasting, Live
<1> QED BY <1>1, <1>2, <1>3, <1>4 DEF Known, Live

LEMMA PutSound ==
    ASSUME GCAssumption, ApiSound(objs, seen, graphChanges), NEW u \in Uids, Live(u),
           NEW x \in Objects(Known(objs)), x.state = "live", Put(u, x)
    PROVE  /\ ApiSound(objs', seen', graphChanges') /\ Lasting(objs, objs')
           /\ (Waiting(objs[u]) => Waiting(x) \/ (x.finalizers = {} /\ x.deleting))
              => KeepsWaiting(objs, objs')
<1>1. objs \in [Uids -> Objects(Known(objs))] /\ objs[u] \in Objects(Known(objs))
  BY DEF ApiSound
<1>2. CASE UNCHANGED apiVars
  BY <1>1, <1>2 DEF apiVars, Lasting, KeepsWaiting
<1>3. CASE TakeOut(u)
  <2>1. objs' = [objs EXCEPT ![u] = Gone] /\ Publish(u, "delete", objs[u])
    BY <1>3 DEF TakeOut
  <2>2. Gone \in Objects(Known(objs)) /\ Gone.state = "gone"
    BY GoneTyped
  <2>3. /\ Known(objs') = Known(objs) /\ objs' \in [Uids -> Objects(Known(objs'))]
        /\ Lasting(objs, objs') /\ u \in Known(objs') /\ objs'[u] = Gone
    BY <2>1, <2>2, ReplaceSound
  <2>4. ApiSound(objs', seen', graphChanges')
    BY <1>1, <2>1, <2>2, <2>3, PublishSound
  <2>5. KeepsWaiting(objs, objs')
    BY <1>1, <2>1, <2>2, <2>3 DEF KeepsWaiting
  <2> QED BY <2>3, <2>4, <2>5
<1>4. CASE objs' = [objs EXCEPT ![u] = x] /\ Publish(u, "update", x) /\ ~(x.deleting /\ x.finalizers = {})
  <2>1. /\ Known(objs') = Known(objs) /\ objs' \in [Uids -> Objects(Known(objs'))]
        /\ Lasting(objs, objs') /\ u \in Known(objs') /\ objs'[u] = x
    BY <1>4, ReplaceSound
  <2>2. ApiSound(objs', seen', graphChanges')
    BY <1>4, <2>1, PublishSound
  <2>3. (Waiting(objs[u]) => Waiting(x)) => KeepsWaiting(objs, objs')
    BY <1>1, <1>4, <2>1 DEF KeepsWaiting
  <2> QED BY <1>4, <2>1, <2>2, <2>3
<1> QED BY <1>2, <1>3, <1>4 DEF Put

\* deleteResource keeps the object, but for its finalizers.
LEMMA DeleteSound ==
    ASSUME GCAssumption, ApiSound(objs, seen, graphChanges), NEW u \in Uids, Live(u),
           NEW policy, Delete(u, policy)
    PROVE  /\ ApiSound(objs', seen', graphChanges') /\ Lasting(objs, objs')
           /\ policy = "Background" \/ ~objs[u].deleting => KeepsWaiting(objs, objs')
<1> DEFINE fins == (objs[u].finalizers \ PolicyFinalizers) \cup
                   CASE policy = "Orphan"     -> {"orphan"}
                     [] policy = "Foreground" -> {"foregroundDeletion"}
                     [] OTHER                 -> {}
           x == [objs[u] EXCEPT !.deleting = TRUE, !.finalizers = fins]
<1>1. objs[u] \in Objects(Known(objs)) /\ objs[u].state = "live"
  BY DEF ApiSound, Live
<1>2. fins \subseteq PolicyFinalizers /\ (policy = "Background" => fins = {})
  BY <1>1 DEF PolicyFinalizers, Objects
<1>3. Put(u, x)
  BY <1>1 DEF Delete, Objects
<1> HIDE DEF fins
<1>4. x \in Objects(Known(objs)) /\ x.state = "live" /\ x.deleting /\ x.finalizers = fins
  BY <1>1, <1>2 DEF Objects
<1> HIDE DEF x
<1> QED BY <1>2, <1>3, <1>4, PutSound DEF Waiting

\* Other owners, the same life.
LEMMA OwnersSound ==
    ASSUME GCAssumption, ApiSound(objs, seen, graphChanges), NEW u \in Uids, Live(u),
           NEW owners \in SUBSET Refs(Known(objs)), Put(u, [objs[u] EXCEPT !.owners = owners])
    PROVE  /\ [objs[u] EXCEPT !.owners = owners] \in Objects(Known(objs))
           /\ ApiSound(objs', seen', graphChanges') /\ Lasting(objs, objs') /\ KeepsWaiting(objs, objs')
<1> DEFINE x == [objs[u] EXCEPT !.owners = owners]
<1>1. objs[u] \in Objects(Known(objs)) /\ objs[u].state = "live"
  BY DEF ApiSound, Live
<1>2. /\ x \in Objects(Known(objs)) /\ x.state = "live" /\ x.deleting = objs[u].deleting
      /\ x.finalizers = objs[u].finalizers
  BY <1>1 DEF Objects
<1> HIDE DEF x
<1>3. ApiSound(objs', seen', graphChanges') /\ Lasting(objs, objs') /\ KeepsWaiting(objs, objs')
  BY <1>2, PutSound DEF Waiting, x
<1> QED BY <1>2, <1>3 DEF x

LEMMA CreateKeeps == ASSUME GCAssumption, GCInv, NEW u \in Uids, CreateObject(u) PROVE GCInv'
<1>1. PICK owners \in OwnerSets :
        /\ Referable(owners, u)
        /\ objs' = [objs EXCEPT ![u] = [Unborn EXCEPT !.state = "live", !.owners = owners]]
        /\ Publish(u, "add", [Unborn EXCEPT !.state = "live", !.owners = owners])
  BY DEF CreateObject
<1> DEFINE x == [Unborn EXCEPT !.state = "live", !.owners = owners]
<1>2. objs \in [Uids -> Objects(Known(objs))] /\ objs[u].state = "unborn" /\ x.state = "live"
  BY DEF GCInv, ApiSound, CreateObject, Unborn
<1>3. owners \in SUBSET Refs(Known(objs))
  <2>1. owners \subseteq [uid : Uids, name : Words, block : BOOLEAN]
    BY RefsTyped
  <2> QED BY <1>1, <2>1 DEF Refs, Referable, Known
<1>4. x \in Objects(Known(objs))
  BY <1>3 DEF Unborn, Objects, ObjectStates
<1> HIDE DEF x
<1>5. objs' \in [Uids -> Objects(Known(objs))] /\ objs'[u] = x /\ \A v \in Uids : v # u => objs'[v] = objs[v]
  BY <1>1, <1>2, <1>4 DEF x
<1>6. Lasting(objs, objs') /\ KeepsWaiting(objs, objs')
  BY <1>2, <1>5 DEF Lasting, KeepsWaiting
<1>7. Known(objs) \subseteq Known(objs') /\ u \in Known(objs')
  BY <1>2, <1>5, <1>6 DEF Known, Lasting
<1>8. Objects(Known(objs)) \subseteq Objects(Known(objs'))
  BY <1>7, TypesGrow
<1>9. ApiSound(objs', seen', graphChanges')
  BY <1>1, <1>4, <1>5, <1>6, <1>7, <1>8, PublishSound DEF x, GCInv
<1>10. UNCHANGED <<queues, deleter, orphaner>>
  BY DEF CreateObject, Alter
<1> QED BY <1>6, <1>9, <1>10, ApiKeeps

LEMMA GCUsersKeep ==
    ASSUME GCAssumption, GCInv, NEW u \in Uids, DeleteObject(u) \/ ChangeOwners(u) PROVE GCInv'
<1>1. ApiSound(objs, seen, graphChanges) /\ objs[u] \in Objects(Known(objs))
  BY DEF GCInv, ApiSound
<1>2. CASE DeleteObject(u)
  <2>1. PICK p \in {"Background", "Foreground", "Orphan"} : Delete(u, p)
    BY <1>2 DEF DeleteObject
  <2>2. Live(u) /\ ~objs[u].deleting /\ UNCHANGED <<queues, deleter, orphaner>>
    BY <1>2 DEF DeleteObject, Alter
  <2> QED BY <1>1, <2>1, <2>2, DeleteSound, ApiKeeps
<1>3. CASE ChangeOwners(u)
  <2>1. PICK owners \in OwnerSets : Referable(owners, u) /\ objs' = [objs EXCEPT ![u].owners = owners]
    BY <1>3 DEF ChangeOwners
  <2>2. Live(u) /\ Publish(u, "update", objs'[u]) /\ UNCHANGED <<queues, deleter, orphaner>>
    BY <1>3 DEF ChangeOwners, Alter
  <2>3. owners \in SUBSET Refs(Known(objs))
    <3>1. owners \subseteq [uid : Uids, name : Words, block : BOOLEAN]
      BY RefsTyped
    <3> QED BY <2>1, <3>1 DEF Refs, Referable, Known
  <2> DEFINE x == [objs[u] EXCEPT !.owners = owners]
  <2>4. x \in Objects(Known(objs)) /\ x.state = "live" /\ Waiting(x) = Waiting(objs[u])
    BY <1>1, <2>2, <2>3 DEF Objects, Live, Waiting
  <2>5. objs' = [objs EXCEPT ![u] = x]
    BY <1>1, <2>1 DEF Objects
  <2> HIDE DEF x
  <2>6. /\ Known(objs') = Known(objs) /\ objs' \in [Uids -> Objects(Known(objs'))]
        /\ Lasting(objs, objs') /\ u \in Known(objs') /\ objs'[u] = x
    BY <1>1, <2>2, <2>4, <2>5, ReplaceSound
  <2>7. KeepsWaiting(objs, objs')
    BY <1>1, <2>4, <2>5, <2>6 DEF KeepsWaiting, ApiSound
  <2>8. ApiSound(objs', seen', graphChanges')
    BY <1>1, <2>2, <2>4, <2>6, PublishSound
  <2> QED BY <2>2, <2>6, <2>7, <2>8, ApiKeeps
<1> QED BY <1>2, <1>3

----
\* The graph builder.
Graphs == [Uids -> GraphNodes(Known(objs))]

LEMMA AbsentNodeTyped == ASSUME NEW W PROVE AbsentNode \in GraphNodes(W)
BY DEF AbsentNode, GraphNodes, Words

LEMMA LinksTyped ==
    ASSUME NEW g \in Graphs, NEW u \in Known(objs), NEW refs \in SUBSET Refs(Known(objs))
    PROVE  /\ addDependentToOwners(g, u, refs).graph \in Graphs
           /\ addDependentToOwners(g, u, refs).queue \subseteq Known(objs)
<1> DEFINE W == Known(objs)
           missing == {r.uid : r \in refs} \ {v \in Uids : g[v].in}
           made == [v \in Uids |->
                   IF v \in missing
                   THEN [AbsentNode EXCEPT !.in = TRUE, !.virtual = TRUE, !.name = RefName(refs, v)]
                   ELSE g[v]]
<1>1. missing \subseteq W
  BY DEF Refs
<1>2. ASSUME NEW v \in missing PROVE RefName(refs, v) \in Words
  <2>1. \E r \in refs : r.uid = v
    OBVIOUS
  <2>2. (CHOOSE r \in refs : r.uid = v) \in Refs(W)
    BY <2>1
  <2> QED BY <2>2 DEF RefName, Refs
<1>3. made \in [Uids -> GraphNodes(W)]
  <2>1. \A v \in missing : [AbsentNode EXCEPT !.in = TRUE, !.virtual = TRUE, !.name = RefName(refs, v)]
                            \in GraphNodes(W)
    BY <1>2, AbsentNodeTyped DEF GraphNodes
  <2> HIDE DEF missing
  <2> QED BY <2>1 DEF Graphs
<1> HIDE DEF made, missing, W
<1>4. \A v \in Uids : [made[v] EXCEPT !.dependents = @ \cup {u}] \in GraphNodes(W)
  BY <1>3 DEF GraphNodes, W
<1>5. [v \in Uids |-> IF RefersTo(refs, v) THEN [made[v] EXCEPT !.dependents = @ \cup {u}] ELSE made[v]]
        \in Graphs
  BY <1>3, <1>4 DEF Graphs, W
<1> QED BY <1>1, <1>5 DEF addDependentToOwners, made, missing, W

LEMMA CutsTyped ==
    ASSUME NEW g \in Graphs, NEW u, NEW refs
    PROVE  removeDependentFromOwners(g, u, refs) \in Graphs
<1>1. \A v \in Uids : g[v] \in GraphNodes(Known(objs))
                     /\ [g[v] EXCEPT !.dependents = @ \ {u}] \in GraphNodes(Known(objs))
  BY DEF Graphs, GraphNodes
<1> QED BY <1>1 DEF Graphs, removeDependentFromOwners

\* The graph and the queues, where nothing else changes.
GraphSound == QueuesSound(objs, graph, absentOwnerCache, attemptToDelete, attemptToOrphan)

LEMMA ProcessedSound ==
    ASSUME GraphSound, UNCHANGED objs, NEW g \in Graphs, NEW S \in SUBSET Known(objs),
           NEW orphans \in SUBSET Known(objs), NEW missing \in SUBSET Absentees(objs),
           Processed(g, S, orphans, missing)
    PROVE  GraphSound'
<1>1. Ids(g, S) \subseteq Items(Known(objs))
  <2>1. \A u \in S : u \in Uids /\ g[u].name \in Words
    BY DEF Known, Graphs, GraphNodes
  <2> QED BY <2>1 DEF Ids, Items
<1> QED BY <1>1 DEF GraphSound, QueuesSound, Processed, Graphs

LEMMA TransitionsSound ==
    ASSUME GraphSound, UNCHANGED objs, NEW e \in News(objs), NEW g \in Graphs,
           NEW S \in SUBSET Known(objs), processTransitions(e, g, S)
    PROVE  GraphSound'
<1>1. e.uid \in Known(objs) /\ e.uid \in Uids
  BY DEF News, GraphNews, Known
<1>2. g[e.uid] \in GraphNodes(Known(objs)) /\ g[e.uid].dependents \subseteq Known(objs)
  BY <1>1 DEF Graphs, GraphNodes
<1>3. [g EXCEPT ![e.uid].deletingDependents = TRUE] \in Graphs
  <2>1. [g[e.uid] EXCEPT !.deletingDependents = TRUE] \in GraphNodes(Known(objs))
    BY <1>2 DEF GraphNodes
  <2> QED BY <1>1, <2>1 DEF Graphs
<1>4. CASE Processed(g, S, {e.uid}, {})
  BY <1>1, <1>4, ProcessedSound
<1>5. CASE Processed([g EXCEPT ![e.uid].deletingDependents = TRUE], S \cup g[e.uid].dependents \cup {e.uid}, {}, {})
  BY <1>1, <1>2, <1>3, <1>5, ProcessedSound
<1>6. CASE Processed(g, S, {}, {})
  BY <1>6, ProcessedSound
<1> QED BY <1>4, <1>5, <1>6 DEF processTransitions

LEMMA ObservedTyped ==
    ASSUME GraphSound, NEW e \in News(objs) PROVE Observed(e) \in Graphs /\ Misnamed(e) \subseteq Known(objs)
<1>1. e.uid \in Uids /\ e.name \in Words
  BY DEF News, GraphNews, Known
<1>2. graph \in Graphs /\ graph[e.uid] \in GraphNodes(Known(objs))
  BY <1>1 DEF GraphSound, QueuesSound, Graphs
<1>3. [graph[e.uid] EXCEPT !.virtual = FALSE, !.name = e.name] \in GraphNodes(Known(objs))
  BY <1>1, <1>2 DEF GraphNodes
<1>4. [graph EXCEPT ![e.uid].virtual = FALSE, ![e.uid].name = e.name]
        = [graph EXCEPT ![e.uid] = [graph[e.uid] EXCEPT !.virtual = FALSE, !.name = e.name]]
  BY <1>1, <1>2 DEF Graphs, GraphNodes
<1>5. Observed(e) \in Graphs
  BY <1>2, <1>3, <1>4 DEF Observed, Graphs
<1>6. graph[e.uid].dependents \subseteq Known(objs)
  BY <1>2 DEF GraphNodes
<1> QED BY <1>5, <1>6 DEF Misnamed, nonmatching

LEMMA AddedSound ==
    ASSUME GraphSound, UNCHANGED objs, NEW e \in News(objs), ProcessAdded(e) PROVE GraphSound'
<1> DEFINE W == Known(objs)
           node == [AbsentNode EXCEPT !.in = TRUE, !.name = e.name, !.owners = e.obj.owners,
                      !.beingDeleted = e.obj.deleting,
                      !.deletingDependents = e.obj.deleting
                                             /\ "foregroundDeletion" \in e.obj.finalizers]
           g == [graph EXCEPT ![e.uid] = node]
           linked == addDependentToOwners(g, e.uid, e.obj.owners)
<1>1. /\ e.uid \in W /\ e.uid \in Uids /\ e.name \in Words /\ e.obj \in Objects(W)
      /\ graph \in Graphs
  BY DEF News, GraphNews, Known, GraphSound, QueuesSound, Graphs
<1>2. e.obj.owners \in SUBSET Refs(W) /\ e.obj.deleting \in BOOLEAN
  BY <1>1 DEF Objects
<1>3. node \in GraphNodes(W)
  <2>1. AbsentNode \in GraphNodes(W)
    BY AbsentNodeTyped
  <2> HIDE DEF W
  <2> QED BY <1>1, <1>2, <2>1 DEF GraphNodes
<1> HIDE DEF node
<1>4. g \in Graphs
  BY <1>1, <1>3 DEF Graphs
<1>5. processTransitions(e, linked.graph, linked.queue)
  BY DEF ProcessAdded, node
<1> HIDE DEF g
<1>6. linked.graph \in Graphs /\ linked.queue \in SUBSET W
  BY <1>1, <1>2, <1>4, LinksTyped
<1> HIDE DEF linked
<1> QED BY <1>5, <1>6, TransitionsSound

LEMMA UpdatedSound ==
    ASSUME GraphSound, UNCHANGED objs, NEW e \in News(objs), ProcessUpdated(e) PROVE GraphSound'
<1> DEFINE W == Known(objs)
           g == Observed(e)
           was == g[e.uid].owners
           now == e.obj.owners
           added == {r \in now : ~RefersTo(was, r.uid)}
           removed == {r \in was : ~RefersTo(now, r.uid)}
           unblocked == {v \in Uids : /\ g[v].in /\ Blocks(was, v) /\ ~Blocks(now, v)}
           owned == [g EXCEPT ![e.uid].owners = now, ![e.uid].beingDeleted = @ \/ e.obj.deleting]
           linked == addDependentToOwners(owned, e.uid, added)
           cut == removeDependentFromOwners(linked.graph, e.uid, removed)
           requeued == linked.queue \cup unblocked \cup Misnamed(e)
<1>1. /\ e.uid \in W /\ e.uid \in Uids /\ e.obj \in Objects(W)
      /\ g \in Graphs /\ Misnamed(e) \subseteq W
  BY ObservedTyped DEF News, GraphNews, Known
<1>2. processTransitions(e, cut, requeued)
  BY DEF ProcessUpdated
<1> HIDE DEF g
<1>3. /\ g[e.uid] \in GraphNodes(W) /\ now \in SUBSET Refs(W) /\ was \in SUBSET Refs(W)
      /\ e.obj.deleting \in BOOLEAN
  BY <1>1 DEF Graphs, GraphNodes, Objects
<1>4. owned \in Graphs
  <2> DEFINE node == [g[e.uid] EXCEPT !.owners = now, !.beingDeleted = @ \/ e.obj.deleting]
  <2> HIDE DEF now
  <2>1. node \in GraphNodes(W)
    <3> HIDE DEF W
    <3> QED BY <1>3 DEF GraphNodes
  <2>2. owned = [g EXCEPT ![e.uid] = node]
    BY <1>1, <1>3 DEF Graphs, GraphNodes
  <2> HIDE DEF node, owned
  <2> QED BY <1>1, <2>1, <2>2 DEF Graphs
<1>5. added \in SUBSET Refs(W) /\ unblocked \subseteq W
  BY <1>3 DEF Blocks, Refs
<1> HIDE DEF owned, added, was, unblocked
<1>6. linked.graph \in Graphs /\ linked.queue \subseteq W
  BY <1>1, <1>4, <1>5, LinksTyped
<1> HIDE DEF linked, removed
<1>7. cut \in Graphs /\ requeued \in SUBSET W
  BY <1>1, <1>5, <1>6, CutsTyped
<1> HIDE DEF cut, requeued
<1> QED BY <1>2, <1>7, TransitionsSound

LEMMA RemovedSound ==
    ASSUME GraphSound, UNCHANGED objs, NEW g \in Graphs, NEW e \in News(objs),
           e.type \in {"delete", "virtual"}, Removed(g, e.uid, e.name)
    PROVE  GraphSound'
<1> DEFINE W == Known(objs)
           u == e.uid
           waiting == {v \in Uids : /\ g[v].in /\ g[v].deletingDependents
                                    /\ RefersTo(g[u].owners, v)}
           cut == removeDependentFromOwners(g, u, g[u].owners)
           new == [cut EXCEPT ![u] = AbsentNode]
           requeued == (g[u].dependents \cup waiting) \ {u}
           remembered == IF g[u].dependents # {} THEN {[uid |-> u, name |-> e.name]} ELSE {}
<1>1. u \in W /\ u \in Uids /\ e.name \in Words
  BY DEF News, GraphNews, Known
<1>2. g[u] \in GraphNodes(W)
  BY <1>1 DEF Graphs
<1>3. requeued \in SUBSET W
  <2>1. g[u].dependents \subseteq W /\ g[u].owners \subseteq Refs(W)
    BY <1>2 DEF GraphNodes
  <2>2. waiting \subseteq W
    BY <2>1 DEF RefersTo, Refs
  <2> QED BY <2>1, <2>2
<1>4. cut \in Graphs
  BY CutsTyped
<1>5. new \in Graphs
  <2> HIDE DEF cut
  <2> QED BY <1>4, AbsentNodeTyped DEF Graphs
<1>6. remembered \in SUBSET Absentees(objs)
  <2>1. ~There(objs, u, e.name)
    BY DEF News
  <2>2. [uid |-> u, name |-> e.name] \in Absentees(objs)
    BY <1>1, <2>1 DEF Absentees, Items
  <2> QED BY <2>2
<1>7. Processed(new, requeued, {}, remembered)
  BY DEF Removed
<1> HIDE DEF new, requeued, remembered
<1> QED BY <1>3, <1>5, <1>6, <1>7, ProcessedSound

LEMMA VirtualSound ==
    ASSUME GraphSound, UNCHANGED objs, NEW e \in News(objs), e.type = "virtual", ProcessVirtualDelete(e)
    PROVE  GraphSound'
<1> DEFINE W == Known(objs)
           node == graph[e.uid]
           yes == matching(graph, e.uid, e.name)
           no  == nonmatching(graph, e.uid, e.name)
           remembered == IF yes = {} THEN {} ELSE {[uid |-> e.uid, name |-> e.name]}
           named == {r.name : r \in {q \in UNION {graph[d].owners : d \in no} : q.uid = e.uid}}
                    \ {e.name}
<1>1. e.uid \in W /\ e.uid \in Uids /\ e.name \in Words /\ graph \in Graphs
  BY DEF News, GraphNews, Known, GraphSound, QueuesSound, Graphs
<1>2. node \in GraphNodes(W) /\ node.dependents \subseteq W
  BY <1>1 DEF Graphs, GraphNodes
<1>3. yes \subseteq W /\ no \subseteq W
  BY <1>2 DEF matching, nonmatching
<1>4. remembered \in SUBSET Absentees(objs)
  <2>1. ~There(objs, e.uid, e.name)
    BY DEF News
  <2>2. [uid |-> e.uid, name |-> e.name] \in Absentees(objs)
    BY <1>1, <2>1 DEF Absentees, Items
  <2> QED BY <2>2
<1>5. \A n \in named : n \in Words
  <2>1. \A d \in no : graph[d].owners \subseteq Refs(W)
    BY <1>1, <1>3 DEF Graphs, GraphNodes, Known
  <2>2. \A r \in Refs(W) : r.name \in Words
    BY DEF Refs
  <2> QED BY <2>1, <2>2
<1>6. \A n \in Words : [graph EXCEPT ![e.uid].name = n] \in Graphs
  <2>1. \A n \in Words : [graph[e.uid] EXCEPT !.name = n] \in GraphNodes(W)
    BY <1>2 DEF GraphNodes
  <2> QED BY <1>1, <2>1 DEF Graphs
<1>7. ProcessVirtualDelete(e) <=>
        CASE ~node.in -> UNCHANGED queues
          [] node.in /\ node.virtual /\ no # {} /\ node.name = e.name ->
                \E n \in named : /\ Processed([graph EXCEPT ![e.uid].name = n],
                                              yes \cup {e.uid}, {}, remembered)
          [] node.in /\ node.virtual /\ no # {} /\ node.name # e.name ->
                Processed(graph, yes, {}, remembered)
          [] node.in /\ ~node.virtual /\ node.name # e.name ->
                Processed(graph, yes, {}, remembered)
          [] OTHER -> Removed(graph, e.uid, e.name)
  BY DEF ProcessVirtualDelete
<1> HIDE DEF yes, no, remembered, named
<1>8. \/ UNCHANGED queues
      \/ \E n \in named : Processed([graph EXCEPT ![e.uid].name = n], yes \cup {e.uid}, {}, remembered)
      \/ Processed(graph, yes, {}, remembered)
      \/ Removed(graph, e.uid, e.name)
  BY <1>7
<1>9. CASE UNCHANGED queues
  BY <1>9 DEF queues, GraphSound
<1>10. CASE \E n \in named : Processed([graph EXCEPT ![e.uid].name = n], yes \cup {e.uid}, {}, remembered)
  <2>1. PICK n \in named : Processed([graph EXCEPT ![e.uid].name = n], yes \cup {e.uid}, {}, remembered)
    BY <1>10
  <2> QED BY <1>1, <1>3, <1>4, <1>5, <1>6, <2>1, ProcessedSound
<1>11. CASE Processed(graph, yes, {}, remembered)
  BY <1>1, <1>3, <1>4, <1>11, ProcessedSound
<1>12. CASE Removed(graph, e.uid, e.name)
  BY <1>1, <1>12, RemovedSound
<1> QED BY <1>8, <1>9, <1>10, <1>11, <1>12

LEMMA BuilderKeeps == ASSUME GCInv, ProcessGraphChanges PROVE GCInv'
<1> DEFINE e == Head(graphChanges)
<1>1. UNCHANGED <<objs, seen, deleter, orphaner>> /\ graphChanges # <<>> /\ graphChanges' = Tail(graphChanges)
  BY DEF ProcessGraphChanges
<1>2. graphChanges \in Seq(News(objs)) /\ GraphSound
  BY DEF GCInv, ApiSound, GraphSound
<1>3. e \in News(objs) /\ graphChanges' \in Seq(News(objs))
  BY <1>1, <1>2
<1>4. \/ e.type = "delete" /\ ProcessDeleted(e)
      \/ e.type = "virtual" /\ ProcessVirtualDelete(e)
      \/ ProcessAdded(e) \/ ProcessUpdated(e)
  BY DEF ProcessGraphChanges
<1> HIDE DEF e
<1>5. GraphSound'
  <2>1. CASE e.type = "delete" /\ ProcessDeleted(e)
    <3>1. CASE UNCHANGED queues
      BY <1>1, <1>2, <3>1 DEF queues, GraphSound
    <3>2. CASE Removed(Observed(e), e.uid, e.name)
      BY <1>1, <1>2, <1>3, <2>1, <3>2, RemovedSound, ObservedTyped
    <3> QED BY <2>1, <3>1, <3>2 DEF ProcessDeleted
  <2>2. CASE e.type = "virtual" /\ ProcessVirtualDelete(e)
    BY <1>1, <1>2, <1>3, <2>2, VirtualSound
  <2>3. CASE ProcessAdded(e) \/ ProcessUpdated(e)
    BY <1>1, <1>2, <1>3, <2>3, AddedSound, UpdatedSound
  <2> QED BY <1>4, <2>1, <2>2, <2>3
<1> QED BY <1>1, <1>3, <1>5 DEF GCInv, ApiSound, GraphSound

----
\* The workers.  What each does to its own state, and to what it asks of the API.
LEMMA WorkerWrites ==
    ASSUME GCInv, Lasting(objs, objs'), ApiSound(objs', seen', graphChanges'),
           DeleterSound(objs', deleter'), OrphanerSound(objs', orphaner'), UNCHANGED graph,
           absentOwnerCache' \subseteq Absentees(objs), attemptToDelete' \subseteq Items(Known(objs)),
           attemptToOrphan' \subseteq Known(objs)
    PROVE  GCInv'
<1>1. objs \in [Uids -> Objects(Known(objs))] /\ graph \in [Uids -> GraphNodes(Known(objs))]
  BY DEF GCInv, ApiSound, QueuesSound
<1>2. /\ Known(objs) \subseteq Known(objs') /\ Absentees(objs) \subseteq Absentees(objs')
  BY <1>1, KnowledgeLasts
<1>3. /\ Items(Known(objs)) \subseteq Items(Known(objs'))
      /\ GraphNodes(Known(objs)) \subseteq GraphNodes(Known(objs'))
  BY <1>2, TypesGrow
<1>4. QueuesSound(objs', graph', absentOwnerCache', attemptToDelete', attemptToOrphan')
  BY <1>1, <1>2, <1>3 DEF QueuesSound
<1> QED BY <1>4 DEF GCInv

LEMMA StillLasts == ASSUME UNCHANGED objs PROVE Lasting(objs, objs') /\ KeepsWaiting(objs, objs')
BY DEF Lasting, KeepsWaiting

LEMMA WorkerSteps ==
    ASSUME GCInv, UNCHANGED <<objs, graph>>, ApiSound(objs, seen', graphChanges'),
           DeleterSound(objs, deleter'), OrphanerSound(objs, orphaner'),
           absentOwnerCache' \subseteq Absentees(objs), attemptToDelete' \subseteq Items(Known(objs)),
           attemptToOrphan' \subseteq Known(objs)
    PROVE  GCInv'
BY WorkerWrites, StillLasts

\* What holds of every worker before its step.
LEMMA WorkersTyped ==
    ASSUME GCInv
    PROVE  /\ objs \in [Uids -> Objects(Known(objs))] /\ seen \in [AllNames -> Objects(Known(objs))]
           /\ ApiSound(objs, seen, graphChanges) /\ graph \in [Uids -> GraphNodes(Known(objs))]
           /\ deleter \in Deletions(Known(objs)) /\ OrphanerSound(objs, orphaner)
           /\ deleter.pc # "idle" => deleter.item \in Items(Known(objs)) /\ deleter.item.uid \in Known(objs)
           /\ absentOwnerCache \subseteq Absentees(objs) /\ attemptToDelete \subseteq Items(Known(objs))
           /\ attemptToOrphan \subseteq Known(objs) /\ Known(objs) \subseteq Uids
BY DEF GCInv, ApiSound, QueuesSound, DeleterSound, Items, Known

LEMMA NoDeletionSound == ASSUME NEW o PROVE DeleterSound(o, NoDeletion) /\ NoDeletion \in Deletions(Known(o))
<1>1. Unborn \in Objects(Known(o))
  BY GoneTyped
<1>2. NoDeletion \in Deletions(Known(o)) /\ NoDeletion.pc = "idle"
  BY <1>1 DEF NoDeletion, Deletions, DeleterPlaces, Policies
<1> QED BY <1>2 DEF DeleterSound, Judged

LEMMA DeletionEnds ==
    ASSUME GCInv, deleter.pc # "idle", Settle \/ Requeue(deleter) \/ Forget
    PROVE  /\ deleter' = NoDeletion /\ attemptToDelete' \subseteq Items(Known(objs))
           /\ \A o : DeleterSound(o, deleter')
<1>1. attemptToDelete \subseteq Items(Known(objs)) /\ deleter.item \in Items(Known(objs))
  BY WorkersTyped
<1>2. deleter' = NoDeletion /\ attemptToDelete' \subseteq Items(Known(objs))
  BY <1>1 DEF Settle, Requeue, Forget, Deleting
<1> QED BY <1>2, NoDeletionSound

\* The worker says that nothing has an identity.
LEMMA VirtualDeleteSound ==
    ASSUME ApiSound(objs, seen, graphChanges), NEW i \in Absentees(objs), VirtualDelete(i)
    PROVE  ApiSound(objs, seen, graphChanges')
<1> DEFINE e == [type |-> "virtual", uid |-> i.uid, name |-> i.name, obj |-> Unborn, old |-> Unborn]
<1>1. Unborn \in Objects(Known(objs)) /\ i.uid \in Known(objs) /\ i.name \in Words
  BY GoneTyped DEF Absentees, Items
<1>2. e \in GraphNews(Known(objs))
  BY <1>1 DEF GraphNews
<1>3. e \in News(objs)
  BY <1>2 DEF News, Absentees
<1>4. graphChanges' = Append(graphChanges, e) /\ graphChanges \in Seq(News(objs))
  BY DEF VirtualDelete, ApiSound
<1> HIDE DEF e
<1>5. graphChanges' \in Seq(News(objs))
  BY <1>3, <1>4, NewsTyped
<1> QED BY <1>5 DEF ApiSound

LEMMA AbsentWhenNotHeld ==
    ASSUME GCInv, deleter.pc # "idle",
           deleter.item.uid \notin Held(deleter.item.name) \/ Held(deleter.item.name) = {}
    PROVE  deleter.item \in Absentees(objs)
BY WorkersTyped DEF Absentees, Held, There, Live

LEMMA AttemptKeeps ==
    ASSUME GCInv, NEW item \in attemptToDelete, AttemptToDelete(item) PROVE GCInv'
<1> DEFINE w == [NoDeletion EXCEPT !.pc = "get", !.item = item]
<1>1. item \in Items(Known(objs)) /\ UNCHANGED <<apiVars, graph, absentOwnerCache, attemptToOrphan, orphaner>>
  BY WorkersTyped DEF AttemptToDelete
<1>2. w \in Deletions(Known(objs)) /\ w.pc = "get" /\ w.item = item
  BY <1>1, NoDeletionSound DEF Deletions, DeleterPlaces
<1>3. deleter' = NoDeletion \/ deleter' = w
  BY DEF AttemptToDelete, Deleting
<1> HIDE DEF w
<1>4. DeleterSound(objs, w)
  BY <1>1, <1>2 DEF DeleterSound, Judged
<1>5. DeleterSound(objs, deleter')
  BY <1>3, <1>4, NoDeletionSound
<1>6. attemptToDelete' \subseteq attemptToDelete
  BY DEF AttemptToDelete
<1> QED BY <1>1, <1>5, <1>6, WorkersTyped, WorkerSteps DEF apiVars

LEMMA GetLatestKeeps == ASSUME GCInv, GetLatest PROVE GCInv'
<1> DEFINE w == deleter
           u == w.item.uid
           W == Known(objs)
           blocking == blockingDependents(u)
           judging == [w EXCEPT !.pc = "classify", !.read = objs[u], !.todo = objs[u].owners]
<1>1. /\ w \in Deletions(W) /\ w.pc = "get" /\ w.item \in Items(W) /\ u \in W /\ u \in Uids
      /\ UNCHANGED <<objs, seen, graph, absentOwnerCache, attemptToOrphan, orphaner>>
  BY WorkersTyped DEF GetLatest
<1>2. \/ u \notin Held(w.item.name) /\ VirtualDelete(w.item) /\ Forget
      \/ /\ UNCHANGED graphChanges
         /\ \/ Deleting([w EXCEPT !.pc = "unfinalize"]) /\ UNCHANGED attemptToDelete
            \/ /\ Deleting(NoDeletion)
               /\ attemptToDelete' = attemptToDelete \cup
                      Ids(graph, {d \in blocking : ~graph[d].deletingDependents})
            \/ Settle
            \/ Deleting(judging) /\ UNCHANGED attemptToDelete
  BY DEF GetLatest
<1>3. CASE u \notin Held(w.item.name) /\ VirtualDelete(w.item) /\ Forget
  <2>1. ApiSound(objs, seen, graphChanges')
    BY <1>1, <1>3, AbsentWhenNotHeld, VirtualDeleteSound, WorkersTyped
  <2>2. DeleterSound(objs, deleter') /\ attemptToDelete' \subseteq Items(W)
    BY <1>1, <1>3, DeletionEnds
  <2> QED BY <1>1, <2>1, <2>2, WorkersTyped, WorkerSteps
<1>4. CASE UNCHANGED graphChanges /\ Settle
  <2>1. DeleterSound(objs, deleter') /\ attemptToDelete' \subseteq Items(W)
    BY <1>1, <1>4, DeletionEnds
  <2> QED BY <1>1, <1>4, <2>1, WorkersTyped, WorkerSteps
<1>5. CASE UNCHANGED graphChanges /\ Deleting([w EXCEPT !.pc = "unfinalize"]) /\ UNCHANGED attemptToDelete
  <2>1. deleter' \in Deletions(W) /\ deleter'.pc = "unfinalize" /\ deleter'.item = w.item
    BY <1>1, <1>5 DEF Deleting, Deletions, DeleterPlaces
  <2>2. DeleterSound(objs, deleter')
    BY <1>1, <2>1 DEF DeleterSound, Judged
  <2> QED BY <1>1, <1>5, <2>2, WorkersTyped, WorkerSteps
<1>6. CASE /\ UNCHANGED graphChanges /\ Deleting(NoDeletion)
           /\ attemptToDelete' = attemptToDelete \cup
                      Ids(graph, {d \in blocking : ~graph[d].deletingDependents})
  <2>1. blocking \subseteq W
    BY <1>1, WorkersTyped DEF blockingDependents, GraphNodes
  <2>2. Ids(graph, {d \in blocking : ~graph[d].deletingDependents}) \subseteq Items(W)
    <3>1. \A d \in W : graph[d].name \in Words
      BY WorkersTyped DEF GraphNodes
    <3> HIDE DEF blocking, W
    <3> QED BY <2>1, <3>1 DEF Ids, Items
  <2>3. DeleterSound(objs, deleter')
    BY <1>6, NoDeletionSound DEF Deleting
  <2> QED BY <1>1, <1>6, <2>2, <2>3, WorkersTyped, WorkerSteps
<1>7. CASE UNCHANGED graphChanges /\ Deleting(judging) /\ UNCHANGED attemptToDelete
  <2>1. objs[u] \in Objects(W) /\ objs[u].owners \in SUBSET Refs(W)
    BY <1>1, WorkersTyped DEF Objects
  <2>2. /\ judging \in Deletions(W) /\ judging.pc = "classify" /\ judging.item = w.item
        /\ judging.read = objs[u] /\ judging.todo = objs[u].owners
    BY <1>1, <2>1 DEF Deletions, DeleterPlaces
  <2> HIDE DEF judging
  <2>3. DeleterSound(objs, judging)
    BY <1>1, <2>2 DEF DeleterSound, Judged
  <2> QED BY <1>1, <1>7, <2>3, WorkersTyped, WorkerSteps DEF Deleting
<1> QED BY <1>2, <1>3, <1>4, <1>5, <1>6, <1>7

LEMMA ClassifyKeeps == ASSUME GCInv, NEW r \in deleter.todo, classifyReferences(r) PROVE GCInv'
<1> DEFINE W == Known(objs)
           w == [deleter EXCEPT !.todo = @ \ {r}]
           i == [uid |-> r.uid, name |-> r.name]
<1>1. /\ deleter \in Deletions(W) /\ deleter.pc = "classify" /\ deleter.item \in Items(W)
      /\ UNCHANGED <<apiVars, graph, attemptToDelete, attemptToOrphan, orphaner>>
  BY WorkersTyped DEF classifyReferences
<1>2. r \in Refs(W) /\ i \in Items(W)
  BY <1>1 DEF Deletions, Refs, Items
<1>3. /\ w \in Deletions(W) /\ w.pc = "classify" /\ w.item = deleter.item /\ w.read = deleter.read
      /\ w.todo = deleter.todo \ {r} /\ w.solid = deleter.solid
  BY <1>1 DEF Deletions
<1> HIDE DEF w
<1>4. /\ [w EXCEPT !.dangling = w.dangling \cup {r}] \in Deletions(W)
      /\ [w EXCEPT !.waiting = w.waiting \cup {r}] \in Deletions(W)
      /\ [w EXCEPT !.solid = w.solid \cup {r}] \in Deletions(W)
  BY <1>2, <1>3 DEF Deletions
<1>5. \/ deleter' = [w EXCEPT !.dangling = w.dangling \cup {r}] /\ IsDangling(r)
      \/ deleter' = [w EXCEPT !.waiting = w.waiting \cup {r}] /\ WaitsForDependents(r.uid)
      \/ deleter' = [w EXCEPT !.solid = w.solid \cup {r}]
  BY DEF classifyReferences, Deleting, w
<1>6. /\ deleter' \in Deletions(W) /\ deleter'.pc = "classify" /\ deleter'.item = deleter.item
      /\ deleter'.read = deleter.read /\ deleter'.todo = deleter.todo \ {r}
      /\ deleter.solid \subseteq deleter'.solid
      /\ r \in deleter'.solid \/ IsDangling(r) \/ WaitsForDependents(r.uid)
  <2>1. CASE deleter' = [w EXCEPT !.dangling = w.dangling \cup {r}] /\ IsDangling(r)
    BY <1>3, <1>4, <2>1 DEF Deletions
  <2>2. CASE deleter' = [w EXCEPT !.waiting = w.waiting \cup {r}] /\ WaitsForDependents(r.uid)
    BY <1>3, <1>4, <2>2 DEF Deletions
  <2>3. CASE deleter' = [w EXCEPT !.solid = w.solid \cup {r}]
    <3>1. deleter' \in Deletions(W)
      BY <1>4, <2>3
    <3>2. deleter'.solid = w.solid \cup {r}
      BY <1>3, <2>3 DEF Deletions
    <3>3. /\ deleter'.pc = w.pc /\ deleter'.item = w.item /\ deleter'.read = w.read
          /\ deleter'.todo = w.todo
      BY <1>3, <2>3 DEF Deletions
    <3> QED BY <1>3, <3>1, <3>2, <3>3
  <2> QED BY <1>5, <2>1, <2>2, <2>3
<1>7. IsDangling(r) => i \in Absentees(objs)
  <2>1. CASE i \in absentOwnerCache
    BY <2>1, WorkersTyped
  <2>2. CASE r.uid \notin Held(r.name)
    BY <1>2, <2>2 DEF Absentees, Held, There, Live, Known, Refs
  <2> QED BY <2>1, <2>2 DEF IsDangling
<1>8. IsDangling(r) \/ WaitsForDependents(r.uid) => ~Stays(objs, r)
  BY <1>7 DEF Absentees, Stays, WaitsForDependents
<1>9. DeleterSound(objs, deleter')
  BY <1>1, <1>6, <1>8 DEF DeleterSound, GCInv, Judged
<1>10. absentOwnerCache' \subseteq Absentees(objs)
  BY <1>7, WorkersTyped DEF classifyReferences
<1> QED BY <1>1, <1>9, <1>10, WorkersTyped, WorkerSteps DEF apiVars

LEMMA DecideKeeps == ASSUME GCInv, Decide PROVE GCInv'
<1> DEFINE W == Known(objs)
           w == deleter
           cut == {r.uid : r \in w.dangling \cup w.waiting}
           patching == [w EXCEPT !.pc = "patch", !.refs = cut]
<1>1. /\ w \in Deletions(W) /\ w.pc = "classify" /\ w.todo = {} /\ w.item \in Items(W)
      /\ UNCHANGED <<apiVars, graph, absentOwnerCache, attemptToOrphan, orphaner>>
  BY WorkersTyped DEF Decide
<1>2. \/ Settle
      \/ Deleting(patching) /\ UNCHANGED attemptToDelete
      \/ w.solid = {} /\ Deleting(Decided(w)) /\ UNCHANGED attemptToDelete
  BY DEF Decide
<1>3. CASE Settle
  BY <1>1, <1>3, DeletionEnds, WorkersTyped, WorkerSteps DEF apiVars
<1>4. CASE Deleting(patching) /\ UNCHANGED attemptToDelete
  <2>1. cut \in SUBSET W
    BY <1>1 DEF Deletions, Refs
  <2> HIDE DEF cut
  <2>2. patching \in Deletions(W) /\ patching.pc = "patch" /\ patching.item = w.item
    BY <1>1, <2>1 DEF Deletions, DeleterPlaces
  <2> HIDE DEF patching
  <2>3. DeleterSound(objs, patching)
    BY <1>1, <2>2 DEF DeleterSound, Judged
  <2> QED BY <1>1, <1>4, <2>3, WorkersTyped, WorkerSteps DEF apiVars, Deleting
<1>5. CASE w.solid = {} /\ Deleting(Decided(w)) /\ UNCHANGED attemptToDelete
  <2>1. PICK pc \in {"unblock", "delete"}, policy \in Policies :
          Decided(w) = [w EXCEPT !.policy = policy, !.pc = pc]
    BY <1>1 DEF Decided, Policies, Deletions
  <2>2. /\ Decided(w) \in Deletions(W) /\ Decided(w).pc = pc /\ Decided(w).item = w.item
        /\ Decided(w).read = w.read
    BY <1>1, <2>1 DEF Deletions, DeleterPlaces
  <2>3. \A r \in w.read.owners : ~Stays(objs, r)
    BY <1>1, <1>5 DEF GCInv, DeleterSound
  <2>4. DeleterSound(objs, Decided(w))
    BY <1>1, <2>2, <2>3 DEF DeleterSound
  <2> QED BY <1>1, <1>5, <2>4, WorkersTyped, WorkerSteps DEF apiVars, Deleting
<1> QED BY <1>2, <1>3, <1>4, <1>5

LEMMA PatchedSound ==
    ASSUME GCInv, GCAssumption, NEW u \in Uids, Live(u), NEW refs, Put(u, Patched(u, refs))
    PROVE  /\ Patched(u, refs) \in Objects(Known(objs)) /\ ApiSound(objs', seen', graphChanges')
           /\ Lasting(objs, objs') /\ KeepsWaiting(objs, objs')
<1> DEFINE owners == IF u \in Slices THEN Without(Cached(u), refs) ELSE Without(objs[u].owners, refs)
<1>1. objs[u] \in Objects(Known(objs)) /\ seen[NameOf[u]] \in Objects(Known(objs))
  BY WorkersTyped DEF AllNames
<1>2. Cached(u) \subseteq Refs(Known(objs)) /\ objs[u].owners \subseteq Refs(Known(objs))
  BY <1>1 DEF Cached, Objects
<1>3. owners \in SUBSET Refs(Known(objs))
  BY <1>2 DEF Without
<1>4. Patched(u, refs) = [objs[u] EXCEPT !.owners = owners]
  BY <1>1 DEF Patched, Objects
<1> HIDE DEF owners
<1> QED BY <1>3, <1>4, OwnersSound, WorkersTyped

\* The answer to a request, which is what the worker caches.
LEMMA AnswerSound ==
    ASSUME GCInv, deleter.pc # "idle", NEW p, Lasting(objs, p), KeepsWaiting(objs, p),
           NEW x \in Objects(Known(objs)), NEW after \in {"done", "delete"},
           after = "delete" => Judged(deleter)
    PROVE  DeleterSound(p, [deleter EXCEPT !.pc = "answered", !.cache = x, !.after = after])
<1> DEFINE w == [deleter EXCEPT !.pc = "answered", !.cache = x, !.after = after]
<1>1. /\ w \in Deletions(Known(objs)) /\ w.pc = "answered" /\ w.item = deleter.item
      /\ w.read = deleter.read /\ w.after = after /\ deleter.item \in Items(Known(objs))
  BY WorkersTyped DEF Deletions, DeleterPlaces
<1> HIDE DEF w
<1>2. DeleterSound(objs, w)
  BY <1>1 DEF DeleterSound, GCInv, Judged
<1> QED BY <1>2, DeleterLasts, WorkersTyped DEF w

\* One that need not keep others waiting: nothing is judged any more.
LEMMA DoneSound ==
    ASSUME GCInv, deleter.pc # "idle", NEW p, Lasting(objs, p), NEW x \in Objects(Known(objs))
    PROVE  DeleterSound(p, [deleter EXCEPT !.pc = "answered", !.cache = x, !.after = "done"])
<1> DEFINE w == [deleter EXCEPT !.pc = "answered", !.cache = x, !.after = "done"]
<1>1. /\ w \in Deletions(Known(objs)) /\ w.pc = "answered" /\ w.item = deleter.item
      /\ w.after = "done" /\ deleter.item \in Items(Known(objs))
  BY WorkersTyped DEF Deletions, DeleterPlaces
<1>2. /\ Deletions(Known(objs)) \subseteq Deletions(Known(p))
      /\ Items(Known(objs)) \subseteq Items(Known(p))
  BY KnowledgeLasts, TypesGrow, WorkersTyped
<1> HIDE DEF w
<1>3. DeleterSound(p, w)
  BY <1>1, <1>2 DEF DeleterSound, Judged
<1> QED BY <1>3 DEF w

LEMMA PatchKeeps == ASSUME GCAssumption, GCInv, PatchOwners PROVE GCInv'
<1> DEFINE w == deleter
           u == w.item.uid
           new == Patched(u, w.refs)
<1>1. /\ w.pc = "patch" /\ u \in Uids /\ OrphanerSound(objs, orphaner)
      /\ UNCHANGED <<graph, absentOwnerCache, attemptToOrphan, orphaner>>
  BY WorkersTyped DEF PatchOwners
<1>2. CASE Requeue(w) /\ UNCHANGED apiVars
  BY <1>1, <1>2, DeletionEnds, WorkersTyped, WorkerSteps DEF apiVars
<1>3. CASE /\ Live(u) /\ Put(u, new) /\ UNCHANGED attemptToDelete
           /\ Deleting([w EXCEPT !.pc = "answered", !.cache = new, !.after = "done"])
  <2>1. /\ new \in Objects(Known(objs)) /\ ApiSound(objs', seen', graphChanges')
        /\ Lasting(objs, objs') /\ KeepsWaiting(objs, objs')
    BY <1>1, <1>3, PatchedSound
  <2> HIDE DEF new
  <2>2. DeleterSound(objs', deleter')
    BY <1>1, <1>3, <2>1, DoneSound DEF Deleting
  <2>3. OrphanerSound(objs', orphaner')
    BY <1>1, <2>1, OthersLast, WorkersTyped DEF GCInv
  <2> QED BY <1>1, <1>3, <2>1, <2>2, <2>3, WorkersTyped, WorkerWrites
<1> QED BY <1>2, <1>3 DEF PatchOwners

LEMMA UnblockKeeps == ASSUME GCAssumption, GCInv, UnblockOwners PROVE GCInv'
<1> DEFINE w == deleter
           W == Known(objs)
<1>1. /\ w \in Deletions(W) /\ w.pc = "unblock" /\ w.item \in Items(W) /\ Judged(w)
      /\ UNCHANGED <<queues, orphaner>>
  BY WorkersTyped DEF UnblockOwners, Judged
<1>2. CASE Deleting([w EXCEPT !.pc = "delete"]) /\ UNCHANGED apiVars
  <2>1. /\ deleter' \in Deletions(W) /\ deleter'.pc = "delete" /\ deleter'.item = w.item
        /\ deleter'.read = w.read
    BY <1>1, <1>2 DEF Deleting, Deletions, DeleterPlaces
  <2>2. DeleterSound(objs, deleter')
    BY <1>1, <2>1 DEF DeleterSound, GCInv
  <2> QED BY <1>1, <1>2, <2>2, WorkersTyped, WorkerSteps DEF apiVars, queues
<1>3. CASE \E u \in Held(w.item.name) :
              LET new == [objs[u] EXCEPT !.owners = {[r EXCEPT !.block = FALSE] : r \in objs[u].owners}]
              IN  Put(u, new) /\ Deleting([w EXCEPT !.pc = "answered", !.cache = new,
                                                    !.after = "delete"])
  <2>1. PICK u \in Held(w.item.name) :
              LET new == [objs[u] EXCEPT !.owners = {[r EXCEPT !.block = FALSE] : r \in objs[u].owners}]
              IN  Put(u, new) /\ Deleting([w EXCEPT !.pc = "answered", !.cache = new,
                                                    !.after = "delete"])
    BY <1>3
  <2> DEFINE owners == {[r EXCEPT !.block = FALSE] : r \in objs[u].owners}
             new == [objs[u] EXCEPT !.owners = owners]
  <2>2. Put(u, new) /\ Deleting([w EXCEPT !.pc = "answered", !.cache = new, !.after = "delete"])
    BY <2>1
  <2>3. u \in Uids /\ Live(u) /\ objs[u] \in Objects(W)
    BY WorkersTyped DEF Held
  <2>4. owners \in SUBSET Refs(W)
    <3>1. \A r \in Refs(W) : [r EXCEPT !.block = FALSE] \in Refs(W)
      BY DEF Refs
    <3>2. objs[u].owners \subseteq Refs(W)
      BY <2>3 DEF Objects
    <3> QED BY <3>1, <3>2
  <2> HIDE DEF owners
  <2>5. /\ new \in Objects(W) /\ ApiSound(objs', seen', graphChanges')
        /\ Lasting(objs, objs') /\ KeepsWaiting(objs, objs')
    BY <2>2, <2>3, <2>4, OwnersSound, WorkersTyped
  <2> HIDE DEF new
  <2>6. DeleterSound(objs', deleter')
    BY <1>1, <2>2, <2>5, AnswerSound DEF Deleting
  <2>7. OrphanerSound(objs', orphaner')
    BY <1>1, <2>5, OthersLast, WorkersTyped DEF GCInv
  <2> QED BY <1>1, <2>5, <2>6, <2>7, WorkersTyped, WorkerWrites DEF queues
<1> QED BY <1>2, <1>3 DEF UnblockOwners

LEMMA UnfinalizedSound ==
    ASSUME GCAssumption, GCInv, NEW u \in Uids, Live(u), NEW finalizer, Put(u, RemovesIt(objs[u], finalizer))
    PROVE  /\ RemovesIt(objs[u], finalizer) \in Objects(Known(objs))
           /\ ApiSound(objs', seen', graphChanges') /\ Lasting(objs, objs')
           /\ finalizer = "orphan" => KeepsWaiting(objs, objs')
<1> DEFINE x == RemovesIt(objs[u], finalizer)
<1>1. objs[u] \in Objects(Known(objs)) /\ objs[u].state = "live"
  BY WorkersTyped DEF Live
<1>2. /\ x \in Objects(Known(objs)) /\ x.state = "live" /\ (x.deleting <=> objs[u].deleting)
      /\ x.finalizers = objs[u].finalizers \ {finalizer}
  BY <1>1 DEF RemovesIt, Objects
<1> HIDE DEF x
<1>3. finalizer = "orphan" => (Waiting(objs[u]) => Waiting(x))
  BY <1>2 DEF Waiting
<1>4. /\ ApiSound(objs', seen', graphChanges') /\ Lasting(objs, objs')
      /\ finalizer = "orphan" => KeepsWaiting(objs, objs')
  BY <1>2, <1>3, PutSound, WorkersTyped DEF x
<1> QED BY <1>2, <1>4 DEF x

LEMMA UnfinalizeKeeps == ASSUME GCAssumption, GCInv, UnfinalizeOwner PROVE GCInv'
<1> DEFINE w == deleter
<1>1. w.pc = "unfinalize" /\ UNCHANGED <<graph, absentOwnerCache, attemptToOrphan, orphaner>>
  BY DEF UnfinalizeOwner
<1>2. CASE Settle /\ UNCHANGED apiVars
  BY <1>1, <1>2, DeletionEnds, WorkersTyped, WorkerSteps DEF apiVars
<1>3. CASE \E u \in Held(w.item.name) :
              LET new == RemovesIt(objs[u], "foregroundDeletion")
              IN  Put(u, new) /\ Deleting([w EXCEPT !.pc = "answered", !.cache = new,
                                                    !.after = "done"])
                              /\ UNCHANGED attemptToDelete
  <2>1. PICK u \in Held(w.item.name) :
              LET new == RemovesIt(objs[u], "foregroundDeletion")
              IN  Put(u, new) /\ Deleting([w EXCEPT !.pc = "answered", !.cache = new,
                                                    !.after = "done"])
                              /\ UNCHANGED attemptToDelete
    BY <1>3
  <2> DEFINE new == RemovesIt(objs[u], "foregroundDeletion")
  <2>2. /\ Put(u, new) /\ Deleting([w EXCEPT !.pc = "answered", !.cache = new, !.after = "done"])
        /\ UNCHANGED attemptToDelete
    BY <2>1
  <2>3. u \in Uids /\ Live(u)
    BY DEF Held
  <2>4. new \in Objects(Known(objs)) /\ ApiSound(objs', seen', graphChanges') /\ Lasting(objs, objs')
    BY <2>2, <2>3, UnfinalizedSound
  <2> HIDE DEF new
  <2>5. DeleterSound(objs', deleter')
    BY <1>1, <2>2, <2>4, DoneSound DEF Deleting
  <2>6. OrphanerSound(objs', orphaner')
    BY <1>1, <2>4, OthersLast, WorkersTyped DEF GCInv
  <2> QED BY <1>1, <2>2, <2>4, <2>5, <2>6, WorkersTyped, WorkerWrites
<1> QED BY <1>2, <1>3 DEF UnfinalizeOwner

\* cacheObject
LEMMA CachedSound ==
    ASSUME ApiSound(objs, seen, graphChanges), NEW n, NEW x \in Objects(Known(objs)),
           seen' = [seen EXCEPT ![n] = x], UNCHANGED graphChanges
    PROVE  ApiSound(objs, seen', graphChanges')
BY DEF ApiSound

LEMMA DeleterAnsweredKeeps == ASSUME GCInv, DeleterAnswered PROVE GCInv'
<1> DEFINE w == deleter
           next == [w EXCEPT !.pc = "delete", !.cache = Unborn]
<1>1. /\ w \in Deletions(Known(objs)) /\ w.pc = "answered" /\ w.item \in Items(Known(objs))
      /\ w.cache \in Objects(Known(objs)) /\ seen' = [seen EXCEPT ![w.item.name] = w.cache]
      /\ UNCHANGED <<objs, graphChanges, graph, absentOwnerCache, attemptToOrphan, orphaner>>
  BY WorkersTyped DEF DeleterAnswered, Deletions
<1>2. ApiSound(objs, seen', graphChanges')
  BY <1>1, CachedSound, WorkersTyped
<1>3. CASE Settle
  BY <1>1, <1>2, <1>3, DeletionEnds, WorkersTyped, WorkerSteps
<1>4. CASE w.after = "delete" /\ Deleting(next) /\ UNCHANGED attemptToDelete
  <2>1. Unborn \in Objects(Known(objs))
    BY GoneTyped
  <2>2. next \in Deletions(Known(objs)) /\ next.pc = "delete" /\ next.item = w.item /\ next.read = w.read
    BY <1>1, <2>1 DEF Deletions, DeleterPlaces
  <2> HIDE DEF next
  <2>3. DeleterSound(objs, next)
    BY <1>1, <1>4, <2>2 DEF DeleterSound, GCInv, Judged
  <2> QED BY <1>1, <1>2, <1>4, <2>3, WorkersTyped, WorkerSteps DEF Deleting
<1> QED BY <1>3, <1>4 DEF DeleterAnswered

LEMMA DeleteItemKeeps == ASSUME GCAssumption, GCInv, DeleteItem PROVE GCInv'
<1> DEFINE w == deleter
           u == w.item.uid
           again == [w EXCEPT !.pc = "recheck"]
<1>1. /\ w \in Deletions(Known(objs)) /\ w.pc = "delete" /\ w.item \in Items(Known(objs)) /\ u \in Uids
      /\ UNCHANGED <<graph, absentOwnerCache, attemptToOrphan, orphaner>>
  BY WorkersTyped DEF DeleteItem
<1>2. \/ /\ Held(w.item.name) = {} /\ VirtualDelete(w.item) /\ Forget
         /\ UNCHANGED <<objs, seen, heirs>>
      \/ Live(u) /\ Delete(u, w.policy) /\ Settle
      \/ Deleting(again) /\ UNCHANGED <<apiVars, attemptToDelete>>
      \/ Requeue(w) /\ UNCHANGED apiVars
  BY DEF DeleteItem
<1>3. CASE /\ Held(w.item.name) = {} /\ VirtualDelete(w.item) /\ Forget
           /\ UNCHANGED <<objs, seen, heirs>>
  <2>1. ApiSound(objs, seen, graphChanges')
    BY <1>1, <1>3, AbsentWhenNotHeld, VirtualDeleteSound, WorkersTyped
  <2> QED BY <1>1, <1>3, <2>1, DeletionEnds, WorkersTyped, WorkerSteps
<1>4. CASE Live(u) /\ Delete(u, w.policy) /\ Settle
  <2>1. ApiSound(objs', seen', graphChanges') /\ Lasting(objs, objs')
    BY <1>1, <1>4, DeleteSound, WorkersTyped
  <2>2. DeleterSound(objs', deleter') /\ attemptToDelete' \subseteq Items(Known(objs))
    BY <1>1, <1>4, DeletionEnds
  <2>3. OrphanerSound(objs', orphaner')
    BY <1>1, <2>1, OthersLast, WorkersTyped DEF GCInv
  <2> QED BY <1>1, <2>1, <2>2, <2>3, WorkersTyped, WorkerWrites
<1>5. CASE Deleting(again) /\ UNCHANGED <<apiVars, attemptToDelete>>
  <2>1. /\ again \in Deletions(Known(objs)) /\ again.pc = "recheck" /\ again.item = w.item
        /\ again.read = w.read
    BY <1>1 DEF Deletions, DeleterPlaces
  <2> HIDE DEF again
  <2>2. DeleterSound(objs, again)
    BY <1>1, <2>1 DEF DeleterSound, GCInv, Judged
  <2> QED BY <1>1, <1>5, <2>2, WorkersTyped, WorkerSteps DEF Deleting, apiVars
<1>6. CASE Requeue(w) /\ UNCHANGED apiVars
  BY <1>1, <1>6, DeletionEnds, WorkersTyped, WorkerSteps DEF apiVars
<1> QED BY <1>2, <1>3, <1>4, <1>5, <1>6

\* What is read again has the owners of what was judged.
LEMMA RecheckKeeps == ASSUME GCInv, RecheckOwners PROVE GCInv'
<1> DEFINE w == deleter
           u == w.item.uid
           next == [w EXCEPT !.pc = "delete", !.fresh = FALSE, !.read = objs[u]]
<1>1. /\ w \in Deletions(Known(objs)) /\ w.pc = "recheck" /\ w.item \in Items(Known(objs)) /\ u \in Uids
      /\ UNCHANGED <<objs, seen, graph, absentOwnerCache, attemptToOrphan, orphaner>>
  BY WorkersTyped DEF RecheckOwners
<1>2. \/ Held(w.item.name) = {} /\ VirtualDelete(w.item) /\ Forget
      \/ SameOwners(w, u) /\ Deleting(next) /\ UNCHANGED <<graphChanges, attemptToDelete>>
      \/ Requeue(w) /\ UNCHANGED graphChanges
  BY DEF RecheckOwners
<1>3. CASE Held(w.item.name) = {} /\ VirtualDelete(w.item) /\ Forget
  <2>1. ApiSound(objs, seen, graphChanges')
    BY <1>1, <1>3, AbsentWhenNotHeld, VirtualDeleteSound, WorkersTyped
  <2> QED BY <1>1, <1>3, <2>1, DeletionEnds, WorkersTyped, WorkerSteps
<1>4. CASE SameOwners(w, u) /\ Deleting(next) /\ UNCHANGED <<graphChanges, attemptToDelete>>
  <2>1. /\ next \in Deletions(Known(objs)) /\ next.pc = "delete" /\ next.item = w.item
        /\ next.read.owners = w.read.owners
    BY <1>1, <1>4, WorkersTyped DEF Deletions, DeleterPlaces, SameOwners
  <2> HIDE DEF next
  <2>2. DeleterSound(objs, next)
    BY <1>1, <2>1 DEF DeleterSound, GCInv, Judged
  <2> QED BY <1>1, <1>4, <2>2, WorkersTyped, WorkerSteps DEF Deleting
<1>5. CASE Requeue(w) /\ UNCHANGED graphChanges
  BY <1>1, <1>5, DeletionEnds, WorkersTyped, WorkerSteps
<1> QED BY <1>2, <1>3, <1>4, <1>5

\* The orphaner's steps, for the deleter those of others.
LEMMA OrphanerWrites ==
    ASSUME GCInv, Lasting(objs, objs'), KeepsWaiting(objs, objs'), ApiSound(objs', seen', graphChanges'),
           OrphanerSound(objs, orphaner'), attemptToOrphan' \subseteq Known(objs),
           UNCHANGED <<graph, absentOwnerCache, attemptToDelete, deleter>>
    PROVE  GCInv'
<1>1. DeleterSound(objs', deleter')
  BY DeleterLasts, WorkersTyped DEF GCInv
<1>2. OrphanerSound(objs', orphaner')
  BY OthersLast, WorkersTyped DEF GCInv
<1> QED BY <1>1, <1>2, WorkersTyped, WorkerWrites

LEMMA NoOrphaningSound == ASSUME NEW o PROVE OrphanerSound(o, NoOrphaning) /\ NoOrphaning \in Orphanings(Known(o))
BY GoneTyped DEF NoOrphaning, OrphanerSound, Orphanings

LEMMA OrphanerKeeps == ASSUME GCAssumption, GCInv, OrphanerStep PROVE GCInv'
<1> DEFINE w == orphaner
           W == Known(objs)
<1>1. /\ w \in Orphanings(W) /\ (w.pc # "idle" => w.owner \in W) /\ W \subseteq Uids
      /\ attemptToOrphan \subseteq W
  BY WorkersTyped DEF OrphanerSound
<1>2. UNCHANGED <<graph, absentOwnerCache, attemptToDelete, deleter>>
  BY DEF OrphanerStep, AttemptToOrphan, OrphanDependent, Orphaned, OrphanerAnswered, DeleteOrphaned, queues
<1>3. ASSUME NEW u \in attemptToOrphan, AttemptToOrphan(u) PROVE GCInv'
  <2> DEFINE next == [NoOrphaning EXCEPT !.pc = "orphan", !.owner = u, !.todo = DependentsToOrphan(u)]
  <2>1. DependentsToOrphan(u) \in SUBSET W /\ u \in W
    BY <1>1, WorkersTyped DEF DependentsToOrphan, GraphNodes
  <2>2. next \in Orphanings(W) /\ next.owner = u
    BY <2>1, NoOrphaningSound DEF Orphanings
  <2>3. orphaner' = next /\ attemptToOrphan' \subseteq attemptToOrphan /\ UNCHANGED apiVars
    BY <1>3 DEF AttemptToOrphan
  <2> HIDE DEF next
  <2>4. OrphanerSound(objs, orphaner')
    BY <2>1, <2>2, <2>3 DEF OrphanerSound
  <2> QED BY <1>1, <1>2, <2>3, <2>4, StillLasts, WorkersTyped, OrphanerWrites DEF apiVars
<1>4. ASSUME NEW d \in orphaner.todo, OrphanDependent(d) PROVE GCInv'
  <2>1. d \in Uids /\ w.pc = "orphan" /\ UNCHANGED attemptToOrphan
    BY <1>1, <1>4 DEF OrphanDependent, Orphanings, queues
  <2> DEFINE rest == [w EXCEPT !.todo = @ \ {d}]
             failed == w.failed \/ (~Live(d) /\ Held(NameOf[d]) # {})
  <2>2. rest \in Orphanings(W) /\ rest.pc = "orphan" /\ rest.owner = w.owner /\ rest.failed = w.failed
    BY <1>1, <2>1 DEF Orphanings
  <2>3. orphaner' = [rest EXCEPT !.failed = @ \/ (~Live(d) /\ Held(NameOf[d]) # {})]
    BY <1>4 DEF OrphanDependent
  <2> HIDE DEF rest
  <2>4. orphaner' \in Orphanings(W) /\ orphaner'.owner = w.owner
    BY <2>2, <2>3 DEF Orphanings
  <2>5. OrphanerSound(objs, orphaner')
    BY <1>1, <2>1, <2>4 DEF OrphanerSound
  <2>6. CASE Live(d) /\ Put(d, Patched(d, {w.owner}))
    <3>1. ApiSound(objs', seen', graphChanges') /\ Lasting(objs, objs') /\ KeepsWaiting(objs, objs')
      BY <2>1, <2>6, PatchedSound
    <3> QED BY <1>1, <1>2, <2>1, <2>5, <3>1, OrphanerWrites
  <2>7. CASE UNCHANGED apiVars
    BY <1>1, <1>2, <2>1, <2>5, <2>7, StillLasts, WorkersTyped, OrphanerWrites DEF apiVars
  <2>8. orphaner.owner = rest.owner
    BY <2>2
  <2>9. (Live(d) /\ Put(d, Patched(d, {w.owner}))) \/ UNCHANGED apiVars
    <3>1. [w EXCEPT !.todo = @ \ {d}].owner = w.owner
      BY <1>1 DEF Orphanings
    <3> QED BY <1>4, <3>1 DEF OrphanDependent
  <2> QED BY <2>6, <2>7, <2>9
<1>5. ASSUME OrphanAgain, UNCHANGED apiVars, w.pc # "idle" PROVE GCInv'
  <2>1. orphaner' = NoOrphaning /\ attemptToOrphan' = attemptToOrphan \cup {w.owner}
    BY <1>5 DEF OrphanAgain
  <2> QED
    BY <1>1, <1>2, <1>5, <2>1, NoOrphaningSound, StillLasts, WorkersTyped, OrphanerWrites DEF apiVars
<1>6. ASSUME Orphaned PROVE GCInv'
  <2> DEFINE n == NameOf[w.owner]
  <2>1. w.pc = "orphan"
    BY <1>6 DEF Orphaned
  <2>2. \/ OrphanAgain /\ UNCHANGED apiVars
        \/ orphaner' = [w EXCEPT !.pc = "delete"] /\ UNCHANGED <<apiVars, attemptToOrphan>>
        \/ \E u \in Held(n) : /\ Put(u, RemovesIt(objs[u], "orphan")) /\ UNCHANGED attemptToOrphan
                               /\ orphaner' = [w EXCEPT !.pc = "answered",
                                                        !.cache = RemovesIt(objs[u], "orphan")]
    BY <1>6 DEF Orphaned
  <2>3. CASE OrphanAgain /\ UNCHANGED apiVars
    BY <1>5, <2>1, <2>3
  <2>4. CASE orphaner' = [w EXCEPT !.pc = "delete"] /\ UNCHANGED <<apiVars, attemptToOrphan>>
    <3>1. OrphanerSound(objs, orphaner')
      BY <1>1, <2>1, <2>4 DEF OrphanerSound, Orphanings
    <3> QED BY <1>1, <1>2, <2>4, <3>1, StillLasts, WorkersTyped, OrphanerWrites DEF apiVars
  <2>5. ASSUME NEW u \in Held(n), Put(u, RemovesIt(objs[u], "orphan")), UNCHANGED attemptToOrphan,
               orphaner' = [w EXCEPT !.pc = "answered", !.cache = RemovesIt(objs[u], "orphan")]
        PROVE  GCInv'
    <3> DEFINE new == RemovesIt(objs[u], "orphan")
    <3>1. u \in Uids /\ Live(u)
      BY DEF Held
    <3>2. /\ new \in Objects(W) /\ ApiSound(objs', seen', graphChanges')
          /\ Lasting(objs, objs') /\ KeepsWaiting(objs, objs')
      BY <2>5, <3>1, UnfinalizedSound
    <3> HIDE DEF new
    <3>3. orphaner' = [w EXCEPT !.pc = "answered", !.cache = new]
      BY <2>5 DEF new
    <3>4. OrphanerSound(objs, orphaner')
      BY <1>1, <2>1, <3>2, <3>3 DEF OrphanerSound, Orphanings
    <3> QED BY <1>1, <1>2, <2>5, <3>2, <3>4, OrphanerWrites
  <2> QED BY <2>2, <2>3, <2>4, <2>5
<1>7. ASSUME OrphanerAnswered PROVE GCInv'
  <2>1. /\ w.pc = "answered" /\ seen' = [seen EXCEPT ![NameOf[w.owner]] = w.cache]
        /\ orphaner' = [w EXCEPT !.pc = "delete", !.cache = Unborn]
        /\ UNCHANGED <<objs, graphChanges, queues>>
    BY <1>7 DEF OrphanerAnswered
  <2>2. w.cache \in Objects(W) /\ Unborn \in Objects(W)
    BY <1>1, GoneTyped DEF Orphanings
  <2>3. ApiSound(objs, seen', graphChanges')
    BY <2>1, <2>2, CachedSound, WorkersTyped
  <2>4. OrphanerSound(objs, orphaner')
    BY <1>1, <2>1, <2>2 DEF OrphanerSound, Orphanings
  <2> QED BY <1>1, <1>2, <2>1, <2>3, <2>4, StillLasts, OrphanerWrites DEF queues
<1>8. ASSUME DeleteOrphaned PROVE GCInv'
  <2>1. w.pc = "delete" /\ w.owner \in Uids
    BY <1>1, <1>8 DEF DeleteOrphaned
  <2>2. CASE Live(w.owner)
    <3>1. Delete(w.owner, "Background") /\ orphaner' = NoOrphaning /\ UNCHANGED attemptToOrphan
      BY <1>8, <2>2 DEF DeleteOrphaned
    <3>2. ApiSound(objs', seen', graphChanges') /\ Lasting(objs, objs') /\ KeepsWaiting(objs, objs')
      BY <2>1, <2>2, <3>1, DeleteSound, WorkersTyped
    <3> QED BY <1>1, <1>2, <3>1, <3>2, NoOrphaningSound, OrphanerWrites
  <2>3. CASE ~Live(w.owner)
    BY <1>5, <1>8, <2>1, <2>3 DEF DeleteOrphaned
  <2> QED BY <2>2, <2>3
<1> QED BY <1>3, <1>4, <1>6, <1>7, <1>8 DEF OrphanerStep

LEMMA GCKeeps == GCAssumption /\ GCInv /\ [GCNext]_gcVars => GCInv'
<1> SUFFICES ASSUME GCAssumption, GCInv, [GCNext]_gcVars PROVE GCInv'
  OBVIOUS
<1>1. CASE DeleterStep
  BY <1>1, AttemptKeeps, GetLatestKeeps, ClassifyKeeps, DecideKeeps, PatchKeeps, UnblockKeeps,
     UnfinalizeKeeps, DeleterAnsweredKeeps, DeleteItemKeeps, RecheckKeeps DEF DeleterStep
<1>2. CASE OrphanerStep
  BY <1>2, OrphanerKeeps
<1>3. CASE ProcessGraphChanges
  BY <1>3, BuilderKeeps
<1>4. ASSUME NEW u \in Uids, CreateObject(u) \/ DeleteObject(u) \/ ChangeOwners(u) PROVE GCInv'
  BY <1>4, CreateKeeps, GCUsersKeep
<1>5. CASE UNCHANGED gcVars
  BY <1>5 DEF gcVars, GCInv
<1> QED BY <1>1, <1>2, <1>3, <1>4, <1>5 DEF GCNext

LEMMA GCStarts == GCAssumption /\ GCInit => GCInv
<1> SUFFICES ASSUME GCAssumption, GCInit PROVE GCInv
  OBVIOUS
<1> DEFINE Start(alive, own, order, past) ==
       /\ \A u, v \in alive : u # v => NameOf[u] # NameOf[v]
       /\ \A u \in alive : \A r \in own[u] : r.uid \in (alive \cup past) \ {u}
       /\ objs = [u \in Uids |-> IF u \in alive
                                 THEN [Unborn EXCEPT !.state = "live", !.owners = own[u]]
                                 ELSE IF u \in past THEN Gone ELSE Unborn]
       /\ seen = [n \in AllNames |-> IF Held(n) = {} THEN Unborn
                                     ELSE objs[CHOOSE u \in Held(n) : TRUE]]
       /\ graphChanges = [i \in 1 .. Len(order) |->
                            [type |-> "add", uid |-> order[i], name |-> NameOf[order[i]],
                             obj |-> objs[order[i]], old |-> Unborn]]
       /\ graph = [u \in Uids |-> AbsentNode]
       /\ absentOwnerCache = {} /\ attemptToDelete = {} /\ attemptToOrphan = {}
       /\ deleter = NoDeletion /\ orphaner = NoOrphaning
       /\ heirs = [u \in Uids |-> {}] /\ altered = 0
<1>0. PICK alive \in SUBSET Uids :
        \E own \in [alive -> OwnerSets], order \in SetToSeqs(alive), past \in SUBSET (Uids \ alive) :
          Start(alive, own, order, past)
  BY Zenon DEF GCInit, Start
<1>1. PICK own \in [alive -> OwnerSets], order \in SetToSeqs(alive), past \in SUBSET (Uids \ alive) :
        Start(alive, own, order, past)
  BY <1>0, Zenon
<1> DEFINE W == Known(objs)
<1>2. \A u \in alive : /\ objs[u] = [Unborn EXCEPT !.state = "live", !.owners = own[u]]
                       /\ objs[u].state = "live"
  BY <1>1 DEF Unborn
<1>3. W = alive \cup past
  <2>1. \A u \in Uids : objs[u].state # "unborn" <=> u \in alive \cup past
    BY <1>1, <1>2 DEF Unborn, Gone
  <2> QED BY <2>1 DEF Known
<1>4. objs \in [Uids -> Objects(W)]
  <2>1. Gone \in Objects(W) /\ Unborn \in Objects(W)
    BY GoneTyped
  <2>2. ASSUME NEW u \in alive PROVE objs[u] \in Objects(W)
    <3>1. own[u] \in SUBSET Refs(W)
      <4>1. own[u] \subseteq [uid : Uids, name : Words, block : BOOLEAN]
        BY RefsTyped
      <4>2. \A r \in own[u] : r.uid \in W
        BY <1>1, <1>3
      <4> HIDE DEF W
      <4> QED BY <4>1, <4>2 DEF Refs
    <3> HIDE DEF W
    <3> QED BY <1>2, <3>1 DEF Unborn, Objects, ObjectStates
  <2> HIDE DEF W
  <2> QED BY <1>1, <2>1, <2>2
<1>5. seen \in [AllNames -> Objects(W)]
  <2>1. Unborn \in Objects(W)
    BY GoneTyped
  <2>2. \A n \in AllNames : Held(n) # {} => (CHOOSE u \in Held(n) : TRUE) \in Uids
    BY DEF Held
  <2> HIDE DEF W
  <2> QED BY <1>1, <1>4, <2>1, <2>2
<1>6. graphChanges \in Seq(News(objs))
  <2>1. order \in Seq(alive)
    <3>1. Cardinality(alive) \in Nat
      BY FS_Subset, FS_CardinalityType DEF GCAssumption
    <3>2. order \in [1 .. Cardinality(alive) -> alive]
      BY DEF SetToSeqs
    <3> QED BY <3>1, <3>2
  <2>2. ASSUME NEW u \in alive
        PROVE  [type |-> "add", uid |-> u, name |-> NameOf[u], obj |-> objs[u], old |-> Unborn] \in News(objs)
    <3>1. u \in W /\ objs[u] \in Objects(W) /\ Unborn \in Objects(W) /\ NameOf[u] \in Words
      BY <1>3, <1>4, GoneTyped DEF Words, AllNames
    <3> QED BY <3>1 DEF News, GraphNews
  <2>3. Len(order) \in Nat /\ \A i \in 1 .. Len(order) : order[i] \in alive
    BY <2>1
  <2>4. graphChanges \in [1 .. Len(order) -> News(objs)]
    BY <1>1, <2>2, <2>3
  <2> QED BY <2>3, <2>4
<1>7. QueuesSound(objs, graph, absentOwnerCache, attemptToDelete, attemptToOrphan)
  BY <1>1, AbsentNodeTyped DEF QueuesSound
<1> QED
  BY <1>1, <1>4, <1>5, <1>6, <1>7, NoDeletionSound, NoOrphaningSound DEF GCInv, ApiSound

LEMMA JudgedAbsent == GCInv => OwnedStay
<1> SUFFICES ASSUME GCInv, deleter.pc = "delete", NEW r \in deleter.read.owners, Solid(r) PROVE FALSE
  BY DEF OwnedStay
<1>1. ~Stays(objs, r)
  BY DEF GCInv, DeleterSound, Judged
<1> QED BY <1>1 DEF Solid, Stays, There, Held, Live, WaitsForDependents

\* What the garbage collector deletes had, when it was last read, no owner that exists and
\* stays, however long before it had found them absent (attemptToDeleteItem, isDangling).
THEOREM OwnedObjectsStay ==
    ASSUME GCAssumption PROVE GCSpec => [][OwnedStay]_gcVars
<1>1. GCInv /\ [GCNext]_gcVars => GCInv'
  BY GCKeeps
<1>2. GCInit => GCInv
  BY GCStarts
<1>3. GCSpec => []GCInv
  BY <1>1, <1>2, PTL DEF GCSpec
<1> QED BY <1>3, JudgedAbsent, PTL DEF GCSpec
=============================================================================

--------------------------- MODULE EndpointSlices ---------------------------
(***************************************************************************)
(* The endpoint slice controller (cluster/images/endpointslice-controller  *)
(* .ts) keeps for a service the slice of the addresses of the pods its     *)
(* selector matches.  One service name, its incarnations, and the pods of  *)
(* its namespace.                                                          *)
(*                                                                         *)
(* The informers watch: their callbacks run inside the write they are      *)
(* about (Informer).  A call of the API server takes effect at one step    *)
(* and its answer is acted on at a later one.  The garbage collector is    *)
(* what it does to a slice: it deletes one whose owner is gone, if the     *)
(* slice has the uid it knows it by.                                       *)
(***************************************************************************)
EXTENDS Integers, FiniteSets

CONSTANTS
    Endpoints,    \* pods that may have an address
    Policies,     \* how services are deleted: "Background", "Foreground"
    MaxServices,  \* bound: incarnations of the service
    MaxPodChanges \* bound: changes of pods

NoSvc   == [uid |-> 0, deleting |-> FALSE, selects |-> FALSE]
NoSlice == [rv |-> 0, uid |-> 0, owner |-> 0, endpoints |-> {}]

Attempts == 5    \* retryConflicts

VARIABLES
    server,  \* the API server: the service, the pods, the slice
    ctl,     \* EndpointSliceController: services, pods, pending, requeued
    task,    \* reconcileService under way, by the service's key
    drops    \* deleteGeneratedSlice started by deleteService, by the service's uid

sliceVars == <<server, ctl, task, drops>>

Uids == 1 .. MaxServices
NoPod == [ip |-> FALSE, matches |-> FALSE, ready |-> FALSE, terminating |-> FALSE]
PodStates == [ip : {TRUE}, matches : BOOLEAN, ready : BOOLEAN, terminating : BOOLEAN] \cup {NoPod}

Idle == [pc |-> "idle", svc |-> NoSvc, answer |-> NoSlice, want |-> {},
         found |-> FALSE, tries |-> 0]
NotBegun == [pc |-> "none", answer |-> NoSlice]

SlicesInit ==
    /\ server = [svc |-> NoSvc, pods |-> [p \in Endpoints |-> NoPod], slice |-> NoSlice,
                 services |-> 0, changes |-> 0, rv |-> 0]
    /\ ctl = [svc |-> NoSvc, pending |-> FALSE, requeued |-> FALSE]
    /\ task = Idle
    /\ drops = [u \in Uids |-> NotBegun]

----------------------------------------------------------------------------
(* queueServiceReconcile, on c = [ctl, task]: one reconcile at a time; what *)
(* comes meanwhile is remembered once.                                      *)

Reconciling(c) ==
    [ctl  |-> [c.ctl EXCEPT !.pending = TRUE],
     task |-> [Idle EXCEPT !.pc = "readService", !.svc = c.ctl.svc]]
queueServiceReconcile(c) ==
    IF c.ctl.pending THEN [c EXCEPT !.ctl.requeued = TRUE]
    ELSE Reconciling(c)

(* The finally of a reconcile that ends.                                    *)
Finished(c) ==
    LET done == [ctl |-> [c.ctl EXCEPT !.pending = FALSE, !.requeued = FALSE], task |-> Idle]
    IN  IF c.ctl.requeued /\ c.ctl.svc # NoSvc THEN queueServiceReconcile(done) ELSE done

Is(c) == ctl' = c.ctl /\ task' = c.task
Now   == [ctl |-> ctl, task |-> task]

(* Callbacks *)
upsertService(c, svc) == queueServiceReconcile([c EXCEPT !.ctl.svc = svc])
upsertPod(c)          == IF c.ctl.svc = NoSvc THEN c ELSE queueServiceReconcile(c)
upsertEndpointSlice(c) == IF c.ctl.svc = NoSvc THEN c ELSE queueServiceReconcile(c)

----------------------------------------------------------------------------
(* Users, and the kubelets that report the pods' status *)

CreateService ==
    /\ server.svc = NoSvc /\ server.services < MaxServices
    /\ \E selects \in BOOLEAN :
          LET svc == [uid |-> server.services + 1, deleting |-> FALSE, selects |-> selects]
          IN  /\ server' = [server EXCEPT !.svc = svc, !.services = @ + 1]
              /\ Is(upsertService(Now, svc))
    /\ UNCHANGED drops

(* The service goes: deleteService, which leaves the slice of one that has  *)
(* been deleting for a while to the garbage collector.                      *)
Removes(svc) ==
    /\ server' = [server EXCEPT !.svc = NoSvc]
    /\ ctl' = [ctl EXCEPT !.svc = NoSvc]
    /\ drops' = IF svc.deleting THEN drops
                ELSE [drops EXCEPT ![svc.uid] = [NotBegun EXCEPT !.pc = "readSlice"]]
    /\ UNCHANGED task

DeleteService ==
    /\ server.svc # NoSvc /\ ~server.svc.deleting
    /\ \/ "Background" \in Policies /\ Removes(server.svc)
       \/ /\ "Foreground" \in Policies
          /\ LET svc == [server.svc EXCEPT !.deleting = TRUE]
             IN  /\ server' = [server EXCEPT !.svc = svc]
                 /\ Is(upsertService(Now, svc))
          /\ UNCHANGED drops

ChangePod(p) ==
    /\ server.changes < MaxPodChanges
    /\ \E s \in PodStates : s # server.pods[p] /\
          server' = [server EXCEPT !.pods[p] = s, !.changes = @ + 1]
    /\ Is(upsertPod(Now))
    /\ UNCHANGED drops

----------------------------------------------------------------------------
(* The slice in the API server.  A write of it calls back; so does its end. *)

SliceBecomes(slice, c) ==
    /\ server' = [server EXCEPT !.slice = [slice EXCEPT !.rv = server.rv + 1], !.rv = @ + 1]
    /\ Is(upsertEndpointSlice(c))
SliceGoes(c) ==
    /\ server' = [server EXCEPT !.slice = NoSlice]
    /\ Is(upsertEndpointSlice(c))

(* The garbage collector, external: it deletes a slice whose service is     *)
(* gone or deleting in the foreground, unless the slice has lost its uid;   *)
(* and lets such a service go when it knows of no slice that blocks it.     *)
Collectable == server.slice.uid # 0 /\
    (server.slice.owner # server.svc.uid \/ server.svc.deleting)
Collects == Collectable /\ SliceGoes(Now) /\ UNCHANGED drops
LetsGo ==
    /\ server.svc.deleting
    /\ ~(server.slice.uid # 0 /\ server.slice.owner = server.svc.uid)
    /\ Removes(server.svc)

----------------------------------------------------------------------------
(* reconcileService *)

(* isReadyPod and the conditions of an endpoint.                            *)
Member(p) == server.pods[p].ip /\ server.pods[p].matches
Desired   == {[pod |-> p, ready |-> server.pods[p].ready /\ ~server.pods[p].terminating]
              : p \in {q \in Endpoints : Member(q)}}

(* A call takes effect, and its answer is acted on: the steps of a task.    *)
Awaits(pc) == task' = [task EXCEPT !.pc = pc] /\ UNCHANGED <<ctl, drops, server>>
Answered(svc, slice, found, pc) ==
    /\ task' = [task EXCEPT !.pc = pc, !.svc = svc, !.answer = slice, !.found = found]
    /\ UNCHANGED <<ctl, drops, server>>
Ends == Is(Finished(Now)) /\ UNCHANGED <<drops, server>>

(* readNamespacedService; the controller keeps what it read, even if the    *)
(* service has been removed meanwhile.                                      *)
ReadsService ==
    /\ task.pc = "readService"
    /\ LET found == server.svc # NoSvc
       IN  Answered(IF found THEN server.svc ELSE task.svc, NoSlice, found, "serviceRead")

ServiceIsRead ==
    /\ task.pc = "serviceRead"
    /\ LET keeps == IF task.found THEN [ctl EXCEPT !.svc = task.svc] ELSE ctl
       IN  CASE task.found /\ task.svc.deleting -> Is(Finished([ctl |-> keeps, task |-> task]))
             [] ~task.found \/ ~(task.svc.deleting \/ task.svc.selects) ->
                  ctl' = keeps /\ task' = [task EXCEPT !.pc = "readToDrop"]
             [] OTHER ->
                  ctl' = keeps /\ task' = [task EXCEPT !.pc = "readAgain", !.want = Desired]
    /\ UNCHANGED <<drops, server>>

(* applyEndpointSlice                                                       *)
ReadsAgain ==
    /\ task.pc = "readAgain"
    /\ Answered(task.svc, NoSlice, server.svc # NoSvc /\ ~server.svc.deleting, "againRead")
AgainIsRead ==
    /\ task.pc = "againRead"
    /\ IF task.found THEN Awaits("readSlice") ELSE Ends

ReadsSlice ==
    /\ task.pc \in {"readSlice", "readToDrop"}
    /\ Answered(task.svc, server.slice, server.slice # NoSlice,
                IF task.pc = "readSlice" THEN "sliceRead" ELSE "toDropRead")

(* The body of a replace has no uid, so a slice is unlike it until the      *)
(* first replace takes the uid away.                                        *)
AsDesired(slice) == slice.uid = 0 /\ slice.endpoints = task.want
SliceIsRead ==
    /\ task.pc = "sliceRead"
    /\ CASE ~task.found                                           -> Awaits("create")
         [] task.found /\ task.answer.owner # task.svc.uid        -> Ends
         [] task.found /\ task.answer.owner = task.svc.uid /\ AsDesired(task.answer) -> Ends
         [] OTHER                                                 -> Awaits("replace")

Replaces ==
    /\ task.pc = "replace"
    /\ CASE server.slice = NoSlice -> Awaits("create")
         [] server.slice # NoSlice /\ server.slice.rv # task.answer.rv ->
              IF task.tries + 1 < Attempts
              THEN /\ task' = [task EXCEPT !.pc = "readSlice", !.tries = @ + 1]
                   /\ UNCHANGED <<ctl, drops, server>>
              ELSE Awaits("done")
         [] OTHER ->
              /\ SliceBecomes([task.answer EXCEPT !.uid = 0, !.endpoints = task.want],
                              [ctl |-> ctl, task |-> [task EXCEPT !.pc = "done"]])
              /\ UNCHANGED drops

(* A name that is taken is an error that ends the reconcile.                *)
Creates ==
    /\ task.pc = "create"
    /\ IF server.slice # NoSlice THEN Awaits("done")
       ELSE /\ SliceBecomes([NoSlice EXCEPT !.uid = server.rv + 1, !.owner = task.svc.uid,
                                            !.endpoints = task.want],
                            [ctl |-> ctl, task |-> [task EXCEPT !.pc = "done"]])
            /\ UNCHANGED drops

(* deleteGeneratedSlice: what it deletes by name is what it read, or not.   *)
Drops(answer, svc) == answer # NoSlice /\ answer.owner = svc

ToDropIsRead ==
    /\ task.pc = "toDropRead"
    /\ IF Drops(task.answer, task.svc.uid) THEN Awaits("drop") ELSE Ends
Deletes ==
    /\ task.pc = "drop"
    /\ IF server.slice = NoSlice THEN Awaits("done")
       ELSE SliceGoes([ctl |-> ctl, task |-> [task EXCEPT !.pc = "done"]]) /\ UNCHANGED drops
IsDone == task.pc = "done" /\ Ends

DropStep(u) ==
    \/ /\ drops[u].pc = "readSlice"
       /\ drops' = [drops EXCEPT ![u] = [pc |-> "sliceRead", answer |-> server.slice]]
       /\ UNCHANGED <<server, ctl, task>>
    \/ /\ drops[u].pc = "sliceRead"
       /\ drops' = [drops EXCEPT ![u] = IF Drops(drops[u].answer, u)
                                        THEN [@ EXCEPT !.pc = "drop"] ELSE NotBegun]
       /\ UNCHANGED <<server, ctl, task>>
    \/ /\ drops[u].pc = "drop"
       /\ drops' = [drops EXCEPT ![u] = NotBegun]
       /\ IF server.slice = NoSlice THEN UNCHANGED <<server, ctl, task>> ELSE SliceGoes(Now)

TaskStep ==
    \/ ReadsService \/ ServiceIsRead \/ ReadsAgain \/ AgainIsRead
    \/ ReadsSlice \/ SliceIsRead \/ Replaces \/ Creates
    \/ ToDropIsRead \/ Deletes \/ IsDone
Collector == Collects \/ LetsGo

SlicesNext ==
    \/ CreateService \/ DeleteService \/ (\E p \in Endpoints : ChangePod(p))
    \/ TaskStep \/ (\E u \in Uids : DropStep(u)) \/ Collector

SlicesSpec == SlicesInit /\ [][SlicesNext]_sliceVars

----------------------------------------------------------------------------
(* Properties *)

Quiet == ~ctl.pending /\ (\A u \in Uids : drops[u].pc = "none") /\ ~ENABLED Collector

(* A change that comes while a reconcile is under way leads to another one: *)
(* when nothing is under way the slice a service with a selector owns lists *)
(* the pods as they are, and one without a selector owns none.  (queue-     *)
(* ServiceReconcile, applyEndpointSlice.)                                   *)
QuietIsCurrent ==
    Quiet /\ server.svc # NoSvc /\ ~server.svc.deleting =>
        /\ server.svc.selects =>
             /\ server.slice # NoSlice
             /\ server.slice.owner = server.svc.uid => server.slice.endpoints = Desired
        /\ ~server.svc.selects => server.slice.owner # server.svc.uid

(* A service that is removed, and one made anew under its name, leave no    *)
(* slice of the one before: when nothing is under way the slice there is    *)
(* has the service's uid.  (deleteGeneratedSlice, serviceOwnerReferences;   *)
(* it fails for services that are deleted in the foreground.)               *)
SliceIsOfService == Quiet /\ server.slice # NoSlice => server.slice.owner = server.svc.uid

(* One reconcile of a service at a time, and none is owed when none is      *)
(* under way.  (pending, requeued.)                                         *)
OneAtATime ==
    /\ ctl.pending <=> task.pc # "idle"
    /\ ctl.requeued => ctl.pending

(* All of these.                                                            *)
SlicesAreSound ==
    QuietIsCurrent /\ OneAtATime /\ (Policies = {"Background"} => SliceIsOfService)
=============================================================================

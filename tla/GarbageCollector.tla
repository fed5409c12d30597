-------------------------- MODULE GarbageCollector --------------------------
(***************************************************************************)
(* The garbage collector (controller/garbagecollector): a graph of owners  *)
(* and dependents that follows the informers' events one after another, a  *)
(* worker that deletes what nobody owns any more or cuts the references    *)
(* that lead nowhere, and a worker that lets the dependents of an owner    *)
(* go.  The workers ask the API server, and the graph is behind it.        *)
(*                                                                         *)
(* All objects are in one namespace, kinds are part of the names, and the  *)
(* delay before an item is tried again is left out.  A retried conflict    *)
(* inside one request is part of the request.                              *)
(***************************************************************************)
EXTENDS Integers, Sequences, FiniteSets, SequencesExt

CONSTANTS
    Uids,        \* objects, those of the past and of the future included
    NameOf,      \* the name of each: two may have the same, one after the other
    Slices,      \* those whose API takes no strategic merge patch
    OwnerSets,   \* the sets of owner references an object may have
    MaxAlterations   \* bound: what users and controllers do

\* References are to objects, under some name.
GCAssumption ==
    /\ IsFiniteSet(Uids)
    /\ \A owners \in OwnerSets : owners \subseteq [uid : Uids, name : STRING, block : BOOLEAN]

VARIABLES
    objs,        \* the API server's objects
    graph,       \* uidToNode
    seen,        \* the caches of the monitors, by name
    graphChanges,
    absentOwnerCache,
    attemptToDelete, attemptToOrphan,   \* the queues
    deleter, orphaner,                  \* their workers
    heirs,       \* for each owner, the dependents it had when its deletion began
                 \* and to whom nobody else has given other owners since
    altered

gcVars == <<objs, graph, seen, graphChanges, absentOwnerCache, attemptToDelete,
            attemptToOrphan, deleter, orphaner, heirs, altered>>
apiVars == <<objs, seen, graphChanges, heirs>>
queues == <<graph, absentOwnerCache, attemptToDelete, attemptToOrphan>>

AllNames == {NameOf[u] : u \in Uids}
Unborn == [state |-> "unborn", deleting |-> FALSE, finalizers |-> {}, owners |-> {}]
Gone == [Unborn EXCEPT !.state = "gone"]
AbsentNode == [in |-> FALSE, name |-> "", virtual |-> FALSE, beingDeleted |-> FALSE,
           deletingDependents |-> FALSE, owners |-> {}, dependents |-> {}]
NoItem == [uid |-> "", name |-> ""]
NoDeletion == [pc |-> "idle", item |-> NoItem, read |-> Unborn, todo |-> {}, solid |-> {},
               dangling |-> {}, waiting |-> {}, policy |-> "", fresh |-> TRUE,
               cache |-> Unborn, refs |-> {}, after |-> ""]
NoOrphaning == [pc |-> "idle", owner |-> "", todo |-> {}, refs |-> {}, cache |-> Unborn,
                failed |-> FALSE]

Live(u) == objs[u].state = "live"
Held(name) == {u \in Uids : Live(u) /\ NameOf[u] = name}
RefersTo(owners, u) == \E r \in owners : r.uid = u
Blocks(owners, u) == \E r \in owners : r.uid = u /\ r.block

GCInit ==
    \E alive \in SUBSET Uids :
    \E own \in [alive -> OwnerSets], order \in SetToSeqs(alive), past \in SUBSET (Uids \ alive) :
       /\ \A u, v \in alive : u # v => NameOf[u] # NameOf[v]
       /\ \A u \in alive : \A r \in own[u] : r.uid \in (alive \cup past) \ {u}
       /\ objs = [u \in Uids |-> IF u \in alive
                                 THEN [Unborn EXCEPT !.state = "live", !.owners = own[u]]
                                 ELSE IF u \in past THEN Gone ELSE Unborn]
       /\ seen = [n \in AllNames |-> IF Held(n) = {} THEN Unborn
                                     ELSE objs[CHOOSE u \in Held(n) : TRUE]]
       /\ graphChanges = [i \in 1 .. Len(order) |->
                            [type |-> "add", uid |-> order[i], name |-> NameOf[order[i]],
                             obj |-> objs[order[i]], old |-> Unborn]]
       /\ graph = [u \in Uids |-> AbsentNode]
       /\ absentOwnerCache = {} /\ attemptToDelete = {} /\ attemptToOrphan = {}
       /\ deleter = NoDeletion /\ orphaner = NoOrphaning
       /\ heirs = [u \in Uids |-> {}] /\ altered = 0

(***************************************************************************)
(* The API server: a write is published, and the monitors' callbacks       *)
(* (upsert, delete) put it into their cache and into graphChanges.         *)
(***************************************************************************)
PolicyFinalizers == {"orphan", "foregroundDeletion"}
Publish(u, type, obj) ==
    LET n == NameOf[u] IN
    /\ graphChanges' = Append(graphChanges, [type |-> type, uid |-> u, name |-> n, obj |-> obj,
                                             old |-> IF type = "delete" THEN Unborn ELSE seen[n]])
    /\ seen' = [seen EXCEPT ![n] = IF type = "delete" THEN Unborn ELSE obj]

TakeOut(u) ==
    /\ objs' = [objs EXCEPT ![u] = Gone]
    /\ Publish(u, "delete", objs[u])
    /\ UNCHANGED heirs
\* Store.update: the deletion that follows the removal of the last finalizer is
\* part of it, for the update between tells the graph nothing new.
Put(u, obj) ==
    IF obj = objs[u] THEN UNCHANGED apiVars
    ELSE IF obj.deleting /\ obj.finalizers = {} THEN TakeOut(u)
    ELSE /\ objs' = [objs EXCEPT ![u] = obj]
         /\ Publish(u, "update", obj)
         /\ heirs' = IF obj.deleting /\ ~objs[u].deleting
                     THEN [heirs EXCEPT ![u] = {v \in Uids : Live(v) /\ RefersTo(objs[v].owners, u)}]
                     ELSE heirs

\* deleteResource: the policy's finalizer takes the place of the other one.
Delete(u, policy) ==
    Put(u, [objs[u] EXCEPT !.deleting = TRUE,
               !.finalizers = (@ \ PolicyFinalizers) \cup
                   CASE policy = "Orphan"     -> {"orphan"}
                     [] policy = "Foreground" -> {"foregroundDeletion"}
                     [] OTHER                 -> {}])

(***************************************************************************)
(* Users and controllers.                                                  *)
(***************************************************************************)
\* A reference is to something that is, or was, there.
Referable(owners, u) == \A r \in owners : r.uid # u /\ objs[r.uid].state # "unborn"
Alter == altered < MaxAlterations /\ altered' = altered + 1
         /\ UNCHANGED <<queues, deleter, orphaner>>

CreateObject(u) ==
    /\ objs[u].state = "unborn" /\ Held(NameOf[u]) = {}
    /\ \E owners \in OwnerSets :
         LET new == [Unborn EXCEPT !.state = "live", !.owners = owners] IN
         /\ Referable(owners, u)
         /\ objs' = [objs EXCEPT ![u] = new] /\ Publish(u, "add", new)
    /\ UNCHANGED heirs /\ Alter
DeleteObject(u) ==
    /\ Live(u) /\ ~objs[u].deleting
    /\ \E p \in {"Background", "Foreground", "Orphan"} : Delete(u, p)
    /\ Alter
ChangeOwners(u) ==
    /\ Live(u)
    /\ \E owners \in OwnerSets : /\ owners # objs[u].owners /\ Referable(owners, u)
                                 /\ objs' = [objs EXCEPT ![u].owners = owners]
    /\ Publish(u, "update", objs'[u])
    /\ heirs' = [o \in Uids |-> heirs[o] \ {u}]
    /\ Alter

(***************************************************************************)
(* processGraphChanges.  Helpers return the graph and what is queued.      *)
(***************************************************************************)
RefName(refs, u) == (CHOOSE r \in refs : r.uid = u).name

\* addDependentToOwners: an owner nobody observed is made up, to be looked for.
addDependentToOwners(g, u, refs) ==
    LET missing == {r.uid : r \in refs} \ {v \in Uids : g[v].in}
        made == [v \in Uids |->
                   IF v \in missing
                   THEN [AbsentNode EXCEPT !.in = TRUE, !.virtual = TRUE,
                                       !.name = RefName(refs, v)]
                   ELSE g[v]]
        invalid == \E r \in refs : r.uid \notin missing /\ g[r.uid].name # r.name
    IN  [graph |-> [v \in Uids |-> IF RefersTo(refs, v)
                                   THEN [made[v] EXCEPT !.dependents = @ \cup {u}]
                                   ELSE made[v]],
         queue |-> missing \cup (IF invalid THEN {u} ELSE {})]
removeDependentFromOwners(g, u, refs) ==
    [v \in Uids |-> IF RefersTo(refs, v) THEN [g[v] EXCEPT !.dependents = @ \ {u}] ELSE g[v]]

\* partitionDependents; a reference with the owner's uid and another name is
\* one to something else, which does not exist.
matching(g, u, name) ==
    {d \in g[u].dependents : \E r \in g[d].owners : r.uid = u /\ r.name = name}
nonmatching(g, u, name) ==
    {d \in g[u].dependents : \E r \in g[d].owners : r.uid = u /\ r.name # name}

\* deletionStartsWithFinalizer
Starts(old, new, finalizer) ==
    /\ new.deleting /\ finalizer \in new.finalizers
    /\ ~(old.deleting /\ finalizer \in old.finalizers)

Ids(g, S) == {[uid |-> u, name |-> g[u].name] : u \in S}
Processed(g, S, orphans, missing) ==
    /\ graph' = g
    /\ attemptToDelete' = attemptToDelete \cup Ids(g, S)
    /\ attemptToOrphan' = attemptToOrphan \cup orphans
    /\ absentOwnerCache' = absentOwnerCache \cup missing

\* The name of a virtual node may be another than that of the object observed.
Observed(e) ==
    IF graph[e.uid].in /\ graph[e.uid].virtual
    THEN [graph EXCEPT ![e.uid].virtual = FALSE, ![e.uid].name = e.name]
    ELSE graph
Misnamed(e) ==
    IF graph[e.uid].in /\ graph[e.uid].virtual /\ graph[e.uid].name # e.name
    THEN nonmatching(graph, e.uid, e.name) ELSE {}

processTransitions(e, g, S) ==
    IF Starts(e.old, e.obj, "orphan") THEN Processed(g, S, {e.uid}, {})
    ELSE IF Starts(e.old, e.obj, "foregroundDeletion")
    THEN Processed([g EXCEPT ![e.uid].deletingDependents = TRUE],
                   S \cup g[e.uid].dependents \cup {e.uid}, {}, {})
    ELSE Processed(g, S, {}, {})

ProcessAdded(e) ==
    LET g == [graph EXCEPT ![e.uid] =
                [AbsentNode EXCEPT !.in = TRUE, !.name = e.name, !.owners = e.obj.owners,
                   !.beingDeleted = e.obj.deleting,
                   !.deletingDependents = e.obj.deleting
                                          /\ "foregroundDeletion" \in e.obj.finalizers]]
        linked == addDependentToOwners(g, e.uid, e.obj.owners)
    IN  /\ ~graph[e.uid].in
        /\ processTransitions(e, linked.graph, linked.queue)

\* referencesDiffs; addUnblockedOwnersToDeleteQueue: an owner that was blocked
\* and no longer is may go now.
ProcessUpdated(e) ==
    LET g == Observed(e)
        was == g[e.uid].owners  now == e.obj.owners
        added == {r \in now : ~RefersTo(was, r.uid)}
        removed == {r \in was : ~RefersTo(now, r.uid)}
        unblocked == {v \in Uids : /\ g[v].in /\ Blocks(was, v) /\ ~Blocks(now, v)}
        owned == [g EXCEPT ![e.uid].owners = now, ![e.uid].beingDeleted = @ \/ e.obj.deleting]
        linked == addDependentToOwners(owned, e.uid, added)
    IN  /\ graph[e.uid].in
        /\ processTransitions(e, removeDependentFromOwners(linked.graph, e.uid, removed),
                              linked.queue \cup unblocked \cup Misnamed(e))

\* The node goes, its dependents and the owners that wait for it are queued.
Removed(g, u, name) ==
    LET waiting == {v \in Uids : /\ g[v].in /\ g[v].deletingDependents
                                 /\ RefersTo(g[u].owners, v)}
        cut == removeDependentFromOwners(g, u, g[u].owners)
    IN  Processed([cut EXCEPT ![u] = AbsentNode], (g[u].dependents \cup waiting) \ {u}, {},
                  IF g[u].dependents # {} THEN {[uid |-> u, name |-> name]} ELSE {})

ProcessDeleted(e) ==
    IF graph[e.uid].in THEN Removed(Observed(e), e.uid, e.name) ELSE UNCHANGED queues

\* The worker found that nothing has this identity.  If dependents know the
\* owner by another name, that one is looked for next (getAlternateOwnerIdentity).
ProcessVirtualDelete(e) ==
    LET node == graph[e.uid]
        yes == matching(graph, e.uid, e.name)
        no  == nonmatching(graph, e.uid, e.name)
        remembered == IF yes = {} THEN {} ELSE {[uid |-> e.uid, name |-> e.name]}
        named == {r.name : r \in {q \in UNION {graph[d].owners : d \in no} : q.uid = e.uid}}
                    \ {e.name}
    IN  CASE ~node.in -> UNCHANGED queues
          [] node.in /\ node.virtual /\ no # {} /\ node.name = e.name ->
                \E n \in named : /\ Processed([graph EXCEPT ![e.uid].name = n],
                                              yes \cup {e.uid}, {}, remembered)
          [] node.in /\ node.virtual /\ no # {} /\ node.name # e.name ->
                Processed(graph, yes, {}, remembered)
          [] node.in /\ ~node.virtual /\ node.name # e.name ->
                Processed(graph, yes, {}, remembered)
          [] OTHER -> Removed(graph, e.uid, e.name)

ProcessGraphChanges ==
    LET e == Head(graphChanges) IN
    /\ graphChanges # <<>>
    /\ graphChanges' = Tail(graphChanges)
    /\ CASE e.type = "delete"  -> ProcessDeleted(e)
         [] e.type = "virtual" -> ProcessVirtualDelete(e)
         [] OTHER              -> ProcessAdded(e) \/ ProcessUpdated(e)
    /\ UNCHANGED <<objs, seen, deleter, orphaner, heirs, altered>>

(***************************************************************************)
(* attemptToDelete's worker.  An item whose node was replaced by a clone   *)
(* under another name, or removed, is no longer in the graph; what the     *)
(* code then still does with it changes nothing.                           *)
(***************************************************************************)
Deleting(w) == deleter' = w
Requeue(w)  == Deleting(NoDeletion) /\ attemptToDelete' = attemptToDelete \cup {w.item}
Forget      == Deleting(NoDeletion) /\ UNCHANGED attemptToDelete
Node == graph[deleter.item.uid]
VirtualDelete(item) ==
    graphChanges' = Append(graphChanges, [type |-> "virtual", uid |-> item.uid,
                                          name |-> item.name, obj |-> Unborn, old |-> Unborn])

\* An item that is done with: a virtual node is looked at again.
Settle == IF Node.in /\ Node.virtual THEN Requeue(deleter) ELSE Forget

AttemptToDelete(item) ==
    LET node == graph[item.uid] IN
    /\ deleter.pc = "idle" /\ item \in attemptToDelete
    /\ attemptToDelete' = attemptToDelete \ {item}
    /\ Deleting(IF \/ ~node.in \/ (node.name # item.name /\ ~node.virtual)
                   \/ (node.beingDeleted /\ ~node.deletingDependents)
                THEN NoDeletion
                ELSE [NoDeletion EXCEPT !.pc = "get", !.item = item])
    /\ UNCHANGED <<apiVars, graph, absentOwnerCache, attemptToOrphan, orphaner, altered>>

\* processDeletingDependentsItem: those that block the deletion are queued.
blockingDependents(u) == {d \in graph[u].dependents : Blocks(graph[d].owners, u)}

GetLatest ==
    LET w == deleter  u == w.item.uid
        blocking == blockingDependents(u)
    IN  /\ w.pc = "get"
        /\ IF u \notin Held(w.item.name)
           THEN VirtualDelete(w.item) /\ Forget
           ELSE /\ UNCHANGED graphChanges
                /\ CASE Node.deletingDependents /\ blocking = {} ->
                            Deleting([w EXCEPT !.pc = "unfinalize"]) /\ UNCHANGED attemptToDelete
                     [] Node.deletingDependents /\ blocking # {} ->
                            /\ Deleting(NoDeletion)
                            /\ attemptToDelete' = attemptToDelete \cup
                                   Ids(graph, {d \in blocking : ~graph[d].deletingDependents})
                     [] ~Node.deletingDependents /\ objs[u].owners = {} -> Settle
                     [] OTHER -> Deleting([w EXCEPT !.pc = "classify", !.read = objs[u],
                                             !.todo = objs[u].owners])
                                 /\ UNCHANGED attemptToDelete
        /\ UNCHANGED <<objs, seen, heirs, graph, absentOwnerCache, attemptToOrphan,
                       orphaner, altered>>

\* isDangling
IsDangling(r) == \/ [uid |-> r.uid, name |-> r.name] \in absentOwnerCache
                 \/ r.uid \notin Held(r.name)
WaitsForDependents(u) == objs[u].deleting /\ "foregroundDeletion" \in objs[u].finalizers
classifyReferences(r) ==
    LET w == [deleter EXCEPT !.todo = @ \ {r}] IN
    /\ w.pc = "classify" /\ r \in deleter.todo
    /\ Deleting(CASE IsDangling(r)            -> [w EXCEPT !.dangling = @ \cup {r}]
                  [] ~IsDangling(r) /\ WaitsForDependents(r.uid) ->
                                                [w EXCEPT !.waiting = @ \cup {r}]
                  [] OTHER                    -> [w EXCEPT !.solid = @ \cup {r}])
    /\ absentOwnerCache' = IF IsDangling(r)
                           THEN absentOwnerCache \cup {[uid |-> r.uid, name |-> r.name]}
                           ELSE absentOwnerCache
    /\ UNCHANGED <<apiVars, graph, attemptToDelete, attemptToOrphan, orphaner, altered>>

\* What attemptToDeleteItem does with the classes.
Decided(w) ==
    LET policy == IF "orphan" \in w.read.finalizers THEN "Orphan"
                  ELSE IF "foregroundDeletion" \in w.read.finalizers THEN "Foreground"
                  ELSE "Background"
    IN  IF w.waiting # {} /\ Node.dependents # {}
        THEN [w EXCEPT !.policy = "Foreground",
                !.pc = IF \E d \in Node.dependents : graph[d].deletingDependents
                       THEN "unblock" ELSE "delete"]
        ELSE [w EXCEPT !.pc = "delete", !.policy = policy]
Decide ==
    LET w == deleter  cut == {r.uid : r \in w.dangling \cup w.waiting} IN
    /\ w.pc = "classify" /\ w.todo = {}
    /\ CASE w.solid # {} /\ cut = {} -> Settle
         [] w.solid # {} /\ cut # {} ->
              Deleting([w EXCEPT !.pc = "patch", !.refs = cut]) /\ UNCHANGED attemptToDelete
         [] OTHER -> Deleting(Decided(w)) /\ UNCHANGED attemptToDelete
    /\ UNCHANGED <<apiVars, graph, absentOwnerCache, attemptToOrphan, orphaner, altered>>

\* patch: the references to certain uids are cut.  Where there is no strategic
\* merge patch, those of the monitor's copy that remain are written instead.
Without(owners, uids) == {r \in owners : r.uid \notin uids}
Cached(u) == IF seen[NameOf[u]].state = "live" THEN seen[NameOf[u]].owners ELSE objs[u].owners
Patched(u, refs) ==
    [objs[u] EXCEPT !.owners = IF u \in Slices THEN Without(Cached(u), refs)
                               ELSE Without(@, refs)]
PatchOwners ==
    LET w == deleter  u == w.item.uid  new == Patched(u, w.refs) IN
    /\ w.pc = "patch"
    /\ IF ~Live(u) THEN Requeue(w) /\ UNCHANGED apiVars
       ELSE Put(u, new) /\ Deleting([w EXCEPT !.pc = "answered", !.cache = new, !.after = "done"])
                        /\ UNCHANGED attemptToDelete
    /\ UNCHANGED <<graph, absentOwnerCache, attemptToOrphan, orphaner, altered>>

\* unblockOwnerReferences and removeFinalizer go by name, whatever has it now.
UnblockOwners ==
    LET w == deleter IN
    /\ w.pc = "unblock"
    /\ IF Held(w.item.name) = {} THEN Deleting([w EXCEPT !.pc = "delete"]) /\ UNCHANGED apiVars
       ELSE \E u \in Held(w.item.name) :
              LET new == [objs[u] EXCEPT !.owners = {[r EXCEPT !.block = FALSE] : r \in @}]
              IN  Put(u, new) /\ Deleting([w EXCEPT !.pc = "answered", !.cache = new,
                                                    !.after = "delete"])
    /\ UNCHANGED <<queues, orphaner, altered>>

RemovesIt(obj, finalizer) == [obj EXCEPT !.finalizers = @ \ {finalizer}]
UnfinalizeOwner ==
    LET w == deleter IN
    /\ w.pc = "unfinalize"
    /\ IF Held(w.item.name) = {} THEN Settle /\ UNCHANGED apiVars
       ELSE \E u \in Held(w.item.name) :
              LET new == RemovesIt(objs[u], "foregroundDeletion")
              IN  Put(u, new) /\ Deleting([w EXCEPT !.pc = "answered", !.cache = new,
                                                    !.after = "done"])
                              /\ UNCHANGED attemptToDelete
    /\ UNCHANGED <<graph, absentOwnerCache, attemptToOrphan, orphaner, altered>>

\* cacheObject: what the request was answered replaces what the monitor has,
\* however late it is.
DeleterAnswered ==
    LET w == deleter IN
    /\ w.pc = "answered"
    /\ seen' = [seen EXCEPT ![w.item.name] = w.cache]
    /\ IF w.after = "delete"
       THEN Deleting([w EXCEPT !.pc = "delete", !.cache = Unborn]) /\ UNCHANGED attemptToDelete
       ELSE Settle
    /\ UNCHANGED <<objs, graphChanges, heirs, graph, absentOwnerCache, attemptToOrphan,
                   orphaner, altered>>

\* deleteObject, at the version read (fresh); when only that has changed, and
\* not the owners, at any version.
DeleteItem ==
    LET w == deleter  u == w.item.uid  there == Held(w.item.name) # {} IN
    /\ w.pc = "delete"
    /\ CASE ~there -> VirtualDelete(w.item) /\ Forget /\ UNCHANGED <<objs, seen, heirs>>
         [] there /\ Live(u) /\ (w.fresh => objs[u] = w.read) -> Delete(u, w.policy) /\ Settle
         [] there /\ Live(u) /\ w.fresh /\ objs[u] # w.read ->
              Deleting([w EXCEPT !.pc = "recheck"]) /\ UNCHANGED <<apiVars, attemptToDelete>>
         [] OTHER -> Requeue(w) /\ UNCHANGED apiVars
    /\ UNCHANGED <<graph, absentOwnerCache, attemptToOrphan, orphaner, altered>>

\* Mutant: a conflict is tried again at any version, whoever owns it now.
AnyOwners(w, u) == Live(u)
SameOwners(w, u) == Live(u) /\ objs[u].owners = w.read.owners
RecheckOwners ==
    LET w == deleter  u == w.item.uid IN
    /\ w.pc = "recheck"
    /\ CASE Held(w.item.name) = {} -> VirtualDelete(w.item) /\ Forget
         [] Held(w.item.name) # {} /\ SameOwners(w, u) ->
              Deleting([w EXCEPT !.pc = "delete", !.fresh = FALSE, !.read = objs[u]])
              /\ UNCHANGED <<graphChanges, attemptToDelete>>
         [] OTHER -> Requeue(w) /\ UNCHANGED graphChanges
    /\ UNCHANGED <<objs, seen, heirs, graph, absentOwnerCache, attemptToOrphan, orphaner, altered>>

(***************************************************************************)
(* attemptToOrphan's worker: all dependents at once, then the finalizer,   *)
(* then the owner.                                                         *)
(***************************************************************************)
DependentsToOrphan(u) == graph[u].dependents
AttemptToOrphan(u) ==
    /\ orphaner.pc = "idle" /\ u \in attemptToOrphan
    /\ attemptToOrphan' = attemptToOrphan \ {u}
    /\ orphaner' = [NoOrphaning EXCEPT !.pc = "orphan", !.owner = u,
                                       !.todo = DependentsToOrphan(u)]
    /\ UNCHANGED <<apiVars, graph, absentOwnerCache, attemptToDelete, deleter, altered>>

OrphanDependent(d) ==
    LET w == [orphaner EXCEPT !.todo = @ \ {d}] IN
    /\ w.pc = "orphan" /\ d \in orphaner.todo
    /\ IF Live(d) THEN Put(d, Patched(d, {w.owner})) ELSE UNCHANGED apiVars
    /\ orphaner' = [w EXCEPT !.failed = @ \/ (~Live(d) /\ Held(NameOf[d]) # {})]
    /\ UNCHANGED <<queues, deleter, altered>>

OrphanAgain == orphaner' = NoOrphaning /\ attemptToOrphan' = attemptToOrphan \cup {orphaner.owner}

\* The finalizer is removed, the owner too if that was the last of them.
Orphaned ==
    LET w == orphaner  n == NameOf[w.owner] IN
    /\ w.pc = "orphan" /\ w.todo = {}
    /\ CASE w.failed -> OrphanAgain /\ UNCHANGED apiVars
         [] ~w.failed /\ Held(n) = {} ->
              orphaner' = [w EXCEPT !.pc = "delete"] /\ UNCHANGED <<apiVars, attemptToOrphan>>
         [] OTHER -> \E u \in Held(n) :
              LET new == RemovesIt(objs[u], "orphan")
              IN  /\ Put(u, new)
                  /\ orphaner' = [w EXCEPT !.pc = "answered", !.cache = new]
                  /\ UNCHANGED attemptToOrphan
    /\ UNCHANGED <<graph, absentOwnerCache, attemptToDelete, deleter, altered>>
OrphanerAnswered ==
    /\ orphaner.pc = "answered"
    /\ seen' = [seen EXCEPT ![NameOf[orphaner.owner]] = orphaner.cache]
    /\ orphaner' = [orphaner EXCEPT !.pc = "delete", !.cache = Unborn]
    /\ UNCHANGED <<objs, graphChanges, heirs, queues, deleter, altered>>

\* An owner that is gone already is an error, and tried again.
DeleteOrphaned ==
    /\ orphaner.pc = "delete"
    /\ IF Live(orphaner.owner)
       THEN Delete(orphaner.owner, "Background") /\ orphaner' = NoOrphaning
            /\ UNCHANGED attemptToOrphan
       ELSE OrphanAgain /\ UNCHANGED apiVars
    /\ UNCHANGED <<graph, absentOwnerCache, attemptToDelete, deleter, altered>>

-----------------------------------------------------------------------------
DeleterStep ==
    \/ \E item \in attemptToDelete : AttemptToDelete(item)
    \/ GetLatest \/ (\E r \in deleter.todo : classifyReferences(r)) \/ Decide
    \/ PatchOwners \/ UnblockOwners \/ UnfinalizeOwner \/ DeleterAnswered
    \/ DeleteItem \/ RecheckOwners
OrphanerStep ==
    \/ \E u \in attemptToOrphan : AttemptToOrphan(u)
    \/ (\E d \in orphaner.todo : OrphanDependent(d))
    \/ Orphaned \/ OrphanerAnswered \/ DeleteOrphaned

GCNext ==
    \/ \E u \in Uids : CreateObject(u) \/ DeleteObject(u) \/ ChangeOwners(u)
    \/ ProcessGraphChanges \/ DeleterStep \/ OrphanerStep

-----------------------------------------------------------------------------
(***************************************************************************)
(* Properties.                                                             *)
(***************************************************************************)
Solid(r) == r.uid \in Held(r.name) /\ ~WaitsForDependents(r.uid)

\* attemptToDeleteItem, isDangling: what the deleter deletes had, when it was
\* last read, no owner that exists and stays.  An owner that is found absent
\* is remembered, and no other takes its uid.
OwnedStay ==
    \A u \in Uids :
        /\ deleter.pc = "delete" /\ Live(u)
        /\ (~Live(u)' \/ (objs'[u].deleting /\ ~objs[u].deleting))
        /\ altered' = altered /\ orphaner' = orphaner
        => \A r \in deleter.read.owners : ~Solid(r)

\* processDeletingDependentsItem, removeFinalizer: an owner that is deleted in
\* the foreground goes after its heirs, if they block.  Said of the item at hand,
\* here and below: another that has its name by then may go before its heirs.
ForegroundWaits ==
    \A u \in Uids :
        /\ deleter.pc = "unfinalize" /\ u = deleter.item.uid /\ Live(u) /\ ~Live(u)'
        /\ altered' = altered /\ orphaner' = orphaner
        => \A d \in heirs[u] : Live(d) => ~Blocks(objs[d].owners, u)

\* orphanDependents: the heirs of the owner at hand lose the reference before it
\* goes.
OrphansAreLetGo ==
    \A u \in Uids :
        /\ orphaner # orphaner' /\ u = orphaner.owner /\ Live(u) /\ ~Live(u)'
        => \A d \in heirs[u] : Live(d) => ~RefersTo(objs[d].owners, u)

\* All of these of every step.
CollectsRightly == OwnedStay /\ ForegroundWaits /\ OrphansAreLetGo
GarbageSteps == [][CollectsRightly]_gcVars

\* The loops of the builder and of the workers end only with the program, and
\* requests are answered.
GCFairness == WF_gcVars(ProcessGraphChanges) /\ WF_gcVars(DeleterStep) /\ WF_gcVars(OrphanerStep)
GCSpec == GCInit /\ [][GCNext]_gcVars /\ GCFairness

\* In the end nothing is left that is deleted and waits for its dependents, or
\* that has owners none of which is there.
NoGarbage ==
    \A u \in Uids :
        Live(u) => /\ ~objs[u].deleting
                   /\ objs[u].owners = {} \/ \E r \in objs[u].owners : Solid(r)
GarbageGoes == <>[]NoGarbage
=============================================================================

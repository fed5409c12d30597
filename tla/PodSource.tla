----------------------------- MODULE PodSource -----------------------------
(***************************************************************************)
(* How a kubelet learns of the pods bound to its node: the reflector lists *)
(* and watches them into an UndeltaStore, which pushes its whole content   *)
(* at every change; the mux merges each push with what it knew and sends   *)
(* the difference as operations on PodConfig's channel; the sync loop      *)
(* takes one operation at a time to the pod manager and the pod workers    *)
(* (PodWorkers.tla).  The API server is reduced to its pods and the log    *)
(* of their changes, whose indexes are the resource versions; both know    *)
(* pods that are not bound to the node, and the selector leaves them out.  *)
(*                                                                         *)
(* There is one source, "api", as in makePodSourceConfig; no static or     *)
(* mirror pods, which nothing in the simulator creates.                    *)
(***************************************************************************)
EXTENDS Integers, Sequences, FiniteSets

CONSTANTS
    PodNames,      \* the names of pods, which are the keys of the store
    MaxUids,       \* bound: pods ever created
    MaxChanges,    \* bound: changes of the pods' spec, status and deletion
    MaxFaults,     \* bound: failed lists and watches, watches that end
    MaxCompacted,  \* bound: the revisions the server compacts
    ResultSize,    \* PodWatch.result: its buffer, 100 in the code
    UpdatesSize    \* PodConfig.updateChannel: its buffer, 50 in the code

VARIABLES
    server,     \* the API server: pods by name, the log of their changes, compacted
    reflector,  \* what runWithContext is doing, lastResourceVersion, the watch
    store,      \* the UndeltaStore: pods by key
    storage,    \* PodStorage: the pods last merged, by uid, and sourcesSeen; operations to send
    updates,    \* the channel of operations
    manager,    \* PodManager: podByUid and podByFullName; sourcesReady has seen "api"
    told        \* what the pod workers were told of each pod
sourceVars == <<server, reflector, store, storage, updates, manager, told>>

Uids  == 1..MaxUids
NoPod == [uid |-> 0, bound |-> FALSE]
NoPods  == [n \in PodNames |-> NoPod]
Pods(f)    == {f[k] : k \in DOMAIN f} \ {NoPod}
Latest     == Len(server.log)

(* The field selector spec.nodeName=<the node>, of lists and of watches: a  *)
(* pod is bound once and stays bound.                                       *)
OnNode(pods)  == [n \in PodNames |-> IF pods[n].bound THEN pods[n] ELSE NoPod]

SourceInit ==
    /\ server = [pods |-> NoPods, log |-> <<>>, compacted |-> 0, created |-> 0, changes |-> 0]
    /\ reflector = [pc |-> "list", rv |-> 0, next |-> "list", items |-> NoPods, answered |-> 0,
                    pos |-> 0, end |-> 0, open |-> FALSE, got |-> FALSE, faults |-> 0]
    /\ store = NoPods
    /\ storage = [pods |-> [u \in Uids |-> NoPod], seen |-> FALSE, ops |-> <<>>, first |-> {}]
    /\ updates = <<>>
    /\ manager = [byUid |-> [u \in Uids |-> NoPod], byName |-> [n \in PodNames |-> 0], ready |-> FALSE]
    /\ told = [u \in Uids |-> [state |-> "none", spec |-> 0, deleting |-> FALSE]]

----------------------------------------------------------------------------
(* The API server: users, controllers and the kubelet's own status.         *)

Logs(n, pod, s) ==
    /\ server' = [s EXCEPT !.pods[n] = pod,
                           !.log = Append(@, [name |-> n, pod |-> pod,
                                              matches |-> pod.bound \/ s.pods[n].bound])]
    /\ UNCHANGED <<reflector, store, storage, updates, manager, told>>

CreatePod(n) ==
    /\ server.pods[n] = NoPod /\ server.created < MaxUids
    /\ Logs(n, [uid |-> server.created + 1, name |-> n, bound |-> FALSE, spec |-> 0, status |-> 0,
                deleting |-> FALSE], [server EXCEPT !.created = @ + 1])
BindPod(n) ==
    LET pod == server.pods[n]
    IN  pod # NoPod /\ ~pod.bound /\ ~pod.deleting /\ Logs(n, [pod EXCEPT !.bound = TRUE], server)
ChangePod(n) ==
    LET pod == server.pods[n]
        Changes(new) == Logs(n, new, [server EXCEPT !.changes = @ + 1])
    IN  /\ pod # NoPod /\ server.changes < MaxChanges
        /\ \/ Changes([pod EXCEPT !.spec = @ + 1])
           \/ Changes([pod EXCEPT !.status = @ + 1])
           \/ ~pod.deleting /\ Changes([pod EXCEPT !.deleting = TRUE])
RemovePod(n) ==
    server.pods[n] # NoPod /\ Logs(n, NoPod, server)
CompactLog ==
    /\ server.compacted < MaxCompacted /\ server.compacted < Latest
    /\ server' = [server EXCEPT !.compacted = @ + 1]
    /\ UNCHANGED <<reflector, store, storage, updates, manager, told>>

----------------------------------------------------------------------------
(* The reflector                                                            *)

Reflects(r) == reflector' = r /\ UNCHANGED <<server, storage, updates, manager, told>>
Faulty == reflector.faults < MaxFaults
\* the outer loop of runWithContext starts over, after its backoff
Again(r) == [r EXCEPT !.pc = "list", !.open = FALSE]

(* list: the server answers with its pods and their resource version.  The  *)
(* version asked for is no bound from above (resourceVersionMatch is unset). *)
ListPods ==
    /\ reflector.pc = "list"
    /\ Reflects([reflector EXCEPT !.pc = "listed", !.items = OnNode(server.pods),
                                  !.answered = Latest])
    /\ UNCHANGED store
ListErrs ==
    /\ reflector.pc = "list" /\ Faulty
    /\ Reflects([reflector EXCEPT !.faults = @ + 1])
    /\ UNCHANGED store

(* Every change of the UndeltaStore ends in a push of all it holds.         *)
Pushes(s, r, next) ==
    /\ store' = s
    /\ Reflects([r EXCEPT !.pc = "push", !.next = next])

(* The answer arrives: the store is replaced; the version is noted once the *)
(* push is taken.                                                           *)
ReplaceStore ==
    /\ reflector.pc = "listed"
    /\ Pushes(reflector.items, reflector, "watch")

(* watch: from the version noted.  A compacted version ends the watch before *)
(* any event and within a second (VeryShortWatchError).                     *)
StartWatch ==
    /\ reflector.pc = "watch"
    /\ \/ /\ reflector.rv + 1 > server.compacted
          /\ Reflects([reflector EXCEPT !.pc = "watching", !.open = TRUE, !.got = FALSE,
                                        !.pos = reflector.rv])
       \/ /\ reflector.rv + 1 <= server.compacted
          /\ Reflects(Again(reflector))
    /\ UNCHANGED store
WatchFails ==
    /\ reflector.pc = "watch" /\ Faulty
    /\ Reflects(Again([reflector EXCEPT !.faults = @ + 1]))
    /\ UNCHANGED store

(* The events of the watch that the reflector has not taken: those that     *)
(* match the selector, up to where the watch was closed.                    *)
Unread(upTo) == {i \in reflector.pos + 1 .. upTo : server.log[i].matches}
Received == IF reflector.open THEN Unread(Latest) ELSE Unread(reflector.end)

(* The store's add, update or delete: by the name of the event's pod.       *)
Stored(s, event) == [s EXCEPT ![event.name] = event.pod]

(* handleAnyWatch takes the next event.                                     *)
TakeEvent ==
    /\ reflector.pc = "watching" /\ Received # {}
    /\ LET i == CHOOSE k \in Received : \A j \in Received : k <= j
       IN  Pushes(Stored(store, server.log[i]),
                  [reflector EXCEPT !.got = TRUE, !.pos = i, !.answered = i], "watching")

(* The server ends the watch: PodWatch closes its channel.  What is in the  *)
(* buffer can still be received; sends that wait for room are rejected.     *)
EndWatch ==
    /\ reflector.open /\ Faulty
    /\ \E end \in reflector.pos .. Latest :
          /\ Cardinality(Unread(end)) <= ResultSize
          /\ \A later \in end + 1 .. Latest : Cardinality(Unread(later)) > ResultSize
          /\ Reflects([reflector EXCEPT !.open = FALSE, !.faults = @ + 1, !.end = end])
    /\ UNCHANGED store

(* The channel is closed and empty: after a watch of less than a second     *)
(* without events the reflector lists again, else it watches again.         *)
WatchEnded ==
    /\ reflector.pc = "watching" /\ ~reflector.open /\ Received = {}
    /\ \/ Reflects([reflector EXCEPT !.pc = "watch"])
       \/ ~reflector.got /\ Reflects(Again(reflector))
    /\ UNCHANGED store

----------------------------------------------------------------------------
(* PodStorage.merge                                                         *)

(* checkAndUpdatePod: which operation a pod known before is due.            *)
Differs(old, new) == <<old.spec, old.deleting>> # <<new.spec, new.deleting>>
OpOf(old, new) ==
    CASE old = NoPod                            -> "ADD"
      [] old # NoPod /\ Differs(old, new)       -> IF new.deleting THEN "DELETE" ELSE "UPDATE"
      [] old # NoPod /\ ~Differs(old, new)
         /\ old.status # new.status             -> "RECONCILE"
      [] OTHER                                  -> "NONE"

(* The pods of a push that are due an operation; to remove are the pods of  *)
(* before that it no longer has.                                            *)
PodOf(pods, u) == IF \E p \in pods : p.uid = u THEN CHOOSE p \in pods : p.uid = u ELSE NoPod
Due(old, pushed, op) ==
    IF op = "REMOVE" THEN {old[u] : u \in {v \in Uids : old[v] # NoPod /\ PodOf(pushed, v) = NoPod}}
    ELSE {p \in pushed : OpOf(old[p.uid], p) = op}

(* The operations of a push, in the order merge sends them; a first push    *)
(* without pods is sent as an empty ADD.                                    *)
Sends(old, pushed, seen, op) ==
    IF \/ Due(old, pushed, op) # {}
       \/ /\ op = "EMPTY" /\ ~seen
          /\ \A other \in {"ADD", "UPDATE", "DELETE"} : Due(old, pushed, other) = {}
    THEN <<[op |-> op, pods |-> Due(old, pushed, op)]>> ELSE <<>>
Operations(old, pushed, seen) ==
    LET Of(op) == Sends(old, pushed, seen, op)
    IN  Of("REMOVE") \o Of("ADD") \o Of("UPDATE") \o Of("DELETE") \o Of("EMPTY") \o Of("RECONCILE")

Merged(pushed) ==
    [pods  |-> [u \in Uids |-> PodOf(pushed, u)],
     seen  |-> TRUE,
     ops   |-> Operations(storage.pods, pushed, storage.seen),
     first |-> IF storage.seen THEN storage.first ELSE {p.uid : p \in pushed}]

TakePushUnnoted ==    \* mutant: a list's version isn't noted
    /\ reflector.pc = "push" /\ storage.ops = <<>>
    /\ storage' = Merged(Pods(store))
    /\ reflector' = [reflector EXCEPT !.pc = reflector.next,
                                      !.rv = IF reflector.next = "watch" THEN @ ELSE reflector.answered]
    /\ UNCHANGED <<server, store, updates, manager, told>>

(* The push is taken: the channel has no buffer and the mux takes no push   *)
(* before it has sent the operations of the last.  The reflector goes on    *)
(* and notes the version.                                                   *)
TakePush ==
    /\ reflector.pc = "push" /\ storage.ops = <<>>
    /\ storage' = Merged(Pods(store))
    /\ reflector' = [reflector EXCEPT !.pc = reflector.next, !.rv = reflector.answered]
    /\ UNCHANGED <<server, store, updates, manager, told>>

SendUpdate ==
    /\ storage.ops # <<>> /\ Len(updates) < UpdatesSize
    /\ updates' = Append(updates, Head(storage.ops))
    /\ storage' = [storage EXCEPT !.ops = Tail(@)]
    /\ UNCHANGED <<server, reflector, store, manager, told>>

----------------------------------------------------------------------------
(* The sync loop takes an operation.                                        *)

SeenAllSources(seen) == seen /\ storage.seen

AddTo(m, pods) ==
    [m EXCEPT !.byUid = [u \in Uids |-> IF \E p \in pods : p.uid = u
                                        THEN CHOOSE p \in pods : p.uid = u ELSE @[u]],
              !.byName = [n \in PodNames |-> IF \E p \in pods : p.name = n
                                             THEN (CHOOSE p \in pods : p.name = n).uid ELSE @[n]]]
RemoveFrom(m, pods) ==
    [m EXCEPT !.byUid = [u \in Uids |-> IF \E p \in pods : p.uid = u THEN NoPod ELSE @[u]],
              !.byName = [n \in PodNames |-> IF \E p \in pods : p.name = n THEN 0 ELSE @[n]]]

(* The pod workers are told to run pods, and to kill pods, which deletePod  *)
(* refuses before the sources are ready.                                    *)
Tell(pods) ==
    [u \in Uids |-> IF \E p \in pods : p.uid = u
                    THEN LET pod == CHOOSE p \in pods : p.uid = u
                         IN  [state |-> "running", spec |-> pod.spec, deleting |-> pod.deleting]
                    ELSE told[u]]

Kill(pods) ==
    [u \in Uids |-> IF SeenAllSources(manager.ready) /\ \E p \in pods : p.uid = u
                    THEN [told[u] EXCEPT !.state = "killed"] ELSE told[u]]

(* handlePodAdditions, handlePodUpdates (also for DELETE), handlePodRemoves *)
(* and handlePodReconcile, which tells the workers only of a readiness gate *)
(* that changed; then the source is ready.                                  *)
HandleUpdate ==
    /\ updates # <<>>
    /\ LET update == Head(updates)
           Becomes(m) == manager' = [m EXCEPT !.ready = TRUE]
       IN  \/ /\ update.op \in {"ADD", "UPDATE", "DELETE", "EMPTY"}
              /\ Becomes(AddTo(manager, update.pods))
              /\ told' = Tell(update.pods)
           \/ /\ update.op = "REMOVE"
              /\ Becomes(RemoveFrom(manager, update.pods))
              /\ told' = Kill(update.pods)
           \/ /\ update.op = "RECONCILE"
              /\ Becomes(AddTo(manager, update.pods))
              /\ UNCHANGED told
    /\ updates' = Tail(updates)
    /\ UNCHANGED <<server, reflector, store, storage>>

----------------------------------------------------------------------------
Reflect == \/ ListPods \/ ReplaceStore \/ StartWatch \/ TakeEvent \/ WatchEnded \/ TakePush
SourceNext ==
    \/ \E n \in PodNames : CreatePod(n) \/ BindPod(n) \/ ChangePod(n) \/ RemovePod(n)
    \/ CompactLog
    \/ Reflect
    \/ ListErrs \/ WatchFails \/ EndWatch
    \/ SendUpdate
    \/ HandleUpdate
SourceSpec == SourceInit /\ [][SourceNext]_sourceVars

(* The loops of the reflector, the mux and the kubelet go on by themselves; *)
(* the API server owes nothing.                                             *)
SourceFairness ==
    /\ WF_sourceVars(Reflect) /\ WF_sourceVars(SendUpdate) /\ WF_sourceVars(HandleUpdate)

----------------------------------------------------------------------------
(* Properties *)

(* When the watch is current and nothing is under way, the pod manager and  *)
(* its index of names hold the API server's pods, each as it is there, and  *)
(* the workers were told the spec and deletion of each.                     *)
Quiet == /\ reflector.pc = "watching" /\ Unread(Latest) = {}
         /\ storage.ops = <<>> /\ updates = <<>>
Current == /\ Pods(manager.byUid) = Pods(OnNode(server.pods))
           /\ \A n \in PodNames : manager.byName[n] = OnNode(server.pods)[n].uid
           /\ \A u \in Uids : LET pod == manager.byUid[u]
                              IN  IF pod = NoPod THEN told[u].state # "running"
                                  ELSE told[u] = [state |-> "running", spec |-> pod.spec,
                                                  deleting |-> pod.deleting]
QuietIsKnown == Quiet => Current

(* The workers never run two pods of one name, and once the sources are     *)
(* ready - from then on housekeeping removes what the manager does not      *)
(* know, and kills are not refused - every pod of the first list was told.  *)
RunsOneOfAName ==
    \A u, v \in Uids : LET p == manager.byUid[u] q == manager.byUid[v]
                       IN  p # NoPod /\ q # NoPod /\ p.name = q.name => u = v
ReadyMeansKnown == SeenAllSources(manager.ready) => \A u \in storage.first : told[u].state # "none"
SourceIsSound == RunsOneOfAName /\ ReadyMeansKnown /\ QuietIsKnown

(* What the workers are told of a pod never gets older, through lost        *)
(* watches, compactions and new lists, and a pod removed is never told of   *)
(* again.                                                                   *)
GetsNoOlder ==
    \A u \in Uids :
        /\ told[u].state = "killed" => told'[u] = told[u]
        /\ told[u].state = "running" => /\ told'[u].spec >= told[u].spec
                                        /\ told[u].deleting => told'[u].deleting
NeverOlder == [][GetsNoOlder]_sourceVars

(* Once the pods change no more the kubelet comes to know them as they are, *)
(* whatever lists and watches failed.                                       *)
KubeletCatchesUp == <>[]Current
=============================================================================

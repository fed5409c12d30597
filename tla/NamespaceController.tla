------------------------- MODULE NamespaceController -------------------------
(***************************************************************************)
(* The namespace controller (cluster/images/namespace-controller.ts): it   *)
(* queues the namespaces it sees terminating, and its worker deletes what  *)
(* they hold, kind after kind, takes the finalizer away and deletes them.  *)
(* Around it: users who create, change and delete namespaces, creates that *)
(* check their namespace first and commit later, and finalizers that keep  *)
(* an object, or the namespace itself, until their owners let go.          *)
(*                                                                         *)
(* Each API request is one step.  A namespace holds at most one object of  *)
(* each kind.  Left out: the end of the process.                           *)
(***************************************************************************)
EXTENDS Integers, Sequences

CONSTANTS
    Names,      \* namespaces
    KindCount,  \* the kinds deleteAllContent goes through (6 in the code)
    Capacity,   \* of the queue (100)
    Attempts,   \* of retryConflicts (5)
    MaxChanges  \* bound: what users do

NamespaceAssumption == Names # {} /\ KindCount \in Nat \ {0} /\ Attempts \in Nat

Kinds == 1 .. KindCount

VARIABLES
    ns,        \* the namespaces: phase, who still finalizes them, and whether
               \* a user's finalizer was the last to go
    content,   \* the object of each kind
    creating,  \* creates that found their namespace and have not committed
    late,      \* objects created since the worker last listed their kind
    news,      \* events of terminating namespaces the informer has to deliver
    queue,     \* the channel: Capacity values and, behind them, senders that wait
    queued,    \* the set beside it
    worker, changes

nsVars == <<ns, content, creating, late, news, queue, queued, worker, changes>>
nsQueueVars == <<queue, queued>>

NoNamespace == [phase |-> "absent", fins |-> {}, stranded |-> FALSE]
AtRest == [pc |-> "idle", name |-> CHOOSE n \in Names : TRUE, kind |-> 1, found |-> FALSE,
           remaining |-> FALSE, tries |-> 0, stale |-> FALSE]

NamespaceInit ==
    /\ ns = [n \in Names |-> [NoNamespace EXCEPT !.phase = "active",
                                              !.fins = {"kubernetes"}]]
    /\ content = [n \in Names |-> [k \in Kinds |-> "none"]]
    /\ creating = {} /\ late = {}
    /\ news = [n \in Names |-> 0]
    /\ queue = <<>> /\ queued = {}
    /\ worker = AtRest /\ changes = 0

Exists(n) == ns[n].phase # "absent"
Terminating(n) == ns[n].phase = "terminating"

\* A write of a namespace: an event, and whoever read it before holds an old
\* version.
WriteNamespace(n, new) ==
    /\ ns' = [ns EXCEPT ![n] = new]
    /\ news' = IF new.phase = "terminating" THEN [news EXCEPT ![n] = @ + 1] ELSE news

Overtakes(n) == [worker EXCEPT !.stale = @ \/ worker.name = n]

----------------------------------------------------------------------------
(* Users and other controllers *)

Changes == changes < MaxChanges /\ changes' = changes + 1

CreateNamespace(n) ==
    /\ ~Exists(n)
    /\ \E fins \in {{"kubernetes"}, {"kubernetes", "user"}} :
         WriteNamespace(n, [NoNamespace EXCEPT !.phase = "active", !.fins = fins])
    /\ worker' = Overtakes(n) /\ Changes
    /\ UNCHANGED <<content, creating, late, nsQueueVars>>

\* deleteNamespace: the first marks it, one that finds no finalizers removes it.
DeleteNamespace(n) ==
    /\ \/ ns[n].phase = "active" /\ WriteNamespace(n, [ns[n] EXCEPT !.phase = "terminating"])
       \/ Terminating(n) /\ ns[n].fins = {} /\ WriteNamespace(n, NoNamespace)
    /\ worker' = Overtakes(n) /\ Changes
    /\ UNCHANGED <<content, creating, late, nsQueueVars>>

\* patchNamespace or replaceNamespace: labels, or a finalizer of a user's own
PatchNamespace(n) ==
    /\ Exists(n)
    /\ \E fins \in {ns[n].fins, ns[n].fins \ {"user"}} :
         WriteNamespace(n, [ns[n] EXCEPT !.fins = fins,
                                         !.stranded = @ \/ (fins = {} /\ fins # ns[n].fins)])
    /\ worker' = Overtakes(n) /\ Changes
    /\ UNCHANGED <<content, creating, late, nsQueueVars>>

\* namespaceExists: it is there and not terminating.
BeginCreate(n, k) ==
    /\ ns[n].phase = "active" /\ <<n, k>> \notin creating
    /\ creating' = creating \cup {<<n, k>>} /\ Changes
    /\ UNCHANGED <<ns, content, late, news, nsQueueVars, worker>>

CommitCreate(n, k) ==
    /\ <<n, k>> \in creating
    /\ creating' = creating \ {<<n, k>>}
    /\ IF content[n][k] = "none"
       THEN \E s \in {"there", "held"} :
              /\ content' = [content EXCEPT ![n][k] = s]
              /\ late' = late \cup {<<n, k>>}
       ELSE UNCHANGED <<content, late>>
    /\ UNCHANGED <<ns, news, nsQueueVars, worker, changes>>

\* The owner of an object's finalizer lets go.
Release(n, k) ==
    /\ content[n][k] = "going"
    /\ content' = [content EXCEPT ![n][k] = "none"]
    /\ UNCHANGED <<ns, creating, late, news, nsQueueVars, worker, changes>>

----------------------------------------------------------------------------
(* The queue *)

\* handleNamespace
handleNamespace(n) ==
    /\ news[n] > 0
    /\ news' = [news EXCEPT ![n] = @ - 1]
    /\ IF n \in queued THEN UNCHANGED nsQueueVars
       ELSE queued' = queued \cup {n} /\ queue' = Append(queue, n)
    /\ UNCHANGED <<ns, content, creating, late, worker, changes>>

Take ==
    /\ worker.pc = "idle" /\ queue # <<>>
    /\ queue' = Tail(queue) /\ queued' = queued \ {Head(queue)}
    /\ worker' = [AtRest EXCEPT !.pc = "read", !.name = Head(queue)]
    /\ UNCHANGED <<ns, content, creating, late, news, changes>>

----------------------------------------------------------------------------
(* syncNamespace *)

Name == worker.name
Goes(pc) == worker' = [worker EXCEPT !.pc = pc]
WorkerOnly == UNCHANGED <<ns, content, creating, late, news, nsQueueVars, changes>>

ReadNamespace ==
    /\ worker.pc = "read"
    /\ Goes(IF Terminating(Name) /\ ns[Name].fins # {} THEN "list" ELSE "idle")
    /\ WorkerOnly

\* deleteAllContentForResource: list, delete what was listed, list again.
List ==
    /\ worker.pc = "list"
    /\ worker' = [worker EXCEPT !.pc = "delete", !.found = content[Name][worker.kind] # "none"]
    /\ WorkerOnly

\* One that was not listed is left alone, one that is gone ignored.
DeleteListed ==
    /\ worker.pc = "delete"
    /\ content' = [content EXCEPT ![Name][worker.kind] =
                     IF ~worker.found \/ @ \in {"none", "there"}
                     THEN IF worker.found THEN "none" ELSE @
                     ELSE "going"]
    /\ Goes("check")
    /\ UNCHANGED <<ns, creating, late, news, nsQueueVars, changes>>

\* Deleting may fail: five conflicts in a row.
DeleteFails ==
    /\ worker.pc = "delete" /\ worker.found /\ content[Name][worker.kind] \in {"held", "going"}
    /\ Changes /\ Goes("sleep")
    /\ UNCHANGED <<ns, content, creating, late, news, nsQueueVars>>

\* Mutant: only the last kind decides whether content remains.
StillThereLast(remaining, k) == content[Name][k] # "none"
StillThere(remaining, k) == remaining \/ content[Name][k] # "none"

\* A namespace with content left is an error.
Check ==
    /\ worker.pc = "check"
    /\ LET remaining == StillThere(worker.remaining, worker.kind) IN
       worker' = IF worker.kind < KindCount
                 THEN [worker EXCEPT !.pc = "list", !.kind = @ + 1, !.remaining = remaining]
                 ELSE [worker EXCEPT !.pc = IF remaining THEN "sleep" ELSE "reread",
                                     !.remaining = remaining, !.tries = Attempts]
    /\ late' = late \ {<<Name, worker.kind>>}
    /\ UNCHANGED <<ns, content, creating, news, nsQueueVars, changes>>

Reread ==
    /\ worker.pc = "reread"
    /\ worker' = [worker EXCEPT !.pc = IF Terminating(Name) THEN "replace" ELSE "idle",
                                !.stale = FALSE]
    /\ WorkerOnly

\* replaceNamespace of the copy without the finalizer
Replace ==
    /\ worker.pc = "replace" /\ Exists(Name) /\ ~worker.stale
    /\ WriteNamespace(Name, [ns[Name] EXCEPT !.fins = @ \ {"kubernetes"}])
    /\ Goes("finalize")
    /\ UNCHANGED <<content, creating, late, nsQueueVars, changes>>

ReplaceFails ==
    /\ worker.pc = "replace" /\ (~Exists(Name) \/ worker.stale)
    /\ worker' = IF Exists(Name) /\ worker.tries > 1
                 THEN [worker EXCEPT !.pc = "reread", !.tries = @ - 1]
                 ELSE [worker EXCEPT !.pc = "sleep"]
    /\ WorkerOnly

\* deleteNamespace reads the namespace; what it decides on is what it read, and
\* a namespace that was created anew would be marked.
FinalizeRead ==
    /\ worker.pc = "finalize"
    /\ worker' = [worker EXCEPT
                    !.pc = IF ~Exists(Name) THEN "sleep"
                           ELSE IF ~Terminating(Name) THEN "mark"
                           ELSE IF ns[Name].fins = {} THEN "remove" ELSE "idle",
                    !.stale = FALSE]
    /\ WorkerOnly

Mark ==
    /\ worker.pc = "mark"
    /\ IF worker.stale THEN UNCHANGED <<ns, news>> /\ Goes(IF Exists(Name) THEN "finalize" ELSE "sleep")
       ELSE WriteNamespace(Name, [ns[Name] EXCEPT !.phase = "terminating"]) /\ Goes("idle")
    /\ UNCHANGED <<content, creating, late, nsQueueVars, changes>>

\* Store.delete removes what it finds under the name.
RemoveNamespace ==
    /\ worker.pc = "remove"
    /\ IF Exists(Name) THEN WriteNamespace(Name, NoNamespace) ELSE UNCHANGED <<ns, news>>
    /\ Goes("idle")
    /\ UNCHANGED <<content, creating, late, nsQueueVars, changes>>

\* After a second the name is queued again, whether or not it already is.
Wake ==
    /\ worker.pc = "sleep"
    /\ queued' = queued \cup {Name}
    /\ IF Len(queue) < Capacity THEN queue' = Append(queue, Name) /\ Goes("idle")
       ELSE Goes("blocked") /\ UNCHANGED queue
    /\ UNCHANGED <<ns, content, creating, late, news, changes>>

----------------------------------------------------------------------------
Syncs ==
    \/ Take \/ ReadNamespace \/ List \/ DeleteListed \/ Check \/ Reread \/ Replace \/ ReplaceFails
    \/ FinalizeRead \/ Mark \/ RemoveNamespace \/ Wake

NamespaceNext ==
    \/ Syncs \/ DeleteFails
    \/ \E n \in Names :
         \/ CreateNamespace(n) \/ DeleteNamespace(n) \/ PatchNamespace(n) \/ handleNamespace(n)
         \/ \E k \in Kinds : BeginCreate(n, k) \/ CommitCreate(n, k) \/ Release(n, k)

NamespaceFairness ==
    /\ WF_nsVars(Syncs \/ DeleteFails)
    /\ \A n \in Names : WF_nsVars(handleNamespace(n))

NamespaceSpec == NamespaceInit /\ [][NamespaceNext]_nsVars /\ NamespaceFairness

----------------------------------------------------------------------------
\* When the controller takes its finalizer away nothing is left in the namespace
\* but what was created after it had looked (deleteAllContent, syncNamespace).
FinalizesEmpty ==
    \A n \in Names :
        "kubernetes" \in ns[n].fins /\ Exists(n)' /\ "kubernetes" \notin ns'[n].fins =>
            \A k \in Kinds : content[n][k] = "none" \/ <<n, k>> \in late
FinalizedWhenEmpty == [][FinalizesEmpty]_nsVars

\* A terminating namespace goes in the end, unless a finalizer keeps it or an
\* object in it for ever, or a user's finalizer was the last to go: the worker
\* leaves a namespace without finalizers to whoever emptied it (syncNamespace).
MayStay(n) ==
    \/ ~Terminating(n) \/ "user" \in ns[n].fins \/ ns[n].stranded
    \/ \E k \in Kinds : content[n][k] = "going"
NamespacesGo == \A n \in Names : []<>MayStay(n)
=============================================================================

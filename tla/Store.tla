------------------------------- MODULE Store -------------------------------
(***************************************************************************)
(* One object of the API server: Store (cluster/storage/store.ts) over     *)
(* etcd, and the handlers in front of it: create, the read-modify-write    *)
(* edits (patch, replace, status), and deleteResource with finalizers,     *)
(* grace periods and preconditions (client/gen/apis/impls).                *)
(*                                                                         *)
(* Each etcd request is one step; everything between two awaits belongs to *)
(* the step before it.  Keys do not interact, so one key is modelled.      *)
(***************************************************************************)
EXTENDS Integers, FiniteSets

CONSTANTS
    Callers,    \* concurrent API requests (one at a time each)
    MaxRev,     \* bound: etcd revisions in a behaviour
    Attempts,   \* retryConflicts' attempts (5 in the code)
    Tries,      \* the attempts requests start with: Attempts, or 1 without a retry
    AskedPolicies,  \* the propagation policies that requests ask for
    Graces,     \* the grace periods, in seconds, that requests ask for
    Preconditions   \* what deletes may name: uid, mod, or both

ASSUME StoreAssumption ==
    /\ MaxRev \in Nat /\ Attempts \in Nat \ {0} /\ Graces \subseteq Nat
    /\ Tries \subseteq 1 .. Attempts
    /\ Preconditions \subseteq {"uid", "mod"}
    /\ AskedPolicies \subseteq {"Default", "Background", "Foreground", "Orphan"}
    /\ "foregroundDeletion" \notin Callers /\ "orphan" \notin Callers

(* An undefined field.  Graces are compared with <= 0 after `?? 0`, which   *)
(* a negative number answers the same way.                                  *)
Unset == -1

(* Finalizers: each caller has one of its own, and the garbage collector's  *)
(* two belong to nobody in particular.                                      *)
Dependents == {"foregroundDeletion", "orphan"}
Finalizers == Callers \cup Dependents

Objects == [uid : Nat, mod : Nat, deleting : BOOLEAN,
            grace : Graces \cup {Unset}, fins : SUBSET Finalizers]
Absent  == [uid |-> 0, mod |-> 0, deleting |-> FALSE, grace |-> Unset, fins |-> {}]

(* What a request asks.  A mod or uid of 0 is no precondition; policy       *)
(* Unset lets the object's finalizers choose.                               *)
Requests ==
    [verb : {"create", "edit", "delete"}, add : SUBSET Finalizers,
     remove : SUBSET Finalizers, grace : Graces \cup {Unset},
     policy : AskedPolicies \cup {"Default"}, uid : Nat, mod : Nat, tries : 0 .. Attempts]
NoRequest == [verb |-> "edit", add |-> {}, remove |-> {}, grace |-> Unset,
              policy |-> "Default", uid |-> 0, mod |-> 0, tries |-> 0]

VARIABLES
    rev,      \* etcd's revision
    stored,   \* the object under the key, Absent when there is none
    call      \* what each caller is doing

vars == <<rev, stored, call>>

(* pc is the etcd request the caller makes next.  target is the uid of the  *)
(* object its handler read, input what it gives Store.update (with the      *)
(* version it read), seen the version Store itself read, after what         *)
(* deleteResource does when update returns.                                 *)
Idle == [pc |-> "idle", req |-> NoRequest, target |-> 0, input |-> Absent,
         seen |-> 0, after |-> "return"]

Init ==
    /\ rev = 0
    /\ stored = Absent
    /\ call = [c \in Callers |-> Idle]

At(c, pc) == call[c].pc = pc
Goes(c, frame) == call' = [call EXCEPT ![c] = frame]

----------------------------------------------------------------------------
(* Answers.  An error and a success both end the call; a Conflict is        *)
(* retried from the handler's read while retryConflicts has attempts.       *)

Fails(c) == Goes(c, Idle)

(* Mutants: the last conflict is swallowed; the attempts are not counted.    *)
conflictsSwallowed(c, req) ==
    Goes(c, IF req.tries > 1
            THEN [Idle EXCEPT !.pc = IF req.verb = "edit" THEN "get" ELSE "deleteGet",
                              !.req = [req EXCEPT !.tries = @ - 1]]
            ELSE [Idle EXCEPT !.pc = "answered", !.target = call[c].target])

Conflicts(c, req) ==
    IF req.tries > 1
    THEN Goes(c, [Idle EXCEPT !.pc = IF req.verb = "edit" THEN "get" ELSE "deleteGet",
                              !.req = [req EXCEPT !.tries = @ - 1]])
    ELSE Fails(c)

(* effectiveGracePeriod and gracePeriodExpired; late says the clock has     *)
(* passed the deletion timestamp by the grace period.                       *)
Effective(obj, asked) ==
    IF obj.grace # Unset /\ asked # Unset
    THEN IF obj.grace < asked THEN obj.grace ELSE asked
    ELSE IF obj.grace # Unset THEN obj.grace ELSE asked
Expired(obj, asked, late) == Effective(obj, asked) <= 0 \/ late

(* Store.update has returned `input`.                                       *)
Answers(c) ==
    Goes(c, IF call[c].req.verb = "delete"
            THEN [Idle EXCEPT !.pc = "answered", !.target = call[c].target]
            ELSE Idle)

UpdateReturns(c, input) ==
    \E late \in BOOLEAN :
        IF call[c].after = "expire" /\ Expired(input, call[c].req.grace, late)
        THEN Goes(c, [call[c] EXCEPT !.pc = "deleteRead", !.after = "return",
                                     !.input = Absent, !.seen = 0])
        ELSE Answers(c)

Answered(c) ==
    /\ At(c, "answered")
    /\ Goes(c, Idle)
    /\ UNCHANGED <<rev, stored>>

----------------------------------------------------------------------------
(* Store.create *)

CreateRead(c) ==
    /\ At(c, "idle")
    /\ stored = Absent
    /\ \E fins \in SUBSET {c} :
           Goes(c, [Idle EXCEPT !.pc = "createTxn",
                                !.req = [NoRequest EXCEPT !.verb = "create", !.add = fins]])
    /\ UNCHANGED <<rev, stored>>

(* The key must still not exist (Version == 0).                             *)
StillFree == stored.uid = 0

CreateTxn(c) ==
    /\ At(c, "createTxn")
    /\ rev < MaxRev
    /\ IF StillFree
       THEN /\ rev' = rev + 1
            /\ stored' = [Absent EXCEPT !.uid = rev + 1, !.mod = rev + 1, !.fins = call[c].req.add]
       ELSE UNCHANGED <<rev, stored>>
    /\ Goes(c, Idle)

----------------------------------------------------------------------------
(* Store.update *)

(* A version was given and is no longer current.                            *)
Stale(c) == call[c].input.mod # 0 /\ call[c].input.mod # stored.mod

UpdateRead(c) ==
    /\ At(c, "updateRead")
    /\ IF stored = Absent THEN Fails(c)
       ELSE IF Stale(c) THEN Conflicts(c, call[c].req)
       ELSE Goes(c, [call[c] EXCEPT !.pc = "updateTxn", !.seen = stored.mod])
    /\ UNCHANGED <<rev, stored>>

(* Mod == the version the store read *)
stillThere(c) == stored.uid # 0   \* mutant: the commit only wants the key to exist
StillSeen(c) == stored.mod = call[c].seen

finalizedAtZero(obj) == obj.deleting /\ obj.fins = {} /\ obj.grace = 0   \* mutant: no `?? 0`
FinalizedPendingDeletion(obj) == obj.deleting /\ obj.fins = {} /\ obj.grace <= 0

UpdateTxn(c) ==
    /\ At(c, "updateTxn")
    /\ rev < MaxRev
    /\ IF StillSeen(c)
       THEN LET input == call[c].input
            IN  /\ rev' = rev + 1
                /\ stored' = [input EXCEPT !.mod = rev + 1]
                /\ IF FinalizedPendingDeletion(input)
                   THEN Goes(c, [call[c] EXCEPT !.pc = "deleteRead", !.seen = 0])
                   ELSE UpdateReturns(c, input)
       ELSE /\ Conflicts(c, call[c].req)
            /\ UNCHANGED <<rev, stored>>

----------------------------------------------------------------------------
(* Store.delete.  When it was called by update, update returns afterwards.  *)

DeleteReturns(c) == UpdateReturns(c, call[c].input)

DeleteRead(c) ==
    /\ At(c, "deleteRead")
    /\ IF stored = Absent
       THEN DeleteReturns(c)
       ELSE Goes(c, [call[c] EXCEPT !.pc = "deleteTxn", !.seen = stored.mod])
    /\ UNCHANGED <<rev, stored>>

DeleteTxn(c) ==
    /\ At(c, "deleteTxn")
    /\ rev < MaxRev
    /\ IF StillSeen(c)
       THEN /\ rev' = rev + 1
            /\ stored' = Absent
            /\ DeleteReturns(c)
       ELSE /\ Goes(c, [call[c] EXCEPT !.pc = "deleteRead", !.seen = 0])
            /\ UNCHANGED <<rev, stored>>

----------------------------------------------------------------------------
(* The handlers *)

(* patchNamespacedX, replaceNamespacedX and their status variants: a copy   *)
(* of the object read, edited, goes back with the version read.             *)
Edited(obj, req) == [obj EXCEPT !.fins = (@ \cup req.add) \ req.remove]

Get(c, req) ==
    /\ IF stored = Absent
       THEN Fails(c)
       ELSE Goes(c, [Idle EXCEPT !.pc = "updateRead", !.req = req, !.target = stored.uid,
                                 !.input = Edited(stored, req)])
    /\ UNCHANGED <<rev, stored>>

(* Each caller adds and removes its own finalizer; anyone may act for the   *)
(* garbage collector and remove its two.                                    *)
Edit(c) ==
    /\ At(c, "idle")
    /\ \E n \in Tries, change \in {<<{c}, {}>>, <<{}, {c}>>, <<{}, Dependents>>} :
           Get(c, [NoRequest EXCEPT !.tries = n, !.add = change[1], !.remove = change[2]])

RetryEdit(c) == At(c, "get") /\ Get(c, call[c].req)

(* normalizeDeleteOptions and deletionFinalizers                            *)
Policy(obj, asked) ==
    IF asked # "Default" THEN asked
    ELSE IF "orphan" \in obj.fins THEN "Orphan"
    ELSE IF "foregroundDeletion" \in obj.fins THEN "Foreground"
    ELSE "Background"
DeletionFinalizers(obj, asked) ==
    (obj.fins \ Dependents) \cup CASE Policy(obj, asked) = "Foreground" -> {"foregroundDeletion"}
                                   [] Policy(obj, asked) = "Orphan"     -> {"orphan"}
                                   [] OTHER                             -> {}

Meets(obj, req) == req.mod \in {0, obj.mod} /\ req.uid \in {0, obj.uid}

ShortenedGracePeriod(obj, asked) ==
    IF obj.grace # Unset /\ asked # Unset /\ asked < obj.grace THEN asked ELSE obj.grace

(* deleteResource decides on the object it reads: delete it now, write a    *)
(* shorter grace period or other finalizers, mark it as deleting, or leave  *)
(* it to those who hold it.                                                 *)
DeleteGet(c, req) ==
    LET fins == DeletionFinalizers(stored, req.policy)
        Continue(pc, input, after) ==
            Goes(c, [Idle EXCEPT !.pc = pc, !.req = req, !.target = stored.uid,
                                 !.input = input, !.after = after])
        changed == [stored EXCEPT !.grace = ShortenedGracePeriod(stored, req.grace), !.fins = fins]
        marked  == [stored EXCEPT !.deleting = TRUE, !.fins = fins,
                                  !.grace = IF req.grace = Unset THEN @ ELSE req.grace]
    IN  /\ IF stored = Absent
           THEN Fails(c)
           ELSE IF ~Meets(stored, req)
           THEN Conflicts(c, req)
           ELSE IF stored.deleting /\ changed # stored
           THEN Continue("updateRead", changed, IF fins = {} THEN "expire" ELSE "return")
           ELSE IF stored.deleting
           THEN \E late \in BOOLEAN :
                    IF fins = {} /\ Expired(stored, req.grace, late)
                    THEN Continue("deleteRead", Absent, "return")
                    ELSE Goes(c, [Idle EXCEPT !.pc = "answered", !.target = stored.uid])
           ELSE IF fins = {} /\ req.grace <= 0
           THEN Continue("deleteRead", Absent, "return")
           ELSE Continue("updateRead", marked, "return")
        /\ UNCHANGED <<rev, stored>>

(* A precondition names the object the client has just read.                *)
Delete(c) ==
    /\ At(c, "idle")
    /\ \E n \in Tries, g \in Graces \cup {Unset}, p \in AskedPolicies,
          u \in {0} \cup (IF "uid" \in Preconditions THEN {stored.uid} ELSE {}),
          m \in {0} \cup (IF "mod" \in Preconditions THEN {stored.mod} ELSE {}) :
           DeleteGet(c, [NoRequest EXCEPT !.verb = "delete", !.tries = n, !.grace = g,
                                          !.policy = p, !.uid = u, !.mod = m])

RetryDelete(c) == At(c, "deleteGet") /\ DeleteGet(c, call[c].req)

----------------------------------------------------------------------------
Next ==
    \E c \in Callers :
        \/ CreateRead(c) \/ CreateTxn(c)
        \/ Edit(c) \/ RetryEdit(c) \/ UpdateRead(c) \/ UpdateTxn(c)
        \/ Delete(c) \/ RetryDelete(c) \/ DeleteRead(c) \/ DeleteTxn(c)
        \/ Answered(c)

Spec == Init /\ [][Next]_vars

----------------------------------------------------------------------------
(* Properties *)

Frames == [pc : {"idle", "createTxn", "get", "updateRead", "updateTxn",
                 "deleteGet", "deleteRead", "deleteTxn", "answered"},
           req : Requests, target : Nat, input : Objects, seen : Nat,
           after : {"return", "expire"}]

(* The variables have the shapes declared above.                            *)
TypeOK == rev \in Nat /\ stored \in Objects /\ call \in [Callers -> Frames]

(* Incarnations do not overlap: an object is never replaced by one of       *)
(* another uid, neither by a create that lost a race nor by an update of an *)
(* object that was deleted (and created again) meanwhile.                   *)
IncarnationsDoNotOverlap ==
    [][stored'.uid # stored.uid => stored.uid = 0 \/ stored'.uid = 0]_vars

(* No edit is lost: while an incarnation lives, a caller's finalizer        *)
(* disappears only when that caller's own edit commits, whatever edits and  *)
(* deletes the others have under way.                                       *)
OnlyOwnersUnhold ==
    [][\A c \in Callers :
         c \in stored.fins /\ stored'.uid = stored.uid /\ c \notin stored'.fins
         => At(c, "updateTxn") /\ c \in call[c].req.remove]_vars

(* Deletion is for good: a deletion timestamp stays until the object goes,  *)
(* although other callers write back copies they read before it was set.    *)
DeletionIsForGood ==
    [][stored.deleting /\ stored'.uid = stored.uid => stored'.deleting]_vars

(* An object that nothing holds any more, its finalizers gone and its grace *)
(* period 0, is being removed by somebody: it is never left behind.         *)
FinalizedHasRemover ==
    stored.deleting /\ stored.fins = {} /\ stored.grace <= 0 =>
        \E c \in Callers : At(c, "deleteRead") \/ At(c, "deleteTxn")

(* What is stored is an object, and one that nothing holds is going.        *)
StoreIsSound == TypeOK /\ FinalizedHasRemover

(* A delete that was answered without an error is honoured: the incarnation *)
(* its handler read is gone or on its way out.                              *)
DeleteIsHonoured ==
    \A c \in Callers :
        At(c, "answered") => stored.uid # call[c].target \/ stored.deleting

(* Violated: a delete with a resourceVersion precondition that removes the  *)
(* object at once removes that version or nothing.  The precondition is     *)
(* checked on one read, and store.delete removes what a later one finds.    *)
PreconditionsHold ==
    [][\A c \in Callers :
         /\ At(c, "deleteTxn") /\ call'[c] # call[c]
         /\ stored.uid # 0 /\ ~stored.deleting /\ stored'.uid = 0
         => Meets(stored, call[c].req)]_vars

(* What no request may do to an object that others are reading and writing. *)
ObjectsLiveOnce == IncarnationsDoNotOverlap /\ OnlyOwnersUnhold /\ DeletionIsForGood
=============================================================================

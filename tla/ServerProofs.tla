---------------------------- MODULE ServerProofs ----------------------------
(***************************************************************************)
(* Theorems about what answers requests: one object of the API server, for *)
(* every set of callers, any number of attempts, and all the finalizers,   *)
(* grace periods, policies and preconditions that requests name; and the   *)
(* virtual network, for all pods, services, nodes, addresses and requests. *)
(*                                                                         *)
(* The inductive invariant of the store says why optimistic concurrency    *)
(* works: versions only grow, so a copy whose version is still the stored  *)
(* one was edited from exactly what is stored (Follows).  Without it a     *)
(* commit could bring an earlier incarnation back, drop a finalizer        *)
(* somebody else added, or clear the deletion timestamp.                   *)
(*                                                                         *)
(* That of the network says why a late teardown harms nobody: a listener   *)
(* is bound at the address its sandbox has now, at the table of its kind,  *)
(* and an address that a sandbox lost it never gets back (NobodyReturns).  *)
(***************************************************************************)
EXTENDS Store, Network, TLAPS

Updating == {"updateRead", "updateTxn"}
Deleting == {"deleteRead", "deleteTxn"}

\* What is stored has a uid and a version that etcd has given out.
Numbered(obj, r) == obj = Absent \/ (obj.uid \in 1..r /\ obj.mod \in 1..r)

\* A new copy of an object is the same incarnation, still deleting if it was,
\* and without no more of the callers' finalizers than the request removes.
Follows(new, old, req) ==
    /\ new.uid = old.uid
    /\ old.deleting => new.deleting
    /\ \A c \in Callers : c \in old.fins /\ c \notin new.fins => c \in req.remove

\* What a caller asks is its own to ask: it removes no one else's finalizer.
AsksOwn(c, f) ==
    /\ f.req.remove \cap Callers \subseteq {c}
    /\ f.pc = "get" => f.req.verb = "edit"
    /\ f.pc = "deleteGet" => f.req.verb = "delete"
    /\ f.pc \in Updating \cup Deleting => f.req.verb \in {"edit", "delete"}

\* The copy that Store.update is given.
CopyFollows(f, obj, r) ==
    f.pc \in Updating =>
        /\ f.input.uid \in 1..r /\ f.input.mod \in 1..r
        /\ f.pc = "updateTxn" => f.seen = f.input.mod
        /\ f.req.verb = "delete" => f.input.deleting
        /\ f.input.mod = obj.mod => Follows(f.input, obj, f.req)

\* The incarnation a handler read, and what it has answered about it.
TargetKnown(f, obj, r) ==
    /\ f.pc \in Updating \cup Deleting \cup {"answered"} => f.target \in 1..r
    /\ f.pc = "answered" => obj.uid # f.target \/ obj.deleting

FrameOK(c, f, obj, r) ==
    AsksOwn(c, f) /\ CopyFollows(f, obj, r) /\ TargetKnown(f, obj, r)

Core ==
    /\ TypeOK
    /\ Numbered(stored, rev)
    /\ \A c \in Callers : FrameOK(c, call[c], stored, rev)
    /\ FinalizedHasRemover

\* What a commit may do to the object: remove it, create it anew, or write
\* the same incarnation again; the version is new in any case.
Succeeds(new, old, r) ==
    \/ new = Absent
    \/ /\ new.mod = r + 1
       /\ \/ new.uid = r + 1
          \/ new.uid = old.uid /\ (old.deleting => new.deleting)

----
(* Values.                                                                 *)

LEMMA AbsentType ==
    /\ Absent \in Objects /\ Absent.uid = 0 /\ Absent.mod = 0
    /\ Absent.deleting = FALSE /\ Absent.fins = {}
  BY DEF Absent, Objects, Unset

LEMMA NoRequestType ==
    /\ NoRequest \in Requests /\ NoRequest.verb = "edit" /\ NoRequest.remove = {}
  BY StoreAssumption DEF NoRequest, Requests, Unset

LEMMA IdleType ==
    /\ Idle \in Frames /\ Idle.pc = "idle" /\ Idle.req = NoRequest
  BY AbsentType, NoRequestType DEF Idle, Frames

\* A frame with nothing under way is always sound.
LEMMA RestingFrameOK ==
  ASSUME NEW c \in Callers, NEW f \in Frames, NEW obj, NEW r,
         f.pc \in {"idle", "createTxn", "get", "deleteGet"}, AsksOwn(c, f)
  PROVE  FrameOK(c, f, obj, r)
  BY DEF FrameOK, CopyFollows, TargetKnown, Updating, Deleting

LEMMA IdleFrameOK ==
  ASSUME NEW c \in Callers, NEW obj, NEW r
  PROVE  FrameOK(c, Idle, obj, r)
<1>1. AsksOwn(c, Idle)
  BY IdleType, NoRequestType DEF AsksOwn, Updating, Deleting
<1> QED BY <1>1, IdleType, RestingFrameOK

----
(* Steps.                                                                  *)

\* What the others have under way survives a commit: their copies are stale
\* from now on, and a deletion that was answered is not taken back.
LEMMA OthersSurvive ==
  ASSUME NEW c \in Callers, NEW f \in Frames, NEW r \in Nat,
         NEW old \in Objects, NEW new \in Objects,
         Numbered(old, r), FrameOK(c, f, old, r), Succeeds(new, old, r)
  PROVE  FrameOK(c, f, new, r + 1)
<1>1. AsksOwn(c, f)
  BY DEF FrameOK
<1>2. CopyFollows(f, new, r + 1)
  BY AbsentType DEF FrameOK, CopyFollows, Succeeds
<1>3. TargetKnown(f, new, r + 1)
  BY AbsentType DEF FrameOK, TargetKnown, Succeeds, Frames, Objects
<1> QED BY <1>1, <1>2, <1>3 DEF FrameOK

\* A step of one caller keeps the invariant when its new frame is sound, what
\* it did to the object is a commit or nothing, and it leaves no finalised
\* object behind.
LEMMA StepKeepsCore ==
  ASSUME Core, NEW c \in Callers, NEW f \in Frames, Goes(c, f),
         stored' \in Objects, Numbered(stored', rev'),
         \/ UNCHANGED <<rev, stored>>
         \/ rev' = rev + 1 /\ Succeeds(stored', stored, rev),
         FrameOK(c, f, stored', rev'),
         FinalizedPendingDeletion(stored') =>
             \/ f.pc \in Deleting
             \/ stored' = stored /\ call[c].pc \notin Deleting
  PROVE  Core'
<1> USE DEF Core
<1>1. TypeOK'
  BY DEF TypeOK, Goes
<1>2. \A d \in Callers : call'[d] = IF d = c THEN f ELSE call[d]
  BY DEF TypeOK, Goes
<1>3. ASSUME NEW d \in Callers PROVE FrameOK(d, call'[d], stored', rev')
  <2>1. CASE d = c
    BY <1>2, <2>1
  <2>2. CASE d # c /\ UNCHANGED <<rev, stored>>
    BY <1>2, <2>2
  <2>3. CASE d # c /\ rev' = rev + 1 /\ Succeeds(stored', stored, rev)
    <3>1. call[d] \in Frames /\ rev \in Nat /\ stored \in Objects
      BY DEF TypeOK
    <3> QED BY <3>1, <1>2, <2>3, OthersSurvive
  <2> QED BY <2>1, <2>2, <2>3
<1>4. FinalizedHasRemover'
  <2> SUFFICES ASSUME FinalizedPendingDeletion(stored')
               PROVE  \E d \in Callers : call'[d].pc \in Deleting
    BY DEF FinalizedHasRemover, FinalizedPendingDeletion, At, Deleting
  <2>1. CASE f.pc \in Deleting
    BY <1>2, <2>1
  <2>2. CASE stored' = stored /\ call[c].pc \notin Deleting
    <3>1. PICK d \in Callers : call[d].pc \in Deleting
      BY <2>2 DEF FinalizedHasRemover, FinalizedPendingDeletion, At, Deleting
    <3> QED BY <1>2, <2>2, <3>1
  <2> QED BY <2>1, <2>2
<1> QED BY <1>1, <1>3, <1>4

\* A step that only moves its caller needs no more than a sound frame there,
\* and no removal given up while the object is finalised.
LEMMA ReadKeepsCore ==
  ASSUME Core, NEW c \in Callers, NEW f \in Frames, Goes(c, f), UNCHANGED <<rev, stored>>,
         FrameOK(c, f, stored, rev),
         f.pc \in Deleting \/ call[c].pc \notin Deleting \/ stored = Absent
  PROVE  Core'
<1>1. FinalizedPendingDeletion(stored') => stored # Absent
  BY AbsentType DEF FinalizedPendingDeletion
<1>2. stored' \in Objects /\ Numbered(stored', rev')
  BY DEF Core, TypeOK
<1>3. FrameOK(c, f, stored', rev')
  OBVIOUS
<1> QED BY <1>1, <1>2, <1>3, StepKeepsCore

----
(* The ways a call goes on.                                                *)

\* Fails: the call has ended.
LEMMA FailsKeepsCore ==
  ASSUME Core, NEW c \in Callers, Fails(c), UNCHANGED <<rev, stored>>,
         call[c].pc \notin Deleting
  PROVE  Core'
  BY IdleType, IdleFrameOK, ReadKeepsCore DEF Fails

\* Conflicts: the handler reads again, or the call has ended.
LEMMA ConflictsKeepsCore ==
  ASSUME Core, NEW c \in Callers, NEW req \in Requests, Conflicts(c, req),
         UNCHANGED <<rev, stored>>, call[c].pc \notin Deleting,
         req.verb \in {"edit", "delete"}, req.remove \cap Callers \subseteq {c}
  PROVE  Core'
<1>1. CASE req.tries > 1
  <2> DEFINE again == [req EXCEPT !.tries = @ - 1]
             f == [Idle EXCEPT !.pc = IF req.verb = "edit" THEN "get" ELSE "deleteGet",
                               !.req = again]
  <2>1. Goes(c, f)
    BY <1>1 DEF Conflicts
  <2>2. again \in Requests /\ again.verb = req.verb /\ again.remove = req.remove
    BY <1>1, StoreAssumption DEF Requests
  <2> HIDE DEF again
  <2>3. /\ f \in Frames /\ f.req = again
        /\ f.pc = IF req.verb = "edit" THEN "get" ELSE "deleteGet"
    BY <2>2, IdleType DEF Frames
  <2> HIDE DEF f
  <2>4. AsksOwn(c, f)
    BY <2>2, <2>3 DEF AsksOwn, Updating, Deleting
  <2>5. FrameOK(c, f, stored, rev)
    BY <2>3, <2>4, RestingFrameOK
  <2> QED BY <2>1, <2>3, <2>5, ReadKeepsCore
<1>2. CASE ~(req.tries > 1)
  BY <1>2, FailsKeepsCore DEF Conflicts
<1> QED BY <1>1, <1>2

\* What UpdateReturns does: the call has ended, is answered, or removes what
\* is left of an object whose grace period is over.
Returned(c, f) ==
    \/ f = Idle
    \/ /\ f = [Idle EXCEPT !.pc = "answered", !.target = call[c].target]
       /\ call[c].req.verb = "delete"
    \/ f = [call[c] EXCEPT !.pc = "deleteRead", !.after = "return",
                           !.input = Absent, !.seen = 0]

LEMMA UpdateReturnsFrame ==
  ASSUME NEW c \in Callers, NEW input, UpdateReturns(c, input)
  PROVE  \E f : Goes(c, f) /\ Returned(c, f)
<1>1. PICK late \in BOOLEAN :
        IF call[c].after = "expire" /\ Expired(input, call[c].req.grace, late)
        THEN Goes(c, [call[c] EXCEPT !.pc = "deleteRead", !.after = "return",
                                     !.input = Absent, !.seen = 0])
        ELSE Answers(c)
  BY DEF UpdateReturns
<1> QED BY <1>1 DEF Answers, Returned

\* Wherever Store.update and Store.delete are, the way back is sound: the
\* caller named the incarnation it read.
LEMMA ReturnedFrameOK ==
  ASSUME TypeOK, NEW c \in Callers, NEW f, Returned(c, f), NEW obj, NEW r \in Nat,
         AsksOwn(c, call[c]), call[c].pc \in Updating \cup Deleting,
         call[c].target \in 1..r,
         call[c].req.verb = "delete" => obj.uid # call[c].target \/ obj.deleting
  PROVE  f \in Frames /\ FrameOK(c, f, obj, r)
<1> call[c] \in Frames
  BY DEF TypeOK
<1>1. CASE f = Idle
  BY <1>1, IdleType, IdleFrameOK
<1>2. CASE /\ f = [Idle EXCEPT !.pc = "answered", !.target = call[c].target]
           /\ call[c].req.verb = "delete"
  <2>1. f \in Frames /\ f.pc = "answered" /\ f.target = call[c].target /\ f.req = NoRequest
    BY <1>2, IdleType DEF Frames
  <2> QED
    BY <1>2, <2>1, NoRequestType
    DEF FrameOK, AsksOwn, CopyFollows, TargetKnown, Updating, Deleting
<1>3. CASE f = [call[c] EXCEPT !.pc = "deleteRead", !.after = "return",
                               !.input = Absent, !.seen = 0]
  <2>1. /\ f \in Frames /\ f.pc = "deleteRead" /\ f.target = call[c].target
        /\ f.req = call[c].req
    BY <1>3, AbsentType DEF Frames
  <2> QED BY <1>3, <2>1 DEF FrameOK, AsksOwn, CopyFollows, TargetKnown, Updating, Deleting
<1> QED BY <1>1, <1>2, <1>3 DEF Returned

----
(* One lemma for each action: it keeps the invariant, and what it writes   *)
(* is a commit that drops no one else's finalizer.                         *)

Unheld(c) == c \in stored.fins /\ stored'.uid = stored.uid /\ c \notin stored'.fins

\* What the action properties ask of a step.
Commit ==
    /\ UNCHANGED stored \/ (stored.uid = 0 \/ stored'.uid \in {0, stored.uid})
    /\ stored.deleting /\ stored'.uid = stored.uid => stored'.deleting
    /\ \A c \in Callers : Unheld(c) => At(c, "updateTxn") /\ c \in call[c].req.remove

Good == Core' /\ Commit

LEMMA ReadsCommit ==
  ASSUME UNCHANGED stored
  PROVE  Commit
  BY DEF Commit, Unheld

LEMMA AnsweredGood ==
  ASSUME Core, NEW c \in Callers, Answered(c)
  PROVE  Good
<1>1. Core'
  BY IdleType, IdleFrameOK, ReadKeepsCore DEF Answered, At, Deleting
<1> QED BY <1>1, ReadsCommit DEF Good, Answered

LEMMA CreateReadGood ==
  ASSUME Core, NEW c \in Callers, CreateRead(c)
  PROVE  Good
<1>1. PICK fins \in SUBSET {c} :
        Goes(c, [Idle EXCEPT !.pc = "createTxn",
                             !.req = [NoRequest EXCEPT !.verb = "create", !.add = fins]])
  BY DEF CreateRead
<1> DEFINE req == [NoRequest EXCEPT !.verb = "create", !.add = fins]
           f == [Idle EXCEPT !.pc = "createTxn", !.req = req]
<1>2. req \in Requests /\ req.remove = {}
  BY NoRequestType DEF Requests, Finalizers
<1> HIDE DEF req
<1>3. f \in Frames /\ f.pc = "createTxn" /\ f.req = req
  BY <1>2, IdleType DEF Frames
<1>4. Goes(c, f)
  BY <1>1 DEF req
<1> HIDE DEF f
<1>5. FrameOK(c, f, stored, rev)
  BY <1>2, <1>3, RestingFrameOK DEF AsksOwn, Updating, Deleting
<1>6. Core'
  BY <1>3, <1>4, <1>5, ReadKeepsCore DEF CreateRead, At, Deleting
<1> QED BY <1>6, ReadsCommit DEF Good, CreateRead

LEMMA CreateTxnGood ==
  ASSUME Core, NEW c \in Callers, CreateTxn(c)
  PROVE  Good
<1> USE DEF CreateTxn
<1>0. /\ rev \in Nat /\ stored \in Objects /\ call[c] \in Frames
      /\ call[c].pc = "createTxn"
  BY DEF Core, TypeOK, At
<1>1. CASE StillFree
  <2>1. /\ stored' \in Objects /\ stored'.uid = rev + 1 /\ stored'.mod = rev + 1
        /\ stored'.deleting = FALSE
    <3> DEFINE fins == call[c].req.add
               obj == [uid |-> rev + 1, mod |-> rev + 1, deleting |-> FALSE,
                       grace |-> Unset, fins |-> fins]
    <3>1. fins \in SUBSET Finalizers
      BY <1>0 DEF Frames, Requests
    <3> HIDE DEF fins
    <3>2. /\ obj \in Objects /\ obj.uid = rev + 1 /\ obj.mod = rev + 1
          /\ obj.deleting = FALSE
      BY <1>0, <3>1 DEF Objects
    <3>3. stored' = obj
      BY <1>1 DEF Absent, fins
    <3> QED BY <3>2, <3>3
  <2>2. stored.uid = 0 /\ stored.fins = {} /\ stored.deleting = FALSE
    BY <1>0, <1>1, AbsentType DEF StillFree, Core, Numbered
  <2>3. Numbered(stored', rev') /\ Succeeds(stored', stored, rev)
    BY <1>0, <1>1, <2>1 DEF Numbered, Succeeds
  <2>4. ~FinalizedPendingDeletion(stored')
    BY <2>1 DEF FinalizedPendingDeletion
  <2>5. Core'
    BY <1>1, <2>1, <2>3, <2>4, IdleType, IdleFrameOK, StepKeepsCore
  <2> QED BY <2>2, <2>5 DEF Good, Commit, Unheld
<1>2. CASE ~StillFree
  <2>1. Core'
    BY <1>0, <1>2, IdleType, IdleFrameOK, ReadKeepsCore DEF Deleting
  <2> QED BY <1>2, <2>1, ReadsCommit DEF Good
<1> QED BY <1>1, <1>2

LEMMA UpdateReadGood ==
  ASSUME Core, NEW c \in Callers, UpdateRead(c)
  PROVE  Good
<1> USE DEF UpdateRead
<1> DEFINE f == [call[c] EXCEPT !.pc = "updateTxn", !.seen = stored.mod]
<1>0. /\ rev \in Nat /\ stored \in Objects /\ call[c] \in Frames
      /\ call[c].pc = "updateRead" /\ FrameOK(c, call[c], stored, rev)
  BY DEF Core, TypeOK, At
<1>1. CASE stored = Absent
  BY <1>0, <1>1, FailsKeepsCore, ReadsCommit DEF Good, Deleting
<1>2. CASE stored # Absent /\ Stale(c)
  <2>1. /\ call[c].req \in Requests /\ call[c].req.verb \in {"edit", "delete"}
        /\ call[c].req.remove \cap Callers \subseteq {c}
    BY <1>0 DEF Frames, FrameOK, AsksOwn, Updating
  <2>2. Core'
    BY <1>0, <1>2, <2>1, ConflictsKeepsCore DEF Deleting
  <2> QED BY <2>2, ReadsCommit DEF Good
<1>3. CASE stored # Absent /\ ~Stale(c)
  <2>1. Goes(c, f) /\ UNCHANGED <<rev, stored>>
    BY <1>3
  <2>2. /\ f \in Frames /\ f.pc = "updateTxn" /\ f.seen = stored.mod
        /\ f.input = call[c].input /\ f.req = call[c].req /\ f.target = call[c].target
    BY <1>0 DEF Frames, Objects
  <2>3. stored.mod = call[c].input.mod
    BY <1>0, <1>3 DEF Stale, FrameOK, CopyFollows, Updating
  <2> HIDE DEF f
  <2>4. FrameOK(c, f, stored, rev)
    BY <1>0, <2>2, <2>3
    DEF FrameOK, AsksOwn, CopyFollows, TargetKnown, Updating, Deleting
  <2>5. Core'
    BY <1>0, <2>1, <2>2, <2>4, ReadKeepsCore DEF Deleting
  <2> QED BY <2>5, ReadsCommit DEF Good
<1> QED BY <1>1, <1>2, <1>3

LEMMA UpdateTxnGood ==
  ASSUME Core, NEW c \in Callers, UpdateTxn(c)
  PROVE  Good
<1> USE DEF UpdateTxn
<1> DEFINE input == call[c].input
<1>0. /\ rev \in Nat /\ stored \in Objects /\ call[c] \in Frames
      /\ call[c].pc = "updateTxn" /\ FrameOK(c, call[c], stored, rev)
      /\ call[c].req \in Requests /\ input \in Objects
  BY DEF Core, TypeOK, At, Frames
<1>1. /\ AsksOwn(c, call[c]) /\ call[c].target \in 1..rev
      /\ input.uid \in 1..rev /\ input.mod \in 1..rev /\ call[c].seen = input.mod
      /\ call[c].req.verb = "delete" => input.deleting
      /\ input.mod = stored.mod => Follows(input, stored, call[c].req)
  BY <1>0 DEF FrameOK, CopyFollows, TargetKnown, Updating
<1>2. CASE ~StillSeen(c)
  <2>1. Core'
    BY <1>0, <1>1, <1>2, ConflictsKeepsCore DEF AsksOwn, Updating, Deleting
  <2> QED BY <1>2, <2>1, ReadsCommit DEF Good
<1>3. CASE StillSeen(c)
  <2>1. rev' = rev + 1 /\ stored' = [input EXCEPT !.mod = rev + 1]
    BY <1>3
  <2>2. /\ stored' \in Objects /\ stored'.uid = input.uid /\ stored'.mod = rev + 1
        /\ stored'.deleting = input.deleting /\ stored'.fins = input.fins
        /\ stored'.grace = input.grace
    BY <1>0, <2>1 DEF Objects
  <2>3. Follows(input, stored, call[c].req)
    BY <1>1, <1>3 DEF StillSeen
  <2>4. Numbered(stored', rev') /\ Succeeds(stored', stored, rev)
    BY <1>0, <1>1, <2>1, <2>2, <2>3 DEF Numbered, Succeeds, Follows
  <2>5. Commit
    <3>1. \A d \in Callers : d \in call[c].req.remove => d = c
      BY <1>1 DEF AsksOwn
    <3> QED BY <1>0, <2>2, <2>3, <3>1 DEF Commit, Unheld, Follows, At
  <2>6. CASE FinalizedPendingDeletion(input)
    <3> DEFINE f == [call[c] EXCEPT !.pc = "deleteRead", !.seen = 0]
    <3>1. Goes(c, f)
      BY <1>3, <2>6
    <3>2. f \in Frames /\ f.pc = "deleteRead" /\ f.req = call[c].req /\ f.target = call[c].target
      BY <1>0 DEF Frames
    <3> HIDE DEF f
    <3>3. FrameOK(c, f, stored', rev')
      BY <1>0, <1>1, <2>1, <3>2 DEF FrameOK, AsksOwn, CopyFollows, TargetKnown, Updating, Deleting
    <3>4. Core'
      BY <2>1, <2>2, <2>4, <3>1, <3>2, <3>3, StepKeepsCore DEF Deleting
    <3> QED BY <2>5, <3>4 DEF Good
  <2>7. CASE ~FinalizedPendingDeletion(input)
    <3>1. UpdateReturns(c, input)
      BY <1>3, <2>7
    <3>2. PICK f : Goes(c, f) /\ Returned(c, f)
      BY <3>1, UpdateReturnsFrame
    <3>3. /\ TypeOK /\ call[c].pc \in Updating /\ rev' \in Nat /\ call[c].target \in 1..rev'
          /\ call[c].req.verb = "delete" => stored'.deleting
      BY <1>0, <1>1, <2>1, <2>2 DEF Core, Updating
    <3>4. f \in Frames /\ FrameOK(c, f, stored', rev')
      BY <1>1, <3>2, <3>3, ReturnedFrameOK
    <3>5. ~FinalizedPendingDeletion(stored')
      BY <2>2, <2>7 DEF FinalizedPendingDeletion
    <3>6. Core'
      BY <2>1, <2>2, <2>4, <3>2, <3>4, <3>5, StepKeepsCore
    <3> QED BY <2>5, <3>6 DEF Good
  <2> QED BY <2>6, <2>7
<1> QED BY <1>2, <1>3

\* Store.delete called again or by nobody: the way back from it.
LEMMA DeleteReturnsFrameOK ==
  ASSUME Core, NEW c \in Callers, call[c].pc \in Deleting, DeleteReturns(c),
         stored' = Absent, rev' \in Nat, rev <= rev'
  PROVE  \E f \in Frames : Goes(c, f) /\ FrameOK(c, f, stored', rev')
<1>1. PICK f : Goes(c, f) /\ Returned(c, f)
  BY UpdateReturnsFrame DEF DeleteReturns
<1>2. /\ TypeOK /\ AsksOwn(c, call[c]) /\ call[c].target \in 1..rev /\ rev \in Nat
  BY DEF Core, TypeOK, FrameOK, TargetKnown
<1>3. call[c].target \in 1..rev' /\ stored'.uid # call[c].target
  BY <1>2, AbsentType
<1>4. f \in Frames /\ FrameOK(c, f, stored', rev')
  BY <1>1, <1>2, <1>3, ReturnedFrameOK
<1> QED BY <1>1, <1>4

LEMMA DeleteReadGood ==
  ASSUME Core, NEW c \in Callers, DeleteRead(c)
  PROVE  Good
<1> USE DEF DeleteRead
<1> DEFINE f == [call[c] EXCEPT !.pc = "deleteTxn", !.seen = stored.mod]
<1>0. /\ rev \in Nat /\ stored \in Objects /\ call[c] \in Frames
      /\ call[c].pc = "deleteRead" /\ FrameOK(c, call[c], stored, rev)
      /\ UNCHANGED <<rev, stored>>
  BY DEF Core, TypeOK, At
<1>1. CASE stored = Absent
  <2>1. PICK g \in Frames : Goes(c, g) /\ FrameOK(c, g, stored', rev')
    BY <1>0, <1>1, DeleteReturnsFrameOK DEF Deleting
  <2>2. FrameOK(c, g, stored, rev)
    BY <1>0, <2>1
  <2>3. Core'
    BY <1>0, <1>1, <2>1, <2>2, ReadKeepsCore
  <2> QED BY <1>0, <2>3, ReadsCommit DEF Good
<1>2. CASE stored # Absent
  <2>1. Goes(c, f)
    BY <1>2
  <2>2. f \in Frames /\ f.pc = "deleteTxn" /\ f.req = call[c].req /\ f.target = call[c].target
    BY <1>0 DEF Frames, Objects
  <2> HIDE DEF f
  <2>3. FrameOK(c, f, stored, rev)
    BY <1>0, <2>2 DEF FrameOK, AsksOwn, CopyFollows, TargetKnown, Updating, Deleting
  <2>4. Core'
    BY <1>0, <2>1, <2>2, <2>3, ReadKeepsCore DEF Deleting
  <2> QED BY <1>0, <2>4, ReadsCommit DEF Good
<1> QED BY <1>1, <1>2

LEMMA DeleteTxnGood ==
  ASSUME Core, NEW c \in Callers, DeleteTxn(c)
  PROVE  Good
<1> USE DEF DeleteTxn
<1> DEFINE f == [call[c] EXCEPT !.pc = "deleteRead", !.seen = 0]
<1>0. /\ rev \in Nat /\ stored \in Objects /\ call[c] \in Frames
      /\ call[c].pc = "deleteTxn" /\ FrameOK(c, call[c], stored, rev)
      /\ Numbered(stored, rev)
  BY DEF Core, TypeOK, At
<1>1. CASE StillSeen(c)
  <2>1. rev' = rev + 1 /\ stored' = Absent /\ DeleteReturns(c)
    BY <1>1
  <2>2. PICK g \in Frames : Goes(c, g) /\ FrameOK(c, g, stored', rev')
    BY <1>0, <2>1, DeleteReturnsFrameOK DEF Deleting
  <2>3. ~FinalizedPendingDeletion(stored')
    BY <2>1, AbsentType DEF FinalizedPendingDeletion
  <2>4. stored' \in Objects /\ Numbered(stored', rev') /\ Succeeds(stored', stored, rev)
    BY <2>1, AbsentType DEF Numbered, Succeeds
  <2>5. Core'
    BY <2>1, <2>2, <2>3, <2>4, StepKeepsCore
  <2>6. Commit
    <3>1. stored'.uid = 0
      BY <2>1, AbsentType
    <3>2. stored.uid = 0 => stored = Absent
      BY <1>0 DEF Numbered
    <3> QED BY <3>1, <3>2, AbsentType DEF Commit, Unheld
  <2> QED BY <2>5, <2>6 DEF Good
<1>2. CASE ~StillSeen(c)
  <2>1. Goes(c, f) /\ UNCHANGED <<rev, stored>>
    BY <1>2
  <2>2. f \in Frames /\ f.pc = "deleteRead" /\ f.req = call[c].req /\ f.target = call[c].target
    BY <1>0 DEF Frames
  <2> HIDE DEF f
  <2>3. FrameOK(c, f, stored, rev)
    BY <1>0, <2>2 DEF FrameOK, AsksOwn, CopyFollows, TargetKnown, Updating, Deleting
  <2>4. Core'
    BY <2>1, <2>2, <2>3, ReadKeepsCore DEF Deleting
  <2> QED BY <2>1, <2>4, ReadsCommit DEF Good
<1> QED BY <1>1, <1>2

----
(* The handlers: what they give to Store was copied from what is stored.   *)

\* A handler goes on with what it read: the incarnation, and a copy that
\* follows it.
LEMMA StartKeepsCore ==
  ASSUME Core, NEW c \in Callers, call[c].pc \in {"idle", "get", "deleteGet"},
         stored # Absent, UNCHANGED <<rev, stored>>,
         NEW f \in Frames, Goes(c, f), f.target = stored.uid,
         f.pc \in {"updateRead", "deleteRead"},
         f.req.verb \in {"edit", "delete"}, f.req.remove \cap Callers \subseteq {c},
         f.pc = "updateRead" => /\ f.input.mod = stored.mod
                                /\ Follows(f.input, stored, f.req)
                                /\ f.req.verb = "delete" => f.input.deleting
  PROVE  Core'
<1>1. stored \in Objects /\ stored.uid \in 1..rev /\ stored.mod \in 1..rev
  BY DEF Core, TypeOK, Numbered
<1>2. AsksOwn(c, f) /\ TargetKnown(f, stored, rev)
  BY <1>1 DEF AsksOwn, TargetKnown, Updating, Deleting
<1>3. CopyFollows(f, stored, rev)
  BY <1>1 DEF CopyFollows, Follows, Updating
<1>4. call[c].pc \notin Deleting
  BY DEF Deleting
<1> QED BY <1>2, <1>3, <1>4, ReadKeepsCore DEF FrameOK

LEMMA GetKeepsCore ==
  ASSUME Core, NEW c \in Callers, call[c].pc \in {"idle", "get"},
         NEW req \in Requests, Get(c, req), req.verb = "edit",
         req.remove \cap Callers \subseteq {c}
  PROVE  Core'
<1>1. CASE stored = Absent
  BY <1>1, FailsKeepsCore DEF Get, Deleting
<1>2. CASE stored # Absent
  <2> DEFINE input == Edited(stored, req)
             f == [Idle EXCEPT !.pc = "updateRead", !.req = req, !.target = stored.uid,
                               !.input = input]
  <2>1. stored \in Objects
    BY DEF Core, TypeOK
  <2>2. (stored.fins \cup req.add) \ req.remove \in SUBSET Finalizers
    BY <2>1 DEF Objects, Requests
  <2>3. /\ input \in Objects /\ input.mod = stored.mod /\ input.uid = stored.uid
        /\ input.deleting = stored.deleting
        /\ input.fins = (stored.fins \cup req.add) \ req.remove
    BY <2>1, <2>2 DEF Objects, Edited
  <2> HIDE DEF input
  <2>4. Follows(input, stored, req)
    BY <2>3 DEF Follows
  <2>5. Goes(c, f) /\ UNCHANGED <<rev, stored>>
    BY <1>2 DEF Get, input
  <2>6. /\ f \in Frames /\ f.pc = "updateRead" /\ f.req = req /\ f.target = stored.uid
        /\ f.input = input
    BY <2>1, <2>3, IdleType DEF Frames, Objects
  <2> HIDE DEF f
  <2> QED BY <1>2, <2>3, <2>4, <2>5, <2>6, StartKeepsCore
<1> QED BY <1>1, <1>2

LEMMA EditGood ==
  ASSUME Core, NEW c \in Callers, Edit(c)
  PROVE  Good
<1>1. PICK n \in Tries, change \in {<<{c}, {}>>, <<{}, {c}>>, <<{}, Dependents>>} :
        Get(c, [NoRequest EXCEPT !.tries = n, !.add = change[1], !.remove = change[2]])
  BY DEF Edit
<1> DEFINE req == [NoRequest EXCEPT !.tries = n, !.add = change[1], !.remove = change[2]]
<1>2. /\ change[1] \in SUBSET Finalizers /\ change[2] \in SUBSET Finalizers
      /\ change[2] \cap Callers \subseteq {c}
  BY StoreAssumption DEF Finalizers, Dependents
<1>3. n \in 0..Attempts
  BY StoreAssumption
<1>4. req \in Requests /\ req.verb = "edit" /\ req.remove = change[2]
  BY <1>2, <1>3, NoRequestType DEF Requests
<1>5. Get(c, req)
  BY <1>1
<1> HIDE DEF req
<1>6. Core'
  BY <1>2, <1>4, <1>5, GetKeepsCore DEF Edit, At
<1> QED BY <1>5, <1>6, ReadsCommit DEF Good, Get

LEMMA RetryEditGood ==
  ASSUME Core, NEW c \in Callers, RetryEdit(c)
  PROVE  Good
<1>1. /\ call[c] \in Frames /\ call[c].pc = "get" /\ AsksOwn(c, call[c])
      /\ Get(c, call[c].req)
  BY DEF RetryEdit, At, Core, TypeOK, FrameOK
<1>2. call[c].req \in Requests /\ call[c].req.verb = "edit"
  BY <1>1 DEF Frames, AsksOwn
<1>3. Core'
  BY <1>1, <1>2, GetKeepsCore DEF AsksOwn
<1> QED BY <1>1, <1>3, ReadsCommit DEF Good, Get

\* deletionFinalizers leaves the callers' finalizers alone.
LEMMA DeletionFinalizersFacts ==
  ASSUME NEW obj \in Objects, NEW asked
  PROVE  /\ DeletionFinalizers(obj, asked) \in SUBSET Finalizers
         /\ \A d \in Callers : d \in obj.fins => d \in DeletionFinalizers(obj, asked)
<1>1. obj.fins \in SUBSET Finalizers
  BY DEF Objects
<1>2. \A d \in Callers : d \notin Dependents
  BY StoreAssumption DEF Dependents
<1>3. Policy(obj, asked) = "Foreground" \/ Policy(obj, asked) = "Orphan"
      \/ (Policy(obj, asked) # "Foreground" /\ Policy(obj, asked) # "Orphan")
  OBVIOUS
<1>4. CASE Policy(obj, asked) = "Foreground"
  BY <1>1, <1>2, <1>4 DEF DeletionFinalizers, Finalizers, Dependents
<1>5. CASE Policy(obj, asked) = "Orphan"
  BY <1>1, <1>2, <1>5 DEF DeletionFinalizers, Finalizers, Dependents
<1>6. CASE Policy(obj, asked) # "Foreground" /\ Policy(obj, asked) # "Orphan"
  BY <1>1, <1>2, <1>6 DEF DeletionFinalizers, Finalizers, Dependents
<1> QED BY <1>4, <1>5, <1>6

\* The copies that deleteResource writes: they are deleting, and they follow.
Changed(obj, req, fins) ==
    [obj EXCEPT !.grace = ShortenedGracePeriod(obj, req.grace), !.fins = fins]
Marked(obj, req, fins) ==
    [obj EXCEPT !.deleting = TRUE, !.fins = fins,
                !.grace = IF req.grace = Unset THEN @ ELSE req.grace]

LEMMA DeletionCopies ==
  ASSUME NEW obj \in Objects, NEW req \in Requests, NEW fins \in SUBSET Finalizers,
         \A d \in Callers : d \in obj.fins => d \in fins
  PROVE  /\ Changed(obj, req, fins) \in Objects /\ Changed(obj, req, fins).mod = obj.mod
         /\ Changed(obj, req, fins).deleting = obj.deleting
         /\ Follows(Changed(obj, req, fins), obj, req)
         /\ Marked(obj, req, fins) \in Objects /\ Marked(obj, req, fins).mod = obj.mod
         /\ Marked(obj, req, fins).deleting
         /\ Follows(Marked(obj, req, fins), obj, req)
<1>1. req.grace \in Graces \cup {Unset} /\ obj.grace \in Graces \cup {Unset}
  BY DEF Objects, Requests
<1>2. ShortenedGracePeriod(obj, req.grace) \in Graces \cup {Unset}
  BY <1>1 DEF ShortenedGracePeriod
<1> DEFINE grace == ShortenedGracePeriod(obj, req.grace)
           other == IF req.grace = Unset THEN obj.grace ELSE req.grace
           changed == [obj EXCEPT !.grace = grace, !.fins = fins]
           marked == [obj EXCEPT !.deleting = TRUE, !.fins = fins, !.grace = other]
<1>3. other \in Graces \cup {Unset}
  BY <1>1
<1> HIDE DEF grace, other
<1>4. /\ changed \in Objects /\ changed.mod = obj.mod /\ changed.uid = obj.uid
      /\ changed.deleting = obj.deleting /\ changed.fins = fins
  BY <1>2 DEF Objects, grace
<1>5. /\ marked \in Objects /\ marked.mod = obj.mod /\ marked.uid = obj.uid
      /\ marked.deleting = TRUE /\ marked.fins = fins
  BY <1>3 DEF Objects
<1>6. Follows(changed, obj, req) /\ Follows(marked, obj, req)
  BY <1>4, <1>5 DEF Follows
<1> QED BY <1>4, <1>5, <1>6 DEF grace, other, Changed, Marked

LEMMA DeleteGetKeepsCore ==
  ASSUME Core, NEW c \in Callers, call[c].pc \in {"idle", "deleteGet"},
         NEW req \in Requests, DeleteGet(c, req), req.verb = "delete",
         req.remove \cap Callers \subseteq {c}
  PROVE  Core'
<1> DEFINE fins == DeletionFinalizers(stored, req.policy)
           Frame(pc, input, after) ==
             [Idle EXCEPT !.pc = pc, !.req = req, !.target = stored.uid,
                          !.input = input, !.after = after]
           changed == Changed(stored, req, fins)
           marked  == Marked(stored, req, fins)
           waits == [Idle EXCEPT !.pc = "answered", !.target = stored.uid]
<1>1. stored \in Objects /\ UNCHANGED <<rev, stored>> /\ Numbered(stored, rev)
  BY DEF Core, TypeOK, DeleteGet
<1>2. fins \in SUBSET Finalizers /\ \A d \in Callers : d \in stored.fins => d \in fins
  BY <1>1, DeletionFinalizersFacts
<1>3. /\ changed \in Objects /\ changed.mod = stored.mod
      /\ changed.deleting = stored.deleting /\ Follows(changed, stored, req)
      /\ marked \in Objects /\ marked.mod = stored.mod
      /\ marked.deleting /\ Follows(marked, stored, req)
  <2> HIDE DEF fins, Frame, waits
  <2> QED BY <1>1, <1>2, DeletionCopies
<1>4. \/ stored = Absent /\ Fails(c)
      \/ stored # Absent /\ Conflicts(c, req)
      \/ /\ stored # Absent /\ stored.deleting
         /\ Goes(c, Frame("updateRead", changed, IF fins = {} THEN "expire" ELSE "return"))
      \/ stored # Absent /\ stored.deleting /\ Goes(c, waits)
      \/ stored # Absent /\ Goes(c, Frame("deleteRead", Absent, "return"))
      \/ stored # Absent /\ Goes(c, Frame("updateRead", marked, "return"))
  BY Zenon DEF DeleteGet, Changed, Marked
<1>5. ASSUME NEW pc \in {"updateRead", "deleteRead"}, NEW input \in Objects,
             NEW after \in {"return", "expire"}
      PROVE  /\ Frame(pc, input, after) \in Frames /\ Frame(pc, input, after).pc = pc
             /\ Frame(pc, input, after).req = req
             /\ Frame(pc, input, after).target = stored.uid
             /\ Frame(pc, input, after).input = input
  <2>1. stored.uid \in Nat
    BY <1>1 DEF Objects
  <2> QED BY <2>1, IdleType DEF Frames
<1>6. waits \in Frames /\ waits.pc = "answered" /\ waits.target = stored.uid
      /\ waits.req = NoRequest
  BY <1>1, IdleType DEF Frames, Objects
<1> HIDE DEF fins, changed, marked, Frame, waits
<1>7. CASE stored = Absent /\ Fails(c)
  BY <1>1, <1>7, FailsKeepsCore DEF Deleting
<1>8. CASE stored # Absent /\ Conflicts(c, req)
  BY <1>1, <1>8, ConflictsKeepsCore DEF Deleting
<1>9. CASE /\ stored # Absent /\ stored.deleting
           /\ Goes(c, Frame("updateRead", changed, IF fins = {} THEN "expire" ELSE "return"))
  <2> DEFINE after == IF fins = {} THEN "expire" ELSE "return"
             f == Frame("updateRead", changed, after)
  <2>1. /\ f \in Frames /\ f.pc = "updateRead" /\ f.req = req /\ f.target = stored.uid
        /\ f.input = changed
    BY <1>3, <1>5
  <2>2. Goes(c, f)
    BY <1>9
  <2> HIDE DEF f
  <2> QED BY <1>1, <1>3, <1>9, <2>1, <2>2, StartKeepsCore
<1>10. CASE stored # Absent /\ stored.deleting /\ Goes(c, waits)
  <2>1. FrameOK(c, waits, stored, rev)
    BY <1>1, <1>6, <1>10, NoRequestType
    DEF FrameOK, AsksOwn, CopyFollows, TargetKnown, Updating, Deleting, Numbered
  <2> QED BY <1>1, <1>6, <1>10, <2>1, ReadKeepsCore DEF Deleting
<1>11. CASE stored # Absent /\ Goes(c, Frame("deleteRead", Absent, "return"))
  <2> DEFINE f == Frame("deleteRead", Absent, "return")
  <2>1. f \in Frames /\ f.pc = "deleteRead" /\ f.req = req /\ f.target = stored.uid
    BY <1>5, AbsentType
  <2>2. Goes(c, f)
    BY <1>11
  <2> HIDE DEF f
  <2> QED BY <1>1, <1>11, <2>1, <2>2, StartKeepsCore
<1>12. CASE stored # Absent /\ Goes(c, Frame("updateRead", marked, "return"))
  <2> DEFINE f == Frame("updateRead", marked, "return")
  <2>1. /\ f \in Frames /\ f.pc = "updateRead" /\ f.req = req /\ f.target = stored.uid
        /\ f.input = marked
    BY <1>3, <1>5
  <2>2. Goes(c, f)
    BY <1>12
  <2> HIDE DEF f
  <2> QED BY <1>1, <1>3, <1>12, <2>1, <2>2, StartKeepsCore
<1> QED BY <1>4, <1>7, <1>8, <1>9, <1>10, <1>11, <1>12

LEMMA DeleteGood ==
  ASSUME Core, NEW c \in Callers, Delete(c)
  PROVE  Good
<1>0. stored \in Objects
  BY DEF Core, TypeOK
<1>1. PICK n \in Tries, g \in Graces \cup {Unset}, p \in AskedPolicies,
           u \in {0} \cup (IF "uid" \in Preconditions THEN {stored.uid} ELSE {}),
           m \in {0} \cup (IF "mod" \in Preconditions THEN {stored.mod} ELSE {}) :
        DeleteGet(c, [NoRequest EXCEPT !.verb = "delete", !.tries = n, !.grace = g,
                                       !.policy = p, !.uid = u, !.mod = m])
  BY DEF Delete
<1> DEFINE req == [NoRequest EXCEPT !.verb = "delete", !.tries = n, !.grace = g,
                                    !.policy = p, !.uid = u, !.mod = m]
<1>2. n \in 0..Attempts /\ u \in Nat /\ m \in Nat
  BY <1>0, StoreAssumption DEF Objects
<1>3. req \in Requests /\ req.verb = "delete" /\ req.remove = {}
  BY <1>2, NoRequestType DEF Requests
<1>4. DeleteGet(c, req)
  BY <1>1
<1> HIDE DEF req
<1>5. Core'
  BY <1>3, <1>4, DeleteGetKeepsCore DEF Delete, At
<1> QED BY <1>4, <1>5, ReadsCommit DEF Good, DeleteGet

LEMMA RetryDeleteGood ==
  ASSUME Core, NEW c \in Callers, RetryDelete(c)
  PROVE  Good
<1>1. /\ call[c] \in Frames /\ call[c].pc = "deleteGet" /\ AsksOwn(c, call[c])
      /\ DeleteGet(c, call[c].req)
  BY DEF RetryDelete, At, Core, TypeOK, FrameOK
<1>2. call[c].req \in Requests /\ call[c].req.verb = "delete"
  BY <1>1 DEF Frames, AsksOwn
<1>3. Core'
  BY <1>1, <1>2, DeleteGetKeepsCore DEF AsksOwn
<1> QED BY <1>1, <1>3, ReadsCommit DEF Good, DeleteGet

----
(* The theorems.                                                           *)

LEMMA InitCore == Init => Core
<1> SUFFICES ASSUME Init PROVE Core
  OBVIOUS
<1>1. TypeOK
  BY AbsentType, IdleType DEF Init, TypeOK
<1>2. \A c \in Callers : FrameOK(c, call[c], stored, rev)
  BY IdleFrameOK DEF Init
<1> QED BY <1>1, <1>2, AbsentType DEF Init, Core, Numbered, FinalizedHasRemover

LEMMA NextGood ==
  ASSUME Core, [Next]_vars
  PROVE  Good
<1>1. CASE UNCHANGED vars
  <2>1. UNCHANGED <<rev, stored, call>>
    BY <1>1 DEF vars
  <2>2. Core'
    BY <2>1
    DEF Core, TypeOK, Numbered, FrameOK, AsksOwn, CopyFollows, TargetKnown, Follows,
        FinalizedHasRemover, At
  <2> QED BY <2>1, <2>2, ReadsCommit DEF Good
<1>2. CASE Next
  BY <1>2, CreateReadGood, CreateTxnGood, EditGood, RetryEditGood, UpdateReadGood,
     UpdateTxnGood, DeleteGood, RetryDeleteGood, DeleteReadGood, DeleteTxnGood, AnsweredGood
  DEF Next
<1> QED BY <1>1, <1>2

\* The inductive invariant: versions only grow, so what a caller is about to
\* commit follows what is stored, unless its commit will be refused.
THEOREM CopiesFollow == Spec => []Core
<1>1. Core /\ [Next]_vars => Core'
  BY NextGood DEF Good
<1> QED BY InitCore, <1>1, PTL DEF Spec

\* The objects and requests of Store and the handlers keep their types.
THEOREM TypeCorrectness == Spec => []TypeOK
<1>1. Core => TypeOK
  BY DEF Core
<1> QED BY <1>1, CopiesFollow, PTL

\* Store.update and Store.delete leave no object behind that nothing holds:
\* whoever writes it finalised goes on to remove it, through any conflicts.
THEOREM StoreSoundness == Spec => []StoreIsSound
<1>1. Core => StoreIsSound
  BY DEF Core, StoreIsSound
<1> QED BY <1>1, CopiesFollow, PTL

\* A delete that deleteResource answered without an error is not undone: the
\* object it read is gone or deleting, whatever was written concurrently.
THEOREM DeletionIsHonoured == Spec => []DeleteIsHonoured
<1>1. Core => DeleteIsHonoured
  BY DEF Core, FrameOK, TargetKnown, DeleteIsHonoured, At
<1> QED BY <1>1, CopiesFollow, PTL

\* No request replaces an object by one of another uid, drops a finalizer it
\* was not asked to remove, or clears a deletion timestamp, however stale the
\* copies are that the edits and deletes write back.
THEOREM ObjectLifecycle == Spec => ObjectsLiveOnce
<1>1. Core /\ [Next]_vars =>
        [stored'.uid # stored.uid => stored.uid = 0 \/ stored'.uid = 0]_vars
  BY NextGood DEF Good, Commit
<1>2. Core /\ [Next]_vars =>
        [\A c \in Callers :
           c \in stored.fins /\ stored'.uid = stored.uid /\ c \notin stored'.fins
           => At(c, "updateTxn") /\ c \in call[c].req.remove]_vars
  BY NextGood DEF Good, Commit, Unheld
<1>3. Core /\ [Next]_vars =>
        [stored.deleting /\ stored'.uid = stored.uid => stored'.deleting]_vars
  BY NextGood DEF Good, Commit
<1>4. Spec => IncarnationsDoNotOverlap
  BY <1>1, CopiesFollow, PTL DEF Spec, IncarnationsDoNotOverlap
<1>5. Spec => OnlyOwnersUnhold
  BY <1>2, CopiesFollow, PTL DEF Spec, OnlyOwnersUnhold
<1>6. Spec => DeletionIsForGood
  BY <1>3, CopiesFollow, PTL DEF Spec, DeletionIsForGood
<1> QED BY <1>4, <1>5, <1>6 DEF ObjectsLiveOnce

----
(* The virtual network.                                                    *)

\* The addresses, of which those of pods are numbered from 1, are numbers.
Addressed ==
  /\ MaxSandboxes \in Nat /\ LastAddress \in Nat
  /\ ClusterIPs \subseteq Int /\ NodePorts \subseteq Int /\ NodeIPs \subseteq Int
  /\ DnsIP \in Int
  /\ \A host \in Hosts : host.ip \in Int /\ (host.kind = "alias" => host.alias \in Aliases)

Listeners == Procs \cup {NoProc}
NetTypes ==
  [cursor     : 0 .. LastAddress,
   ipOf       : [Ids -> 0 .. LastAddress],
   podsByIp   : [PodIPs -> 0 .. MaxSandboxes],
   dnsConfigs : SUBSET NetworkPods,
   http       : [PodIPs -> Listeners],
   dns        : [PodIPs -> Listeners],
   svc        : [Names -> Services \cup {NoService}],
   byIP       : [ClusterIPs -> Names \cup {NoName}],
   byPort     : [NodePorts -> Names \cup {NoName}],
   targets    : [Names -> [list : Seq(Int), at : Nat]],
   info       : [Nodes -> NodeStatuses \cup {NoInfo}],
   namesByIp  : [NodeIPs -> SUBSET Nodes],
   ipsByAlias : [Aliases -> SUBSET NodeIPs]]

SandboxTypes ==
  [uid   : NetworkPods \cup {""},
   state : {"none", "failed", "Ready", "NotReady", "removed"},
   ip    : 0 .. LastAddress,
   main  : {"none", "running", "listening", "ended"},
   exec  : {"none", "running", "listening", "ended"}]

RequestTypes ==
  [pc      : {"new", "resolving", "external", "sent", "refused", "handling", "answered", "canceled"},
   origin  : NetworkPods,
   host    : Hosts,
   lookups : Seq({"searched", "bare"}),
   answer  : ClusterIPs \cup {0},
   to      : Int,
   owner   : 0 .. MaxSandboxes,
   by      : Listeners]

NetworkTyped ==
  /\ net \in NetTypes
  /\ sandboxes \in [Ids -> SandboxTypes]
  /\ fetches \in Seq(RequestTypes)

\* What a table step leaves alone: where the pods are and what they listen to.
SamePods(n, m) ==
  /\ m.cursor = n.cursor /\ m.ipOf = n.ipOf /\ m.podsByIp = n.podsByIp
  /\ m.dnsConfigs = n.dnsConfigs /\ m.http = n.http /\ m.dns = n.dns

TurnsIn(n) == \A s \in Names : HasTarget(n, s) => n.targets[s].at \in DOMAIN n.targets[s].list

Kept(n, m) ==
  /\ m \in NetTypes
  /\ SamePods(n, m)
  /\ TurnsIn(n) => TurnsIn(m)

----
LEMMA UnregistersService ==
  ASSUME Addressed, NEW n \in NetTypes, NEW s \in Names
  PROVE  Kept(n, unregisterService(n, s))
<1> DEFINE old == n.svc[s]
           m   == [n EXCEPT !.svc[s] = NoService, !.byIP[old.ip] = NoName, !.targets[s] = NoTargets]
           p   == [m EXCEPT !.byPort[old.nodePort] = NoName]
<1>1. NoTargets \in [list : Seq(Int), at : Nat]
  BY DEF NoTargets
<1>2. m \in NetTypes /\ SamePods(n, m)
  BY <1>1 DEF NetTypes, SamePods
<1>3. p \in NetTypes /\ SamePods(n, p) /\ p.targets = m.targets
  BY <1>2 DEF NetTypes, SamePods
<1>4. \A t \in Names : m.targets[t] = IF t = s THEN NoTargets ELSE n.targets[t]
  BY DEF NetTypes
<1>5. TurnsIn(n) => TurnsIn(m) /\ TurnsIn(p)
  BY <1>3, <1>4 DEF TurnsIn, HasTarget
<1>6. SamePods(n, n)
  BY DEF SamePods
<1>7. unregisterService(n, s) \in {n, m, p}
  BY DEF unregisterService
<1> QED BY <1>2, <1>3, <1>5, <1>6, <1>7 DEF Kept

LEMMA KeptTwice ==
  ASSUME NEW n, NEW m, NEW o, Kept(n, m), Kept(m, o)
  PROVE  Kept(n, o)
BY DEF Kept, SamePods

LEMMA RegistersService ==
  ASSUME Addressed, NEW n \in NetTypes, NEW s \in Names, NEW new \in Services
  PROVE  Kept(n, registerService(n, s, new))
<1> DEFINE u == unregisterService(n, s)
           m == [u EXCEPT !.svc[s] = new, !.byIP[new.ip] = s,
                          !.targets[s] = [list |-> <<>>, at |-> 1]]
           p == [m EXCEPT !.byPort[new.nodePort] = s]
<1>1. Kept(n, u)
  BY UnregistersService
<1> HIDE DEF u
<1>2. [list |-> <<>>, at |-> 1] \in [list : Seq(Int), at : Nat]
  OBVIOUS
<1>3. m \in NetTypes /\ SamePods(u, m)
  BY <1>1, <1>2 DEF NetTypes, SamePods, Kept
<1>4. \A t \in Names : m.targets[t] = IF t = s THEN [list |-> <<>>, at |-> 1] ELSE u.targets[t]
  BY <1>1 DEF NetTypes, Kept
<1>5. TurnsIn(u) => TurnsIn(m)
  BY <1>4 DEF TurnsIn, HasTarget
<1>6. Kept(u, m)
  BY <1>3, <1>5 DEF Kept
<1>7. p \in NetTypes /\ SamePods(m, p) /\ p.targets = m.targets
  BY <1>3 DEF NetTypes, SamePods
<1>8. Kept(m, p)
  BY <1>7 DEF Kept, TurnsIn, HasTarget
<1>9. registerService(n, s, new) \in {m, p}
  BY DEF registerService, u
<1> HIDE DEF m, p
<1> QED BY <1>1, <1>6, <1>8, <1>9, KeptTwice

LEMMA SetsTargets ==
  ASSUME Addressed, NEW n \in NetTypes, NEW s \in Names, NEW list \in Seq(Int)
  PROVE  Kept(n, setServiceTargets(n, s, list))
<1> DEFINE at == IF list = <<>> THEN 1 ELSE 1 + ((n.targets[s].at - 1) % Len(list))
           m  == [n EXCEPT !.targets[s] = [list |-> list, at |-> at]]
<1>1. n.targets[s].at \in Nat
  BY DEF NetTypes
<1>2. list # <<>> => Len(list) \in Nat /\ Len(list) > 0
  OBVIOUS
<1>3. at \in Nat /\ (list # <<>> => at \in 1 .. Len(list))
  BY <1>1, <1>2
<1> HIDE DEF at
<1>4. m \in NetTypes /\ SamePods(n, m)
  BY <1>3 DEF NetTypes, SamePods
<1>5. \A t \in Names : m.targets[t] = IF t = s THEN [list |-> list, at |-> at] ELSE n.targets[t]
  BY DEF NetTypes
<1>6. TurnsIn(n) => TurnsIn(m)
  BY <1>3, <1>5 DEF TurnsIn, HasTarget
<1>7. setServiceTargets(n, s, list) = m
  BY DEF setServiceTargets, at
<1> QED BY <1>4, <1>6, <1>7 DEF Kept

LEMMA TakesTurn ==
  ASSUME Addressed, NEW n \in NetTypes, NEW s \in Names, HasTarget(n, s)
  PROVE  Kept(n, TakeTurn(n, s))
<1> DEFINE list == n.targets[s].list
           at   == 1 + (n.targets[s].at % Len(list))
           turn == [n.targets[s] EXCEPT !.at = at]
           m    == [n EXCEPT !.targets[s] = turn]
<1>1. n.targets[s] \in [list : Seq(Int), at : Nat] /\ list # <<>>
  BY DEF NetTypes, HasTarget
<1>2. Len(list) \in Nat /\ Len(list) > 0
  BY <1>1
<1>3. at \in 1 .. Len(list)
  BY <1>1, <1>2
<1>4. TakeTurn(n, s) = m
  BY DEF TakeTurn
<1> HIDE DEF at
<1>5. turn \in [list : Seq(Int), at : Nat] /\ turn.list = list /\ turn.at = at
  BY <1>1, <1>3
<1> HIDE DEF turn
<1>6. m \in NetTypes /\ SamePods(n, m)
  BY <1>5 DEF NetTypes, SamePods
<1>7. \A t \in Names : m.targets[t] = IF t = s THEN turn ELSE n.targets[t]
  BY DEF NetTypes
<1>8. TurnsIn(n) => TurnsIn(m)
  BY <1>1, <1>3, <1>5, <1>7 DEF TurnsIn, HasTarget
<1> QED BY <1>4, <1>6, <1>8 DEF Kept

LEMMA UnregistersNode ==
  ASSUME Addressed, NEW n \in NetTypes, NEW node \in Nodes
  PROVE  Kept(n, unregisterNode(n, node))
<1> DEFINE i == n.info[node]
           names   == [a \in NodeIPs |-> n.namesByIp[a] \ (IF a \in Range(i.ips) THEN {node} ELSE {})]
           aliases == [a \in Aliases |->
                         IF a \in i.aliases THEN n.ipsByAlias[a] \ Range(i.ips) ELSE n.ipsByAlias[a]]
           m == [n EXCEPT !.info[node] = NoInfo, !.namesByIp = names, !.ipsByAlias = aliases]
<1>1. names \in [NodeIPs -> SUBSET Nodes]
  BY DEF NetTypes
<1>2. aliases \in [Aliases -> SUBSET NodeIPs]
  BY DEF NetTypes
<1>3. unregisterNode(n, node) \in {n, m}
  BY DEF unregisterNode
<1> HIDE DEF names, aliases
<1>4. m \in NetTypes /\ SamePods(n, m) /\ m.targets = n.targets
  BY <1>1, <1>2 DEF NetTypes, SamePods
<1>5. TurnsIn(n) => TurnsIn(m)
  BY <1>4 DEF TurnsIn, HasTarget
<1>6. SamePods(n, n)
  BY DEF SamePods
<1> QED BY <1>3, <1>4, <1>5, <1>6 DEF Kept

LEMMA RegistersNode ==
  ASSUME Addressed, NEW n \in NetTypes, NEW node \in Nodes, NEW i \in NodeStatuses
  PROVE  Kept(n, registerNode(n, node, i))
<1> DEFINE u == unregisterNode(n, node)
           names   == [a \in NodeIPs |-> u.namesByIp[a] \cup (IF a \in Range(i.ips) THEN {node} ELSE {})]
           aliases == [a \in Aliases |-> IF a \in i.aliases /\ i.ips # <<>>
                                           THEN u.ipsByAlias[a] \cup {i.ips[1]} ELSE u.ipsByAlias[a]]
           m == [u EXCEPT !.info[node] = i, !.namesByIp = names, !.ipsByAlias = aliases]
<1>1. Kept(n, u)
  BY UnregistersNode
<1>2. registerNode(n, node, i) = m
  BY DEF registerNode
<1> HIDE DEF u
<1>3. names \in [NodeIPs -> SUBSET Nodes]
  BY <1>1 DEF NetTypes, Kept
<1>4. i.ips # <<>> => i.ips[1] \in NodeIPs
  BY DEF NodeStatuses
<1>5. aliases \in [Aliases -> SUBSET NodeIPs]
  BY <1>1, <1>4 DEF NetTypes, Kept
<1> HIDE DEF names, aliases
<1>6. m \in NetTypes /\ SamePods(u, m) /\ m.targets = u.targets
  BY <1>1, <1>3, <1>5 DEF NetTypes, SamePods, Kept
<1>7. Kept(u, m)
  BY <1>6 DEF Kept, TurnsIn, HasTarget
<1> QED BY <1>1, <1>2, <1>7, KeptTwice

\* A request's route takes a turn at most, and leads to a number.
LEMMA Routes ==
  ASSUME Addressed, NEW n \in NetTypes, TurnsIn(n), NEW ip \in Int, NEW port
  PROVE  Kept(n, Route(n, ip, port).net) /\ Route(n, ip, port).to \in Int
<1> DEFINE s == IF ip \in NodeIPs THEN (IF port \in NodePorts THEN n.byPort[port] ELSE NoName)
                ELSE IF ip \in ClusterIPs THEN n.byIP[ip] ELSE NoName
           service == s # NoName /\ HasTarget(n, s)
<1>1. s \in Names \cup {NoName}
  BY DEF NetTypes
<1>2. \/ Route(n, ip, port) = [net |-> n, to |-> Nowhere]
      \/ Route(n, ip, port) = [net |-> n, to |-> ip]
      \/ /\ s # NoName /\ HasTarget(n, s)
         /\ Route(n, ip, port) = [net |-> TakeTurn(n, s), to |-> NextTarget(n, s)]
  BY DEF Route
<1> HIDE DEF s
<1>3. Kept(n, n)
  BY DEF Kept, SamePods
<1>4. ASSUME s # NoName, HasTarget(n, s)
      PROVE  Kept(n, TakeTurn(n, s)) /\ NextTarget(n, s) \in Int
  <2>1. s \in Names
    BY <1>1, <1>4
  <2>2. n.targets[s].list \in Seq(Int) /\ n.targets[s].at \in DOMAIN n.targets[s].list
    BY <1>4, <2>1 DEF NetTypes, TurnsIn
  <2> QED BY <1>4, <2>1, <2>2, TakesTurn DEF NextTarget
<1> QED BY <1>2, <1>3, <1>4 DEF Nowhere

----
Tags  == {"main", "exec"}
Kinds == {"http", "dns"}

AddressesAgree ==
  \A i \in Ids, a \in PodIPs : net.podsByIp[a] = i <=> net.ipOf[i] = a
ListenersLive ==
  \A a \in PodIPs, k \in Kinds, i \in Ids, p \in Tags : net[k][a] = <<i, p>> =>
     net.ipOf[i] = a /\ sandboxes[i][p] = "listening" /\ Kind(i, p) = k
ListenersBound ==
  \A i \in Ids, p \in Tags :
     sandboxes[i][p] = "listening" /\ net.ipOf[i] # 0 => net[Kind(i, p)][net.ipOf[i]] = <<i, p>>
ConfigsKept == net.dnsConfigs = {sandboxes[i].uid : i \in {j \in Ids : net.ipOf[j] # 0}}
RegisteredReady ==
  \A i \in Ids : net.ipOf[i] # 0 => sandboxes[i].state = "Ready" /\ sandboxes[i].ip = net.ipOf[i]
UnreadyIdle ==
  \A i \in Ids : sandboxes[i].state \in {"none", "failed"} =>
     sandboxes[i].main = "none" /\ sandboxes[i].exec = "none"
RunHasAddress ==
  \A i \in Ids : sandboxes[i].state \notin {"none", "failed"} => sandboxes[i].ip \in PodIPs

PodsAreSound ==
  /\ AddressesAgree /\ ListenersLive /\ ListenersBound
  /\ ConfigsKept /\ RegisteredReady /\ UnreadyIdle /\ RunHasAddress

\* Nobody comes back: a sandbox that was run keeps its address or loses it.
NobodyReturns ==
  \A i \in Ids : sandboxes[i].state # "none" =>
     sandboxes'[i].state # "none" /\ net'.ipOf[i] \in {0, net.ipOf[i]}

PodsMove == net' \in NetTypes /\ sandboxes' \in [Ids -> SandboxTypes] /\ PodsAreSound' /\ NobodyReturns
            /\ (TurnsIn(net) => TurnsIn(net'))

Staged(i, p, v) == sandboxes' = [sandboxes EXCEPT ![i][p] = v]
Rebound(n, m, k, ip, v) == m = [n EXCEPT ![k][ip] = v]

LEMMA Stages ==
  ASSUME NetworkTyped, NEW i \in Ids, NEW p \in Tags,
         NEW v \in {"none", "running", "listening", "ended"}, Staged(i, p, v)
  PROVE  /\ sandboxes' \in [Ids -> SandboxTypes]
         /\ \A j \in Ids, q \in Tags :
              sandboxes'[j][q] = IF j = i /\ q = p THEN v ELSE sandboxes[j][q]
         /\ \A j \in Ids : /\ sandboxes'[j].uid = sandboxes[j].uid
                           /\ sandboxes'[j].state = sandboxes[j].state
                           /\ sandboxes'[j].ip = sandboxes[j].ip
<1>1. CASE p = "main"
  BY <1>1 DEF SandboxTypes, Tags, NetworkTyped, Staged
<1>2. CASE p = "exec"
  BY <1>2 DEF SandboxTypes, Tags, NetworkTyped, Staged
<1> QED BY <1>1, <1>2 DEF Tags

LEMMA Binds ==
  ASSUME NEW n \in NetTypes, NEW k \in Kinds, NEW ip \in PodIPs, NEW v \in Listeners,
         NEW m, Rebound(n, m, k, ip, v)
  PROVE  /\ m \in NetTypes
         /\ \A l \in Kinds, a \in PodIPs : m[l][a] = IF l = k /\ a = ip THEN v ELSE n[l][a]
         /\ m.ipOf = n.ipOf /\ m.podsByIp = n.podsByIp /\ m.dnsConfigs = n.dnsConfigs
         /\ m.targets = n.targets
<1>1. CASE k = "http"
  BY <1>1 DEF NetTypes, Kinds, Rebound
<1>2. CASE k = "dns"
  BY <1>2 DEF NetTypes, Kinds, Rebound
<1> QED BY <1>1, <1>2 DEF Kinds

\* What a step does to the processes of sandboxes that stay as they are.
LEMMA ProcessMoves ==
  ASSUME Addressed, NetworkTyped, PodsAreSound, NEW i \in Ids, NEW p \in Tags,
         NEW v \in {"none", "running", "listening", "ended"},
         sandboxes[i].state \notin {"none", "failed"}, Staged(i, p, v),
         net' \in NetTypes, net'.ipOf = net.ipOf, net'.podsByIp = net.podsByIp,
         net'.dnsConfigs = net.dnsConfigs, net'.targets = net.targets,
         ListenersLive', ListenersBound'
  PROVE  PodsMove
<1>2. /\ sandboxes' \in [Ids -> SandboxTypes]
      /\ \A j \in Ids : /\ sandboxes'[j].uid = sandboxes[j].uid
                        /\ sandboxes'[j].state = sandboxes[j].state
                        /\ sandboxes'[j].ip = sandboxes[j].ip
  BY Stages
<1>3. AddressesAgree' /\ ConfigsKept' /\ RegisteredReady' /\ RunHasAddress'
  BY <1>2 DEF PodsAreSound, AddressesAgree, ConfigsKept, RegisteredReady, RunHasAddress
<1>4. UnreadyIdle'
  <2> SUFFICES ASSUME NEW j \in Ids, sandboxes'[j].state \in {"none", "failed"}
               PROVE  sandboxes'[j].main = "none" /\ sandboxes'[j].exec = "none"
    BY DEF UnreadyIdle
  <2>1. j # i
    BY <1>2
  <2>2. sandboxes'[j].main = sandboxes[j].main /\ sandboxes'[j].exec = sandboxes[j].exec
    BY <2>1 DEF NetworkTyped, Staged
  <2> QED BY <1>2, <2>2 DEF PodsAreSound, UnreadyIdle
<1>5. NobodyReturns
  BY <1>2 DEF NobodyReturns, NetTypes
<1>6. TurnsIn(net) => TurnsIn(net')
  BY DEF TurnsIn, HasTarget
<1> QED BY <1>2, <1>3, <1>4, <1>5, <1>6 DEF PodsMove, PodsAreSound

LEMMA StartMoves ==
  ASSUME Addressed, NetworkTyped, PodsAreSound, NEW i \in Ids, NEW p \in Tags, Start(i, p)
  PROVE  PodsMove
<1>1. /\ Staged(i, p, "running") /\ net' = net
      /\ sandboxes[i].state \in {"Ready", "NotReady"}
      /\ p = "main" => sandboxes[i].main # "listening"
      /\ p = "exec" => sandboxes[i].exec # "listening"
  BY DEF Start, Tags, Staged
<1>2. /\ \A j \in Ids, q \in Tags :
              sandboxes'[j][q] = IF j = i /\ q = p THEN "running" ELSE sandboxes[j][q]
      /\ \A j \in Ids : sandboxes'[j].uid = sandboxes[j].uid
  BY <1>1, Stages
<1>3. sandboxes[i][p] # "listening"
  BY <1>1 DEF Tags
<1>4. \A j \in Ids, q \in Tags : Kind(j, q)' = Kind(j, q)
  BY <1>2 DEF Kind
<1>5. ListenersLive'
  BY <1>1, <1>2, <1>3, <1>4 DEF PodsAreSound, ListenersLive
<1>6. ListenersBound'
  <2> SUFFICES ASSUME NEW j \in Ids, NEW q \in Tags, sandboxes'[j][q] = "listening",
                      net'.ipOf[j] # 0
               PROVE  net'[Kind(j, q)'][net'.ipOf[j]] = <<j, q>>
    BY DEF ListenersBound
  <2>1. sandboxes[j][q] = "listening"
    BY <1>2
  <2> QED BY <1>1, <1>4, <2>1 DEF PodsAreSound, ListenersBound
<1> QED BY <1>1, <1>5, <1>6, ProcessMoves DEF NetworkTyped

LEMMA ListenMoves ==
  ASSUME Addressed, NetworkTyped, PodsAreSound, NEW i \in Ids, NEW p \in Tags, Listen(i, p)
  PROVE  PodsMove
<1> DEFINE ip == net.ipOf[i]
           k  == Kind(i, p)
           ok == ip # 0 /\ net[k][ip] = NoProc
           v  == IF ok THEN "listening" ELSE "ended"
<1>1. /\ sandboxes[i][p] = "running" /\ Staged(i, p, v)
      /\ net' = IF ok THEN [net EXCEPT ![k][ip] = <<i, p>>] ELSE net
  BY DEF Listen, Staged
<1>2. /\ \A j \in Ids, q \in Tags :
              sandboxes'[j][q] = IF j = i /\ q = p THEN v ELSE sandboxes[j][q]
      /\ \A j \in Ids : sandboxes'[j].uid = sandboxes[j].uid
  BY <1>1, Stages
<1>3. sandboxes[i].state \notin {"none", "failed"}
  BY <1>1 DEF PodsAreSound, UnreadyIdle, Tags
<1>4. \A j \in Ids, q \in Tags : Kind(j, q)' = Kind(j, q)
  BY <1>2 DEF Kind
<1>5. k \in Kinds /\ <<i, p>> \in Listeners /\ ip \in 0 .. LastAddress
  BY DEF Kind, Kinds, Listeners, Procs, Tags, NetworkTyped, NetTypes
<1>6. CASE ok
  <2>1. ip \in PodIPs
    BY <1>5, <1>6 DEF PodIPs, Addressed
  <2>2. Rebound(net, net', k, ip, <<i, p>>)
    BY <1>1, <1>6 DEF Rebound
  <2>3. /\ net' \in NetTypes
        /\ \A l \in Kinds, a \in PodIPs : net'[l][a] = IF l = k /\ a = ip THEN <<i, p>> ELSE net[l][a]
        /\ net'.ipOf = net.ipOf /\ net'.podsByIp = net.podsByIp /\ net'.dnsConfigs = net.dnsConfigs
        /\ net'.targets = net.targets
    <3> HIDE DEF k, ip
    <3> QED BY <1>5, <2>1, <2>2, Binds DEF NetworkTyped
  <2>4. ListenersLive'
    <3> SUFFICES ASSUME NEW a \in PodIPs, NEW l \in Kinds, NEW j \in Ids, NEW q \in Tags,
                        net'[l][a] = <<j, q>>
                 PROVE  net'.ipOf[j] = a /\ sandboxes'[j][q] = "listening" /\ Kind(j, q)' = l
      BY DEF ListenersLive
    <3>1. CASE l = k /\ a = ip
      <4>1. j = i /\ q = p
        BY <2>3, <3>1
      <4> QED BY <1>2, <1>4, <1>6, <2>3, <3>1, <4>1
    <3>2. CASE ~(l = k /\ a = ip)
      <4>1. net[l][a] = <<j, q>>
        BY <2>3, <3>2
      <4>2. net.ipOf[j] = a /\ sandboxes[j][q] = "listening" /\ Kind(j, q) = l
        BY <4>1 DEF PodsAreSound, ListenersLive
      <4> QED BY <1>1, <1>2, <1>4, <2>3, <4>2
    <3> QED BY <3>1, <3>2
  <2>5. ListenersBound'
    <3> SUFFICES ASSUME NEW j \in Ids, NEW q \in Tags, sandboxes'[j][q] = "listening",
                        net'.ipOf[j] # 0
                 PROVE  net'[Kind(j, q)'][net'.ipOf[j]] = <<j, q>>
      BY DEF ListenersBound
    <3>1. Kind(j, q) \in Kinds /\ net.ipOf[j] \in PodIPs
      BY <2>3 DEF Kind, Kinds, NetworkTyped, NetTypes, PodIPs, Addressed
    <3>2. CASE j = i /\ q = p
      BY <1>4, <2>3, <3>1, <3>2
    <3>3. CASE ~(j = i /\ q = p)
      <4>1. net[Kind(j, q)][net.ipOf[j]] = <<j, q>>
        BY <1>2, <2>3, <3>3 DEF PodsAreSound, ListenersBound
      <4>2. <<j, q>> # NoProc
        BY DEF NoProc, Tags
      <4> QED BY <1>4, <1>6, <2>3, <3>1, <4>1, <4>2
    <3> QED BY <3>2, <3>3
  <2> QED BY <1>1, <1>3, <1>6, <2>3, <2>4, <2>5, ProcessMoves
<1>7. CASE ~ok
  <2>1. net' = net /\ v = "ended"
    BY <1>1, <1>7
  <2>2. ListenersLive'
    BY <1>1, <1>2, <1>4, <2>1 DEF PodsAreSound, ListenersLive
  <2>3. ListenersBound'
    <3> SUFFICES ASSUME NEW j \in Ids, NEW q \in Tags, sandboxes'[j][q] = "listening",
                        net'.ipOf[j] # 0
                 PROVE  net'[Kind(j, q)'][net'.ipOf[j]] = <<j, q>>
      BY DEF ListenersBound
    <3>1. sandboxes[j][q] = "listening"
      BY <1>2, <2>1
    <3> QED BY <1>4, <2>1, <3>1 DEF PodsAreSound, ListenersBound
  <2>4. net' \in NetTypes
    BY <2>1 DEF NetworkTyped
  <2>5. Staged(i, p, "ended")
    BY <1>1, <2>1
  <2> QED BY <1>3, <2>1, <2>2, <2>3, <2>4, <2>5, ProcessMoves
<1> QED BY <1>6, <1>7

LEMMA EndsMoves ==
  ASSUME Addressed, NetworkTyped, PodsAreSound, NEW i \in Ids, NEW p \in Tags, ProcessEnds(i, p)
  PROVE  PodsMove
<1> DEFINE ip == sandboxes[i].ip
           k  == Kind(i, p)
           bound == sandboxes[i][p] = "listening" /\ net[k][ip] = <<i, p>>
<1>1. /\ sandboxes[i][p] \in {"running", "listening"} /\ Staged(i, p, "ended")
      /\ net' = IF bound THEN [net EXCEPT ![k][ip] = NoProc] ELSE net
  BY DEF ProcessEnds, Staged, Unbinds
<1>2. /\ \A j \in Ids, q \in Tags :
              sandboxes'[j][q] = IF j = i /\ q = p THEN "ended" ELSE sandboxes[j][q]
      /\ \A j \in Ids : sandboxes'[j].uid = sandboxes[j].uid
  BY <1>1, Stages
<1>3. sandboxes[i].state \notin {"none", "failed"}
  BY <1>1 DEF PodsAreSound, UnreadyIdle, Tags
<1>4. \A j \in Ids, q \in Tags : Kind(j, q)' = Kind(j, q)
  BY <1>2 DEF Kind
<1>5. k \in Kinds /\ NoProc \in Listeners /\ ip \in PodIPs
  BY <1>3 DEF Kind, Kinds, Listeners, PodsAreSound, RunHasAddress
<1>6. \A l \in Kinds, a \in PodIPs : net[l][a] = <<i, p>> => bound /\ l = k /\ a = ip
  <2> SUFFICES ASSUME NEW l \in Kinds, NEW a \in PodIPs, net[l][a] = <<i, p>>
               PROVE  bound /\ l = k /\ a = ip
    OBVIOUS
  <2>1. net.ipOf[i] = a /\ sandboxes[i][p] = "listening" /\ k = l
    BY DEF PodsAreSound, ListenersLive
  <2>2. a # 0
    BY DEF PodIPs, Addressed
  <2>3. a = ip
    BY <2>1, <2>2 DEF PodsAreSound, RegisteredReady
  <2> QED BY <2>1, <2>3
<1>7. /\ net' \in NetTypes
      /\ \A l \in Kinds, a \in PodIPs :
           net'[l][a] = IF bound /\ l = k /\ a = ip THEN NoProc ELSE net[l][a]
      /\ net'.ipOf = net.ipOf /\ net'.podsByIp = net.podsByIp /\ net'.dnsConfigs = net.dnsConfigs
      /\ net'.targets = net.targets
  <2>1. CASE bound
    <3>1. Rebound(net, net', k, ip, NoProc)
      BY <1>1, <2>1 DEF Rebound
    <3> HIDE DEF k, ip
    <3>2. /\ net' \in NetTypes
          /\ \A l \in Kinds, a \in PodIPs : net'[l][a] = IF l = k /\ a = ip THEN NoProc ELSE net[l][a]
          /\ net'.ipOf = net.ipOf /\ net'.podsByIp = net.podsByIp /\ net'.dnsConfigs = net.dnsConfigs
          /\ net'.targets = net.targets
      BY <1>5, <3>1, Binds DEF NetworkTyped
    <3> QED BY <2>1, <3>2
  <2>2. CASE ~bound
    <3>1. net' = net
      BY <1>1, <2>2
    <3> QED BY <2>2, <3>1 DEF NetworkTyped
  <2> QED BY <2>1, <2>2
<1>8. ListenersLive'
  <2> SUFFICES ASSUME NEW a \in PodIPs, NEW l \in Kinds, NEW j \in Ids, NEW q \in Tags,
                      net'[l][a] = <<j, q>>
               PROVE  net'.ipOf[j] = a /\ sandboxes'[j][q] = "listening" /\ Kind(j, q)' = l
    BY DEF ListenersLive
  <2>1. <<j, q>> # NoProc
    BY DEF NoProc, Tags
  <2>2. ~(bound /\ l = k /\ a = ip) /\ net[l][a] = <<j, q>>
    BY <1>7, <2>1
  <2>3. ~(j = i /\ q = p)
    BY <1>6, <2>2
  <2>4. net.ipOf[j] = a /\ sandboxes[j][q] = "listening" /\ Kind(j, q) = l
    BY <2>2 DEF PodsAreSound, ListenersLive
  <2> QED BY <1>2, <1>4, <1>7, <2>3, <2>4
<1>9. ListenersBound'
  <2> SUFFICES ASSUME NEW j \in Ids, NEW q \in Tags, sandboxes'[j][q] = "listening",
                      net'.ipOf[j] # 0
               PROVE  net'[Kind(j, q)'][net'.ipOf[j]] = <<j, q>>
    BY DEF ListenersBound
  <2>1. Kind(j, q) \in Kinds /\ net.ipOf[j] \in PodIPs
    BY <1>7 DEF Kind, Kinds, NetworkTyped, NetTypes, PodIPs, Addressed
  <2>2. sandboxes[j][q] = "listening" /\ ~(j = i /\ q = p)
    BY <1>2
  <2>3. net[Kind(j, q)][net.ipOf[j]] = <<j, q>>
    BY <1>7, <2>2 DEF PodsAreSound, ListenersBound
  <2>4. ~(bound /\ Kind(j, q) = k /\ net.ipOf[j] = ip)
    BY <2>2, <2>3
  <2>5. net'[Kind(j, q)][net.ipOf[j]] = <<j, q>>
    <3> HIDE DEF bound, k, ip
    <3> QED BY <1>7, <2>1, <2>3, <2>4
  <2> QED BY <1>4, <1>7, <2>5
<1> QED BY <1>1, <1>3, <1>7, <1>8, <1>9, ProcessMoves

LEMMA StopMoves ==
  ASSUME Addressed, NetworkTyped, PodsAreSound, NEW i \in Ids, StopSandbox(i)
  PROVE  PodsMove
<1> DEFINE state == IF sandboxes[i].state = "Ready" THEN "NotReady" ELSE "removed"
           ip == net.ipOf[i]
           uid == sandboxes[i].uid
           others == \E j \in Ids : j # i /\ net.ipOf[j] # 0 /\ sandboxes[j].uid = uid
           configs == IF others THEN net.dnsConfigs ELSE net.dnsConfigs \ {uid}
           gone == [net EXCEPT !.ipOf[i] = 0, !.podsByIp[ip] = 0,
                               !.http[ip] = NoProc, !.dns[ip] = NoProc, !.dnsConfigs = configs]
<1>1. /\ sandboxes[i].state \in {"Ready", "NotReady"}
      /\ sandboxes' = [sandboxes EXCEPT ![i].state = state]
      /\ net' = Without(i, net)
  BY DEF StopSandbox, unregisterPod
<1>2. /\ sandboxes' \in [Ids -> SandboxTypes]
      /\ \A j \in Ids : /\ sandboxes'[j].uid = sandboxes[j].uid
                        /\ sandboxes'[j].state = IF j = i THEN state ELSE sandboxes[j].state
                        /\ sandboxes'[j].ip = sandboxes[j].ip
                        /\ sandboxes'[j].main = sandboxes[j].main
                        /\ sandboxes'[j].exec = sandboxes[j].exec
                        /\ \A q \in Tags : sandboxes'[j][q] = sandboxes[j][q]
  BY <1>1 DEF NetworkTyped, SandboxTypes, Tags
<1>3. \A j \in Ids, q \in Tags : Kind(j, q)' = Kind(j, q)
  BY <1>2 DEF Kind
<1>4. ip \in 0 .. LastAddress
  BY DEF NetworkTyped, NetTypes
<1>5. CASE ip = 0
  <2>1. net' = net
    BY <1>1, <1>5 DEF Without
  <2>2. AddressesAgree' /\ ConfigsKept' /\ RunHasAddress'
    BY <1>1, <1>2, <2>1 DEF PodsAreSound, AddressesAgree, ConfigsKept, RunHasAddress
  <2>3. RegisteredReady'
    BY <1>2, <1>5, <2>1 DEF PodsAreSound, RegisteredReady
  <2>4. UnreadyIdle'
    BY <1>2 DEF PodsAreSound, UnreadyIdle
  <2>5. ListenersLive'
    BY <1>2, <1>3, <2>1 DEF PodsAreSound, ListenersLive
  <2>6. ListenersBound'
    <3> SUFFICES ASSUME NEW j \in Ids, NEW q \in Tags, sandboxes'[j][q] = "listening",
                        net'.ipOf[j] # 0
                 PROVE  net'[Kind(j, q)'][net'.ipOf[j]] = <<j, q>>
      BY DEF ListenersBound
    <3> QED BY <1>2, <1>3, <2>1 DEF PodsAreSound, ListenersBound
  <2>7. NobodyReturns
    BY <1>2, <2>1 DEF NobodyReturns
  <2> QED
    BY <1>2, <2>1, <2>2, <2>3, <2>4, <2>5, <2>6, <2>7 DEF PodsMove, PodsAreSound, NetworkTyped
<1>6. CASE ip # 0
  <2>1. ip \in PodIPs
    BY <1>4, <1>6 DEF PodIPs, Addressed
  <2>2. net.podsByIp[ip] = i /\ (\A j \in Ids : net.ipOf[j] = ip => j = i)
    BY <2>1 DEF PodsAreSound, AddressesAgree
  <2>3. /\ gone \in NetTypes
        /\ \A j \in Ids : gone.ipOf[j] = IF j = i THEN 0 ELSE net.ipOf[j]
        /\ \A a \in PodIPs : gone.podsByIp[a] = IF a = ip THEN 0 ELSE net.podsByIp[a]
        /\ \A l \in Kinds, a \in PodIPs : gone[l][a] = IF a = ip THEN NoProc ELSE net[l][a]
        /\ gone.dnsConfigs = configs /\ gone.targets = net.targets
    <3>1. configs \subseteq NetworkPods /\ NoProc \in Listeners
      BY DEF NetworkTyped, NetTypes, Listeners
    <3> HIDE DEF configs
    <3>2. gone \in NetTypes
      <4> DEFINE ipOf == [net.ipOf EXCEPT ![i] = 0]
                 podsByIp == [net.podsByIp EXCEPT ![ip] = 0]
                 http == [net.http EXCEPT ![ip] = NoProc]
                 dns  == [net.dns EXCEPT ![ip] = NoProc]
      <4>0. 0 \in 0 .. LastAddress /\ 0 \in 0 .. MaxSandboxes
        BY DEF Addressed
      <4>. net.ipOf \in [Ids -> 0 .. LastAddress] /\ net.podsByIp \in [PodIPs -> 0 .. MaxSandboxes]
        BY DEF NetworkTyped, NetTypes
      <4>1. ipOf \in [Ids -> 0 .. LastAddress] /\ podsByIp \in [PodIPs -> 0 .. MaxSandboxes]
        BY <4>0
      <4>2. http \in [PodIPs -> Listeners] /\ dns \in [PodIPs -> Listeners]
        BY <3>1 DEF NetworkTyped, NetTypes
      <4>3. gone = [net EXCEPT !.ipOf = ipOf, !.podsByIp = podsByIp, !.http = http, !.dns = dns,
                               !.dnsConfigs = configs]
        OBVIOUS
      <4> HIDE DEF ipOf, podsByIp, http, dns, gone
      <4> QED BY <3>1, <4>1, <4>2, <4>3 DEF NetworkTyped, NetTypes
    <3>3. /\ \A j \in Ids : gone.ipOf[j] = IF j = i THEN 0 ELSE net.ipOf[j]
          /\ \A a \in PodIPs : gone.podsByIp[a] = IF a = ip THEN 0 ELSE net.podsByIp[a]
          /\ gone.dnsConfigs = configs /\ gone.targets = net.targets
      BY DEF NetworkTyped, NetTypes
    <3>4. \A l \in Kinds, a \in PodIPs : gone[l][a] = IF a = ip THEN NoProc ELSE net[l][a]
      <4>1. \A a \in PodIPs : gone["http"][a] = IF a = ip THEN NoProc ELSE net["http"][a]
        BY DEF NetworkTyped, NetTypes
      <4>2. \A a \in PodIPs : gone["dns"][a] = IF a = ip THEN NoProc ELSE net["dns"][a]
        BY DEF NetworkTyped, NetTypes
      <4> HIDE DEF gone
      <4> QED BY <4>1, <4>2 DEF Kinds
    <3> QED BY <3>2, <3>3, <3>4
  <2>4. net' = gone
    <3> DEFINE m == [net EXCEPT !.ipOf[i] = 0, !.podsByIp[ip] = 0,
                                !.http[ip] = NoProc, !.dns[ip] = NoProc]
               rest == \E j \in Ids : m.ipOf[j] # 0 /\ sandboxes[j].uid = uid
    <3>1. \A j \in Ids : m.ipOf[j] = IF j = i THEN 0 ELSE net.ipOf[j]
      BY DEF NetworkTyped, NetTypes
    <3>2. rest <=> others
      BY <3>1
    <3>3. net' = [m EXCEPT !.dnsConfigs = IF rest THEN net.dnsConfigs ELSE net.dnsConfigs \ {uid}]
      BY <1>1, <1>6 DEF Without, NetworkTyped, NetTypes
    <3> QED BY <3>2, <3>3 DEF NetworkTyped, NetTypes
  <2> HIDE DEF gone
  <2>5. AddressesAgree'
    BY <2>1, <2>2, <2>3, <2>4 DEF PodsAreSound, AddressesAgree, PodIPs, Ids, Addressed
  <2>6. ConfigsKept'
    <3>1. net'.dnsConfigs = configs
      BY <2>3, <2>4
    <3>2. {j \in Ids : net'.ipOf[j] # 0} = {j \in Ids : net.ipOf[j] # 0} \ {i}
      BY <2>3, <2>4
    <3>3. {sandboxes'[j].uid : j \in {l \in Ids : net'.ipOf[l] # 0}}
            = {sandboxes[j].uid : j \in {l \in Ids : net.ipOf[l] # 0} \ {i}}
      BY <1>2, <3>2
    <3>4. net.dnsConfigs = {sandboxes[j].uid : j \in {l \in Ids : net.ipOf[l] # 0}}
      BY DEF PodsAreSound, ConfigsKept
    <3>5. configs = {sandboxes[j].uid : j \in {l \in Ids : net.ipOf[l] # 0} \ {i}}
      BY <1>6, <3>4
    <3> QED BY <3>1, <3>3, <3>5 DEF ConfigsKept
  <2>7. RegisteredReady'
    BY <1>2, <2>3, <2>4 DEF PodsAreSound, RegisteredReady
  <2>8. UnreadyIdle' /\ RunHasAddress'
    BY <1>1, <1>2 DEF PodsAreSound, UnreadyIdle, RunHasAddress
  <2>9. ListenersLive'
    <3> SUFFICES ASSUME NEW a \in PodIPs, NEW l \in Kinds, NEW j \in Ids, NEW q \in Tags,
                        net'[l][a] = <<j, q>>
                 PROVE  net'.ipOf[j] = a /\ sandboxes'[j][q] = "listening" /\ Kind(j, q)' = l
      BY DEF ListenersLive
    <3>1. <<j, q>> # NoProc
      BY DEF NoProc, Tags
    <3>2. a # ip /\ net[l][a] = <<j, q>>
      BY <2>3, <2>4, <3>1
    <3>3. net.ipOf[j] = a /\ sandboxes[j][q] = "listening" /\ Kind(j, q) = l
      BY <3>2 DEF PodsAreSound, ListenersLive
    <3> QED BY <1>2, <1>3, <2>3, <2>4, <3>2, <3>3
  <2>10. ListenersBound'
    <3> SUFFICES ASSUME NEW j \in Ids, NEW q \in Tags, sandboxes'[j][q] = "listening",
                        net'.ipOf[j] # 0
                 PROVE  net'[Kind(j, q)'][net'.ipOf[j]] = <<j, q>>
      BY DEF ListenersBound
    <3>1. j # i /\ net'.ipOf[j] = net.ipOf[j]
      BY <2>3, <2>4
    <3>2. net.ipOf[j] # ip /\ net.ipOf[j] \in PodIPs /\ Kind(j, q) \in Kinds
      BY <2>2, <3>1 DEF Kind, Kinds, NetworkTyped, NetTypes, PodIPs, Addressed
    <3>3. net[Kind(j, q)][net.ipOf[j]] = <<j, q>>
      BY <1>2, <3>1 DEF PodsAreSound, ListenersBound
    <3> QED BY <1>3, <2>3, <2>4, <3>1, <3>2, <3>3
  <2>11. NobodyReturns
    BY <1>2, <2>3, <2>4 DEF NobodyReturns
  <2>12. TurnsIn(net) => TurnsIn(net')
    BY <2>3, <2>4 DEF TurnsIn, HasTarget
  <2> QED
    BY <1>2, <2>3, <2>4, <2>5, <2>6, <2>7, <2>8, <2>9, <2>10, <2>11, <2>12 DEF PodsMove, PodsAreSound
<1> QED BY <1>5, <1>6

\* A sandbox that was not run is on no network and has no process.
LEMMA RunMoves ==
  ASSUME Addressed, NetworkTyped, PodsAreSound, NEW uid \in NetworkPods, NEW i \in Ids,
         RunSandbox(uid, i)
  PROVE  PodsMove
<1>1. sandboxes[i].state = "none" /\ net.ipOf[i] = 0
  BY DEF RunSandbox, PodsAreSound, RegisteredReady
<1>2. sandboxes[i].main = "none" /\ sandboxes[i].exec = "none"
  BY <1>1 DEF PodsAreSound, UnreadyIdle
<1>3. CASE /\ sandboxes' = [sandboxes EXCEPT ![i] = [@ EXCEPT !.uid = uid, !.state = "failed"]]
           /\ net' = net
  <2>1. /\ sandboxes' \in [Ids -> SandboxTypes]
        /\ \A j \in Ids : j # i => sandboxes'[j] = sandboxes[j]
        /\ sandboxes'[i].state = "failed"
        /\ sandboxes'[i].main = "none" /\ sandboxes'[i].exec = "none"
    BY <1>2, <1>3 DEF NetworkTyped, SandboxTypes
  <2>2. \A q \in Tags : sandboxes[i][q] = "none" /\ sandboxes'[i][q] = "none"
    BY <1>2, <2>1 DEF Tags
  <2>3. \A j \in Ids, q \in Tags : j # i => Kind(j, q)' = Kind(j, q)
    BY <2>1 DEF Kind
  <2>4. AddressesAgree'
    BY <1>3 DEF PodsAreSound, AddressesAgree
  <2>5. ListenersLive'
    BY <1>3, <2>1, <2>2, <2>3 DEF PodsAreSound, ListenersLive
  <2>6. ListenersBound'
    <3> SUFFICES ASSUME NEW j \in Ids, NEW q \in Tags, sandboxes'[j][q] = "listening",
                        net'.ipOf[j] # 0
                 PROVE  net'[Kind(j, q)'][net'.ipOf[j]] = <<j, q>>
      BY DEF ListenersBound
    <3>1. j # i
      BY <2>2
    <3> QED BY <1>3, <2>1, <2>3, <3>1 DEF PodsAreSound, ListenersBound
  <2>7. ConfigsKept'
    <3>1. i \notin {j \in Ids : net.ipOf[j] # 0}
      BY <1>1
    <3>2. {sandboxes'[j].uid : j \in {l \in Ids : net.ipOf[l] # 0}}
            = {sandboxes[j].uid : j \in {l \in Ids : net.ipOf[l] # 0}}
      BY <2>1, <3>1
    <3> QED BY <1>3, <3>2 DEF PodsAreSound, ConfigsKept
  <2>8. RegisteredReady' /\ UnreadyIdle' /\ RunHasAddress'
    BY <1>1, <1>3, <2>1 DEF PodsAreSound, RegisteredReady, UnreadyIdle, RunHasAddress
  <2>9. NobodyReturns
    BY <1>1, <1>3, <2>1 DEF NobodyReturns
  <2> QED
    BY <1>3, <2>1, <2>4, <2>5, <2>6, <2>7, <2>8, <2>9 DEF PodsMove, PodsAreSound, NetworkTyped
<1>4. ASSUME NEW t \in PodIPs, FreeTry(net, t),
             sandboxes' = [sandboxes EXCEPT ![i] = [@ EXCEPT !.uid = uid, !.state = "Ready",
                                                             !.ip = Tried(net.cursor, t)]],
             net' = [net EXCEPT !.cursor = Tried(net.cursor, t), !.ipOf[i] = Tried(net.cursor, t),
                                !.podsByIp[Tried(net.cursor, t)] = i,
                                !.dnsConfigs = @ \cup {uid}]
      PROVE  PodsMove
  <2> DEFINE ip == Tried(net.cursor, t)
  <2>1. ip \in PodIPs /\ net.podsByIp[ip] = 0
    BY <1>4 DEF Tried, FreeTry
  <2>2. ip \in 1 .. LastAddress /\ i \in 1 .. MaxSandboxes
    BY <2>1 DEF PodIPs, Ids
  <2>3. /\ sandboxes' = [sandboxes EXCEPT ![i] = [@ EXCEPT !.uid = uid, !.state = "Ready", !.ip = ip]]
        /\ net' = [net EXCEPT !.cursor = ip, !.ipOf[i] = ip, !.podsByIp[ip] = i,
                              !.dnsConfigs = @ \cup {uid}]
    BY <1>4
  <2> HIDE DEF ip
  <2>4. /\ sandboxes' \in [Ids -> SandboxTypes]
        /\ \A j \in Ids : j # i => sandboxes'[j] = sandboxes[j]
        /\ sandboxes'[i].state = "Ready" /\ sandboxes'[i].ip = ip /\ sandboxes'[i].uid = uid
        /\ sandboxes'[i].main = "none" /\ sandboxes'[i].exec = "none"
    <3>0. ip \in 0 .. LastAddress
      BY <2>2 DEF Addressed
    <3>1. ip \in 0 .. LastAddress /\ uid \in NetworkPods \cup {""}
      BY <3>0
    <3> QED BY <1>2, <2>3, <3>1 DEF NetworkTyped, SandboxTypes
  <2>5. \A q \in Tags : sandboxes[i][q] = "none" /\ sandboxes'[i][q] = "none"
    BY <1>2, <2>4 DEF Tags
  <2>6. \A j \in Ids, q \in Tags : j # i => Kind(j, q)' = Kind(j, q)
    BY <2>4 DEF Kind
  <2>7. /\ net' \in NetTypes
        /\ \A j \in Ids : net'.ipOf[j] = IF j = i THEN ip ELSE net.ipOf[j]
        /\ \A a \in PodIPs : net'.podsByIp[a] = IF a = ip THEN i ELSE net.podsByIp[a]
        /\ net'.http = net.http /\ net'.dns = net.dns /\ net'.targets = net.targets
        /\ net'.dnsConfigs = net.dnsConfigs \cup {uid}
    <3> DEFINE ipOf == [net.ipOf EXCEPT ![i] = ip]
               podsByIp == [net.podsByIp EXCEPT ![ip] = i]
               configs == net.dnsConfigs \cup {uid}
    <3>1. ip \in 0 .. LastAddress /\ i \in 0 .. MaxSandboxes
      BY <2>2 DEF Addressed
    <3>2. net.ipOf \in [Ids -> 0 .. LastAddress] /\ net.podsByIp \in [PodIPs -> 0 .. MaxSandboxes]
      BY DEF NetworkTyped, NetTypes
    <3>3. /\ ipOf \in [Ids -> 0 .. LastAddress] /\ podsByIp \in [PodIPs -> 0 .. MaxSandboxes]
          /\ \A j \in Ids : ipOf[j] = IF j = i THEN ip ELSE net.ipOf[j]
          /\ \A a \in PodIPs : podsByIp[a] = IF a = ip THEN i ELSE net.podsByIp[a]
      BY <3>1, <3>2
    <3>4. configs \subseteq NetworkPods
      BY DEF NetworkTyped, NetTypes
    <3>5. net' = [net EXCEPT !.cursor = ip, !.ipOf = ipOf, !.podsByIp = podsByIp,
                             !.dnsConfigs = configs]
      BY <2>3 DEF NetworkTyped, NetTypes
    <3> HIDE DEF ipOf, podsByIp, configs
    <3>6. /\ net' \in NetTypes /\ net'.ipOf = ipOf /\ net'.podsByIp = podsByIp
          /\ net'.http = net.http /\ net'.dns = net.dns /\ net'.targets = net.targets
          /\ net'.dnsConfigs = configs
      BY <3>1, <3>3, <3>4, <3>5 DEF NetworkTyped, NetTypes
    <3> QED BY <3>3, <3>6 DEF configs
  <2>8. \A l \in Kinds : net'[l] = net[l]
    BY <2>7 DEF Kinds
  <2>9. \A j \in Ids : net.ipOf[j] # ip
    <3> SUFFICES ASSUME NEW j \in Ids, net.ipOf[j] = ip PROVE FALSE
      OBVIOUS
    <3>1. net.podsByIp[ip] = j
      BY <2>1 DEF PodsAreSound, AddressesAgree
    <3> QED BY <2>1, <3>1 DEF Ids, Addressed
  <2>10. AddressesAgree'
    <3> SUFFICES ASSUME NEW j \in Ids, NEW a \in PodIPs
                 PROVE  net'.podsByIp[a] = j <=> net'.ipOf[j] = a
      BY DEF AddressesAgree
    <3>1. net.podsByIp[a] = j <=> net.ipOf[j] = a
      BY DEF PodsAreSound, AddressesAgree
    <3>2. 0 \notin PodIPs
      BY DEF PodIPs, Addressed
    <3> QED BY <1>1, <2>1, <2>7, <2>9, <3>1, <3>2
  <2>11. ListenersLive'
    <3> SUFFICES ASSUME NEW a \in PodIPs, NEW l \in Kinds, NEW j \in Ids, NEW q \in Tags,
                        net'[l][a] = <<j, q>>
                 PROVE  net'.ipOf[j] = a /\ sandboxes'[j][q] = "listening" /\ Kind(j, q)' = l
      BY DEF ListenersLive
    <3>1. net.ipOf[j] = a /\ sandboxes[j][q] = "listening" /\ Kind(j, q) = l
      BY <2>8 DEF PodsAreSound, ListenersLive
    <3>2. j # i
      BY <2>5, <3>1
    <3> QED BY <2>4, <2>6, <2>7, <3>1, <3>2
  <2>12. ListenersBound'
    <3> SUFFICES ASSUME NEW j \in Ids, NEW q \in Tags, sandboxes'[j][q] = "listening",
                        net'.ipOf[j] # 0
                 PROVE  net'[Kind(j, q)'][net'.ipOf[j]] = <<j, q>>
      BY DEF ListenersBound
    <3>1. j # i /\ Kind(j, q) \in Kinds
      BY <2>5 DEF Kind, Kinds
    <3>2. net[Kind(j, q)][net.ipOf[j]] = <<j, q>>
      BY <2>4, <2>7, <3>1 DEF PodsAreSound, ListenersBound
    <3> QED BY <2>6, <2>7, <2>8, <3>1, <3>2
  <2>13. ConfigsKept'
    <3>0. ip # 0
      BY <2>1 DEF PodIPs, Addressed
    <3>1. {j \in Ids : net'.ipOf[j] # 0} = {j \in Ids : net.ipOf[j] # 0} \cup {i}
      BY <2>7, <3>0
    <3>2. i \notin {j \in Ids : net.ipOf[j] # 0}
      BY <1>1
    <3>3. {sandboxes'[j].uid : j \in {l \in Ids : net'.ipOf[l] # 0}}
            = {sandboxes[j].uid : j \in {l \in Ids : net.ipOf[l] # 0}} \cup {uid}
      BY <2>4, <3>1, <3>2
    <3> QED BY <2>7, <3>3 DEF PodsAreSound, ConfigsKept
  <2>14. RegisteredReady' /\ UnreadyIdle' /\ RunHasAddress'
    BY <2>1, <2>4, <2>7 DEF PodsAreSound, RegisteredReady, UnreadyIdle, RunHasAddress
  <2>15. NobodyReturns
    BY <1>1, <2>4, <2>7 DEF NobodyReturns
  <2>16. TurnsIn(net) => TurnsIn(net')
    BY <2>7 DEF TurnsIn, HasTarget
  <2> QED
    BY <2>4, <2>7, <2>10, <2>11, <2>12, <2>13, <2>14, <2>15, <2>16 DEF PodsMove, PodsAreSound
<1> QED BY <1>3, <1>4 DEF RunSandbox

LEMMA TablesMove ==
  ASSUME NetworkTyped, PodsAreSound, Kept(net, net'), sandboxes' = sandboxes
  PROVE  PodsMove
<1>1. \A l \in Kinds : net'[l] = net[l]
  BY DEF Kept, SamePods, Kinds
<1>2. \A j \in Ids, q \in Tags : Kind(j, q)' = Kind(j, q) /\ Kind(j, q) \in Kinds
  BY DEF Kind, Kinds
<1>3. ListenersLive'
  <2> SUFFICES ASSUME NEW a \in PodIPs, NEW l \in Kinds, NEW j \in Ids, NEW q \in Tags,
                      net'[l][a] = <<j, q>>
               PROVE  net'.ipOf[j] = a /\ sandboxes'[j][q] = "listening" /\ Kind(j, q)' = l
    BY DEF ListenersLive
  <2> QED BY <1>1, <1>2 DEF PodsAreSound, ListenersLive, Kept, SamePods
<1>4. ListenersBound'
  <2> SUFFICES ASSUME NEW j \in Ids, NEW q \in Tags, sandboxes'[j][q] = "listening",
                      net'.ipOf[j] # 0
               PROVE  net'[Kind(j, q)'][net'.ipOf[j]] = <<j, q>>
    BY DEF ListenersBound
  <2> QED BY <1>1, <1>2 DEF PodsAreSound, ListenersBound, Kept, SamePods
<1>5. /\ AddressesAgree' /\ ConfigsKept' /\ RegisteredReady' /\ UnreadyIdle' /\ RunHasAddress'
      /\ NobodyReturns
  BY DEF PodsAreSound, AddressesAgree, ConfigsKept, RegisteredReady, UnreadyIdle, RunHasAddress,
         NobodyReturns, Kept, SamePods
<1> QED BY <1>3, <1>4, <1>5 DEF PodsMove, PodsAreSound, Kept, NetworkTyped

----
\* Whom a request is for, once it is under way: the sandbox that had its
\* address when it was routed, and has it still or is gone for good.
Owned(q, n, boxes) ==
  /\ q.pc = "resolving" => q.by = NoProc
  /\ q.pc = "sent" =>
       /\ q.by = NoProc /\ q.owner \in Ids /\ q.to \in PodIPs
       /\ boxes[q.owner].state # "none" /\ n.ipOf[q.owner] \in {0, q.to}
  /\ q.by # NoProc =>
       /\ q.owner \in Ids /\ boxes[q.owner].state # "none"
       /\ q.by[1] = q.owner \/ n.ipOf[q.owner] = 0
RequestsOwned == \A r \in DOMAIN fetches : Owned(fetches[r], net, sandboxes)

NetworkInv == NetworkTyped /\ PodsAreSound /\ RequestsOwned /\ TurnsIn(net)

LEMMA OwnedStays ==
  ASSUME NobodyReturns, NEW q, Owned(q, net, sandboxes)
  PROVE  Owned(q, net', sandboxes')
<1>1. \A i \in Ids : sandboxes[i].state # "none" =>
        sandboxes'[i].state # "none" /\ net'.ipOf[i] \in {0, net.ipOf[i]}
  BY DEF NobodyReturns
<1> QED BY <1>1 DEF Owned

LEMMA PodsMoved ==
  ASSUME NetworkInv, PodsMove, fetches' = fetches
  PROVE  NetworkInv'
<1>1. \A r \in DOMAIN fetches : Owned(fetches[r], net', sandboxes')
  BY OwnedStays DEF NetworkInv, RequestsOwned, PodsMove
<1>2. RequestsOwned'
  BY <1>1 DEF RequestsOwned
<1>3. NetworkTyped'
  BY DEF NetworkInv, NetworkTyped, PodsMove
<1>4. TurnsIn(net)'
  BY DEF PodsMove, NetworkInv, TurnsIn, HasTarget
<1> QED BY <1>2, <1>3, <1>4 DEF NetworkInv, PodsMove

\* A step of one request, with a turn taken at most.
Asked(r, q) == fetches' = [fetches EXCEPT ![r] = q]

LEMMA RequestMoved ==
  ASSUME NetworkInv, Kept(net, net'), sandboxes' = sandboxes, NEW r \in DOMAIN fetches,
         NEW q \in RequestTypes, Owned(q, net, sandboxes), Asked(r, q)
  PROVE  NetworkInv'
<1>1. PodsMove
  BY TablesMove DEF NetworkInv
<1>2. \A s \in DOMAIN fetches : Owned(fetches[s], net', sandboxes')
  BY <1>1, OwnedStays DEF NetworkInv, RequestsOwned, PodsMove
<1>3. Owned(q, net', sandboxes')
  BY <1>1, OwnedStays DEF PodsMove
<1>4. /\ DOMAIN fetches' = DOMAIN fetches /\ fetches' \in Seq(RequestTypes)
      /\ \A s \in DOMAIN fetches : fetches'[s] = IF s = r THEN q ELSE fetches[s]
  BY DEF NetworkInv, NetworkTyped, Asked
<1>5. RequestsOwned'
  BY <1>2, <1>3, <1>4 DEF RequestsOwned
<1>6. NetworkTyped'
  BY <1>1, <1>4 DEF NetworkTyped, PodsMove
<1>7. TurnsIn(net)'
  BY <1>1 DEF PodsMove, NetworkInv, TurnsIn, HasTarget
<1> QED BY <1>1, <1>5, <1>6, <1>7 DEF NetworkInv, PodsMove

Started(q) == fetches' = Append(fetches, q)

LEMMA RequestStarted ==
  ASSUME NetworkInv, Kept(net, net'), sandboxes' = sandboxes,
         NEW q \in RequestTypes, Owned(q, net, sandboxes), Started(q)
  PROVE  NetworkInv'
<1>1. PodsMove
  BY TablesMove DEF NetworkInv
<1>2. \A s \in DOMAIN fetches : Owned(fetches[s], net', sandboxes')
  BY <1>1, OwnedStays DEF NetworkInv, RequestsOwned, PodsMove
<1>3. Owned(q, net', sandboxes')
  BY <1>1, OwnedStays DEF PodsMove
<1>4. /\ fetches' \in Seq(RequestTypes)
      /\ \A s \in DOMAIN fetches' : \/ s \in DOMAIN fetches /\ fetches'[s] = fetches[s]
                                    \/ fetches'[s] = q
  BY DEF NetworkInv, NetworkTyped, Started
<1>5. RequestsOwned'
  BY <1>2, <1>3, <1>4 DEF RequestsOwned
<1>6. NetworkTyped'
  BY <1>1, <1>4 DEF NetworkTyped, PodsMove
<1>7. TurnsIn(net)'
  BY <1>1 DEF PodsMove, NetworkInv, TurnsIn, HasTarget
<1> QED BY <1>1, <1>5, <1>6, <1>7 DEF NetworkInv, PodsMove

\* Where a request goes, somebody listens, and he owns the address.
LEMMA BoundOwned ==
  ASSUME Addressed, NetworkTyped, PodsAreSound, NEW to, Bound(net, "http", to)
  PROVE  /\ to \in PodIPs /\ net.http[to] \in Procs
         /\ net.http[to][1] \in Ids /\ net.ipOf[net.http[to][1]] = to
         /\ net.podsByIp[to] = net.http[to][1]
         /\ sandboxes[net.http[to][1]].state # "none"
<1>1. to \in PodIPs /\ net.http[to] # NoProc /\ net["http"][to] = net.http[to]
  BY DEF Bound
<1>2. net.http[to] \in Procs
  BY <1>1 DEF NetworkTyped, NetTypes, Listeners
<1>3. PICK i \in Ids, p \in Tags : net.http[to] = <<i, p>>
  BY <1>2 DEF Procs, Tags
<1>4. net.ipOf[i] = to
  BY <1>1, <1>3 DEF PodsAreSound, ListenersLive, Kinds
<1>5. net.podsByIp[to] = i
  BY <1>1, <1>4 DEF PodsAreSound, AddressesAgree
<1>6. sandboxes[i].state # "none"
  BY <1>1, <1>4 DEF PodsAreSound, RegisteredReady, PodIPs, Addressed
<1> QED BY <1>1, <1>2, <1>3, <1>4, <1>5, <1>6

LEMMA Dispatched ==
  ASSUME Addressed, NetworkInv, NEW req \in RequestTypes, req.by = NoProc, NEW ip \in Int
  PROVE  LET w == Dispatches(net, req, ip)
         IN  Kept(net, w.net) /\ w.req \in RequestTypes /\ Owned(w.req, net, sandboxes)
<1> DEFINE route == Route(net, ip, req.host.port)
           to    == route.to
           pc    == IF Bound(net, "http", to) THEN "sent" ELSE "refused"
           owner == IF to \in PodIPs THEN net.podsByIp[to] ELSE 0
           q     == [req EXCEPT !.pc = pc, !.to = to, !.owner = owner]
<1>1. Kept(net, route.net) /\ to \in Int
  BY Routes DEF NetworkInv, NetworkTyped
<1>2. Dispatches(net, req, ip) = [net |-> route.net, req |-> q]
  BY DEF Dispatches
<1> HIDE DEF route
<1>3. owner \in 0 .. MaxSandboxes
  BY DEF NetworkInv, NetworkTyped, NetTypes, Addressed
<1>4. pc \in {"sent", "refused"}
  OBVIOUS
<1>5. pc = "sent" => /\ to \in PodIPs /\ owner \in Ids /\ sandboxes[owner].state # "none"
                     /\ net.ipOf[owner] = to
  BY BoundOwned DEF NetworkInv
<1> HIDE DEF pc, owner, to
<1>6. q \in RequestTypes /\ q.pc = pc /\ q.to = to /\ q.owner = owner /\ q.by = NoProc
  BY <1>1, <1>3, <1>4 DEF RequestTypes
<1> HIDE DEF q
<1>7. Owned(q, net, sandboxes)
  BY <1>4, <1>5, <1>6 DEF Owned
<1> QED BY <1>1, <1>2, <1>6, <1>7

LEMMA AskedDns ==
  ASSUME Addressed, NetworkInv, NEW req \in RequestTypes, req.by = NoProc,
         NEW lookups \in Seq({"searched", "bare"}), lookups # <<>>, NEW known \in ClusterIPs \cup {0}
  PROVE  LET w == Asks(net, req, lookups, known)
         IN  Kept(net, w.net) /\ w.req \in RequestTypes /\ Owned(w.req, net, sandboxes)
<1> DEFINE route  == Route(net, DnsIP, 53)
           pc     == IF Bound(net, "dns", route.to) THEN "resolving" ELSE "refused"
           answer == IF Head(lookups) = "searched" THEN known ELSE 0
           q      == [req EXCEPT !.pc = pc, !.answer = answer, !.lookups = Tail(lookups)]
<1>1. Kept(net, route.net)
  BY Routes DEF NetworkInv, NetworkTyped, Addressed
<1>2. Asks(net, req, lookups, known) = [net |-> route.net, req |-> q]
  BY DEF Asks
<1> HIDE DEF route
<1>3. answer \in ClusterIPs \cup {0} /\ Tail(lookups) \in Seq({"searched", "bare"})
  OBVIOUS
<1>4. pc \in {"resolving", "refused"}
  OBVIOUS
<1> HIDE DEF pc, answer
<1>6. q \in RequestTypes /\ q.pc = pc /\ q.by = NoProc
  BY <1>1, <1>3, <1>4 DEF RequestTypes
<1> HIDE DEF q
<1>7. Owned(q, net, sandboxes)
  BY <1>4, <1>6 DEF Owned
<1> QED BY <1>1, <1>2, <1>6, <1>7

LEMMA FetchMoves ==
  ASSUME Addressed, NetworkInv, NEW uid \in NetworkPods, NEW host \in Hosts,
         NEW known \in ClusterIPs \cup {0}, Fetch(uid, host, known)
  PROVE  NetworkInv'
<1> DEFINE req == [pc |-> "new", origin |-> uid, host |-> host, lookups |-> <<>>, answer |-> 0,
                   to |-> Nowhere, owner |-> 0, by |-> NoProc]
           Leads(w) == net' = w.net /\ sandboxes' = sandboxes /\ Started(w.req)
<1>1. req \in RequestTypes /\ req.by = NoProc
  BY DEF RequestTypes, Listeners, Nowhere, Addressed
<1>2. \/ \E ip \in Int : Leads(Dispatches(net, req, ip))
      \/ Leads(Asks(net, req, Lookups(uid), known))
  <2>1. CASE host.kind = "ip"
    <3>1. Leads(Dispatches(net, req, host.ip))
      BY <2>1 DEF Fetch, Started
    <3> QED BY <3>1 DEF Addressed
  <2>2. CASE host.kind = "localhost"
    <3>1. PICK ip \in OriginIPs(uid) : Leads(Dispatches(net, req, ip))
      BY <2>2 DEF Fetch, Started
    <3>2. ip \in Int
      BY DEF OriginIPs, NetworkInv, NetworkTyped, NetTypes
    <3> QED BY <3>1, <3>2
  <2>3. CASE host.kind = "alias"
    <3>1. PICK ip \in net.ipsByAlias[host.alias] : Leads(Dispatches(net, req, ip))
      BY <2>3 DEF Fetch, Started
    <3>2. ip \in Int
      BY <2>3 DEF Addressed, NetworkInv, NetworkTyped, NetTypes
    <3> QED BY <3>1, <3>2
  <2>4. CASE host.kind = "name"
    BY <2>4 DEF Fetch, Started
  <2> QED BY <2>1, <2>2, <2>3, <2>4 DEF Fetch
<1>3. Lookups(uid) \in Seq({"searched", "bare"}) /\ Lookups(uid) # <<>>
  <2> DEFINE S == {"searched", "bare"}
  <2>1. "searched" \in S /\ "bare" \in S
    OBVIOUS
  <2> HIDE DEF S
  <2>2. <<"searched", "bare">> \in Seq(S) /\ <<"bare">> \in Seq(S)
    BY <2>1
  <2>3. Len(<<"searched", "bare">>) = 2 /\ Len(<<"bare">>) = 1 /\ Len(<<>>) = 0
    OBVIOUS
  <2>4. Lookups(uid) \in {<<"searched", "bare">>, <<"bare">>}
    BY DEF Lookups
  <2>5. Lookups(uid) \in Seq(S)
    BY <2>2, <2>4
  <2>6. Lookups(uid) # <<>>
    BY <2>3, <2>4
  <2> QED BY <2>5, <2>6 DEF S
<1> HIDE DEF req
<1>4. ASSUME NEW ip \in Int, Leads(Dispatches(net, req, ip)) PROVE NetworkInv'
  <2> DEFINE w == Dispatches(net, req, ip)
  <2>1. Kept(net, w.net) /\ w.req \in RequestTypes /\ Owned(w.req, net, sandboxes)
    BY <1>1, Dispatched
  <2> HIDE DEF w
  <2>2. net' = w.net /\ sandboxes' = sandboxes /\ Started(w.req)
    BY <1>4 DEF w
  <2> QED BY <2>1, <2>2, RequestStarted
<1>5. ASSUME Leads(Asks(net, req, Lookups(uid), known)) PROVE NetworkInv'
  <2> DEFINE w == Asks(net, req, Lookups(uid), known)
  <2>1. Kept(net, w.net) /\ w.req \in RequestTypes /\ Owned(w.req, net, sandboxes)
    BY <1>1, <1>3, AskedDns
  <2> HIDE DEF w
  <2>2. net' = w.net /\ sandboxes' = sandboxes /\ Started(w.req)
    BY <1>5 DEF w
  <2> QED BY <2>1, <2>2, RequestStarted
<1> QED BY <1>2, <1>4, <1>5

LEMMA ResolvedMoves ==
  ASSUME Addressed, NetworkInv, NEW r \in DOMAIN fetches,
         NEW known \in ClusterIPs \cup {0}, Resumes(r, known)
  PROVE  NetworkInv'
<1> DEFINE req == fetches[r]
           Leads(w) == net' = w.net /\ sandboxes' = sandboxes /\ Asked(r, w.req)
<1>1. req \in RequestTypes /\ req.by = NoProc /\ req.answer \in Int
      /\ req.lookups \in Seq({"searched", "bare"})
  <2>1. req \in RequestTypes /\ req.pc = "resolving"
    BY DEF NetworkInv, NetworkTyped, Resumes
  <2>2. req.by = NoProc
    BY <2>1 DEF NetworkInv, RequestsOwned, Owned
  <2> HIDE DEF req
  <2>3. req.answer \in ClusterIPs \cup {0} /\ req.lookups \in Seq({"searched", "bare"})
    BY <2>1 DEF RequestTypes
  <2>4. req.answer \in Int
    <3>1. ClusterIPs \subseteq Int
      BY DEF Addressed
    <3>2. CASE req.answer = 0
      BY <3>2
    <3>3. CASE req.answer \in ClusterIPs
      BY <3>1, <3>3
    <3> QED BY <2>3, <3>2, <3>3
  <2> QED BY <2>1, <2>2, <2>3, <2>4
<1>2. \/ Leads(Dispatches(net, req, req.answer))
      \/ req.lookups # <<>> /\ Leads(Asks(net, req, req.lookups, known))
      \/ Leads([net |-> net, req |-> [req EXCEPT !.pc = "external"]])
  BY DEF Resumes, Proceeds, Asked
<1> HIDE DEF req
<1>3. ASSUME Leads(Dispatches(net, req, req.answer)) PROVE NetworkInv'
  <2> DEFINE w == Dispatches(net, req, req.answer)
  <2>1. Kept(net, w.net) /\ w.req \in RequestTypes /\ Owned(w.req, net, sandboxes)
    BY <1>1, Dispatched
  <2> HIDE DEF w
  <2>2. net' = w.net /\ sandboxes' = sandboxes /\ Asked(r, w.req)
    BY <1>3 DEF w
  <2> QED BY <2>1, <2>2, RequestMoved
<1>4. ASSUME req.lookups # <<>>, Leads(Asks(net, req, req.lookups, known)) PROVE NetworkInv'
  <2> DEFINE w == Asks(net, req, req.lookups, known)
  <2>1. Kept(net, w.net) /\ w.req \in RequestTypes /\ Owned(w.req, net, sandboxes)
    BY <1>1, <1>4, AskedDns
  <2> HIDE DEF w
  <2>2. net' = w.net /\ sandboxes' = sandboxes /\ Asked(r, w.req)
    BY <1>4 DEF w
  <2> QED BY <2>1, <2>2, RequestMoved
<1>5. ASSUME Leads([net |-> net, req |-> [req EXCEPT !.pc = "external"]]) PROVE NetworkInv'
  <2> DEFINE q == [req EXCEPT !.pc = "external"]
  <2>1. q \in RequestTypes /\ q.pc = "external" /\ q.by = NoProc
    BY <1>1 DEF RequestTypes
  <2>2. net' = net /\ sandboxes' = sandboxes /\ Asked(r, q)
    BY <1>5
  <2> HIDE DEF q
  <2>3. Owned(q, net, sandboxes)
    BY <2>1 DEF Owned
  <2>4. Kept(net, net')
    BY <2>2 DEF Kept, SamePods, NetworkInv, NetworkTyped
  <2> QED BY <2>1, <2>2, <2>3, <2>4, RequestMoved
<1> QED BY <1>2, <1>3, <1>4, <1>5

\* Whoever handles a request is its owner, or its owner is gone.
LEMMA UnderWayMoves ==
  ASSUME Addressed, NetworkInv, NEW r \in DOMAIN fetches,
         Arrives(r) \/ Responds(r) \/ Cancels(r)
  PROVE  NetworkInv'
<1> DEFINE req == fetches[r]
<1>1. req \in RequestTypes /\ Owned(req, net, sandboxes)
  BY DEF NetworkInv, NetworkTyped, RequestsOwned
<1>2. PICK q : /\ net' = net /\ sandboxes' = sandboxes /\ Asked(r, q)
               /\ \/ \E pc \in {"refused", "answered", "canceled"} : q = [req EXCEPT !.pc = pc]
                  \/ /\ req.pc = "sent" /\ Bound(net, "http", req.to)
                     /\ q = [req EXCEPT !.pc = "handling", !.by = net.http[req.to]]
  BY DEF Arrives, Responds, Cancels, Proceeds, Asked
<1> HIDE DEF req
<1>3. q \in RequestTypes /\ Owned(q, net, sandboxes)
  <2>1. ASSUME NEW pc \in {"refused", "answered", "canceled"}, q = [req EXCEPT !.pc = pc]
        PROVE  q \in RequestTypes /\ Owned(q, net, sandboxes)
    <3>1. q \in RequestTypes /\ q.pc = pc /\ q.by = req.by /\ q.owner = req.owner
      BY <1>1, <2>1 DEF RequestTypes
    <3> QED BY <1>1, <3>1 DEF Owned
  <2>2. ASSUME req.pc = "sent", Bound(net, "http", req.to),
               q = [req EXCEPT !.pc = "handling", !.by = net.http[req.to]]
        PROVE  q \in RequestTypes /\ Owned(q, net, sandboxes)
    <3> DEFINE by == net.http[req.to]
    <3>1. by \in Procs /\ by[1] \in Ids /\ net.ipOf[by[1]] = req.to /\ net.podsByIp[req.to] = by[1]
          /\ req.to \in PodIPs
      BY <2>2, BoundOwned DEF NetworkInv
    <3>2. q = [req EXCEPT !.pc = "handling", !.by = by]
      BY <2>2
    <3> HIDE DEF by
    <3>3. q \in RequestTypes /\ q.pc = "handling" /\ q.by = by /\ q.owner = req.owner
      BY <1>1, <3>1, <3>2 DEF RequestTypes, Listeners
    <3>4. req.owner \in Ids /\ sandboxes[req.owner].state # "none"
          /\ net.ipOf[req.owner] \in {0, req.to}
      BY <1>1, <2>2 DEF Owned
    <3>5. by[1] = req.owner \/ net.ipOf[req.owner] = 0
      BY <3>1, <3>4 DEF NetworkInv, PodsAreSound, AddressesAgree
    <3> QED BY <3>3, <3>4, <3>5 DEF Owned
  <2> QED BY <1>2, <2>1, <2>2
<1>4. Kept(net, net')
  BY <1>2 DEF Kept, SamePods, NetworkInv, NetworkTyped
<1> QED BY <1>2, <1>3, <1>4, RequestMoved

----
LEMMA NetworkStarts ==
  ASSUME Addressed, NetworkInit
  PROVE  NetworkInv
<1>1. /\ net.ipOf = [i \in Ids |-> 0] /\ net.podsByIp = [a \in PodIPs |-> 0]
      /\ net.http = [a \in PodIPs |-> NoProc] /\ net.dns = [a \in PodIPs |-> NoProc]
      /\ net.dnsConfigs = {} /\ net.targets = [s \in Names |-> NoTargets]
  BY DEF NetworkInit, EmptyNetwork
<1>2. net \in NetTypes
  <2>1. 0 \in 0 .. LastAddress /\ 0 \in 0 .. MaxSandboxes /\ NoProc \in Listeners
    BY DEF Addressed, Listeners
  <2>2. NoTargets \in [list : Seq(Int), at : Nat]
    BY DEF NoTargets
  <2> QED BY <2>1, <2>2 DEF NetworkInit, EmptyNetwork, NetTypes
<1>3. sandboxes = [i \in Ids |-> NoSandbox] /\ fetches = <<>>
  BY DEF NetworkInit
<1>4. NoSandbox \in SandboxTypes
  BY DEF NoSandbox, SandboxTypes, Addressed
<1>5. NetworkTyped
  BY <1>2, <1>3, <1>4 DEF NetworkTyped
<1>6. AddressesAgree
  BY <1>1 DEF AddressesAgree, Ids, PodIPs, Addressed
<1>7. ListenersLive
  <2>1. \A l \in Kinds, a \in PodIPs : net[l][a] = NoProc
    BY <1>1 DEF Kinds
  <2>2. \A i \in Ids, p \in Tags : <<i, p>> # NoProc
    BY DEF NoProc, Tags
  <2> QED BY <2>1, <2>2 DEF ListenersLive
<1>8. ListenersBound /\ RegisteredReady
  BY <1>1 DEF ListenersBound, RegisteredReady
<1>9. ConfigsKept
  BY <1>1 DEF ConfigsKept
<1>10. UnreadyIdle /\ RunHasAddress
  BY <1>3 DEF UnreadyIdle, RunHasAddress, NoSandbox
<1>11. TurnsIn(net)
  BY <1>1 DEF TurnsIn, HasTarget
<1>12. RequestsOwned
  BY <1>3 DEF RequestsOwned
<1> QED BY <1>5, <1>6, <1>7, <1>8, <1>9, <1>10, <1>11, <1>12 DEF NetworkInv, PodsAreSound

LEMMA NetworkMoves ==
  ASSUME Addressed, NetworkInv, [NetworkNext]_netVars
  PROVE  NetworkInv'
<1>1. CASE PodStep
  <2>1. ASSUME NEW uid \in NetworkPods, NEW i \in Ids, RunSandbox(uid, i) PROVE NetworkInv'
    BY <2>1, RunMoves, PodsMoved DEF NetworkInv, RunSandbox
  <2>2. ASSUME NEW i \in Ids, NEW p \in Tags, Start(i, p) PROVE NetworkInv'
    BY <2>2, StartMoves, PodsMoved DEF NetworkInv, Start
  <2>3. ASSUME NEW i \in Ids, NEW p \in Tags, Listen(i, p) PROVE NetworkInv'
    BY <2>3, ListenMoves, PodsMoved DEF NetworkInv, Listen
  <2>4. ASSUME NEW i \in Ids, NEW p \in Tags, ProcessEnds(i, p) PROVE NetworkInv'
    BY <2>4, EndsMoves, PodsMoved DEF NetworkInv, ProcessEnds
  <2>5. ASSUME NEW i \in Ids, StopSandbox(i) PROVE NetworkInv'
    BY <2>5, StopMoves, PodsMoved DEF NetworkInv, StopSandbox
  <2>6. ASSUME NEW r \in DOMAIN fetches, Arrives(r) \/ Responds(r) \/ Cancels(r)
        PROVE  NetworkInv'
    BY <2>6, UnderWayMoves
  <2>7. \A proc \in Procs : proc[1] \in Ids /\ proc[2] \in Tags
    BY DEF Procs, Tags
  <2> QED BY <1>1, <2>1, <2>2, <2>3, <2>4, <2>5, <2>6, <2>7 DEF PodStep
<1>2. CASE TableStep
  <2>1. net \in NetTypes
    BY DEF NetworkInv, NetworkTyped
  <2>2. Kept(net, net') /\ sandboxes' = sandboxes /\ fetches' = fetches
    BY <1>2, <2>1, UnregistersService, RegistersService, SetsTargets, UnregistersNode, RegistersNode
       DEF TableStep
  <2>3. PodsMove
    BY <2>2, TablesMove DEF NetworkInv
  <2> QED BY <2>2, <2>3, PodsMoved
<1>3. CASE RequestStep
  BY <1>3, FetchMoves, ResolvedMoves DEF RequestStep
<1>4. CASE UNCHANGED netVars
  <2>1. Kept(net, net') /\ sandboxes' = sandboxes /\ fetches' = fetches
    BY <1>4 DEF netVars, Kept, SamePods, NetworkInv, NetworkTyped
  <2>2. PodsMove
    BY <2>1, TablesMove DEF NetworkInv
  <2> QED BY <2>1, <2>2, PodsMoved
<1> QED BY <1>1, <1>2, <1>3, <1>4 DEF NetworkNext

LEMMA InvServes ==
  ASSUME Addressed, NetworkInv
  PROVE  NetworkServes
<1>1. \A a \in PodIPs, k \in {"http", "dns"} : net[k][a] # NoProc =>
         net.ipOf[net[k][a][1]] = a /\ sandboxes[net[k][a][1]][net[k][a][2]] = "listening"
  <2> SUFFICES ASSUME NEW a \in PodIPs, NEW k \in Kinds, net[k][a] # NoProc
               PROVE  net.ipOf[net[k][a][1]] = a /\ sandboxes[net[k][a][1]][net[k][a][2]] = "listening"
    BY DEF Kinds
  <2>1. net[k] \in [PodIPs -> Listeners]
    <3>1. net["http"] \in [PodIPs -> Listeners] /\ net["dns"] \in [PodIPs -> Listeners]
      BY DEF NetworkInv, NetworkTyped, NetTypes
    <3> QED BY <3>1 DEF Kinds
  <2>2. net[k][a] \in Procs
    BY <2>1 DEF Listeners
  <2>3. PICK i \in Ids, p \in Tags : net[k][a] = <<i, p>>
    BY <2>2 DEF Procs, Tags
  <2> QED BY <2>3 DEF NetworkInv, PodsAreSound, ListenersLive
<1>2. \A proc \in Procs :
        sandboxes[proc[1]][proc[2]] = "listening" /\ net.ipOf[proc[1]] # 0
           => ListensAt(proc[1], proc[2], net.ipOf[proc[1]])
  <2> SUFFICES ASSUME NEW i \in Ids, NEW p \in Tags, sandboxes[i][p] = "listening", net.ipOf[i] # 0
               PROVE  ListensAt(i, p, net.ipOf[i])
    BY DEF Procs, Tags
  <2> QED BY DEF NetworkInv, PodsAreSound, ListenersBound, ListensAt
<1>3. NetworkIsSound
  BY <1>1, <1>2 DEF NetworkIsSound, NetworkInv, PodsAreSound, AddressesAgree, ConfigsKept
<1>4. HandledByOwner
  BY DEF HandledByOwner, NetworkInv, RequestsOwned, Owned
<1>5. TurnsStayInList
  BY DEF TurnsStayInList, NetworkInv, TurnsIn
<1> QED BY <1>3, <1>4, <1>5 DEF NetworkServes

\* The network's tables agree with the sandboxes, requests are handled by the
\* sandboxes they were routed to, and turns stay in their lists, whoever keeps
\* the tables (ClusterNetwork, PodSandboxInstance).
THEOREM NetworkSoundness ==
  ASSUME Addressed
  PROVE  NetworkSpec => []NetworkServes
<1> DEFINE Inv == NetworkInv
<1>1. NetworkInit => Inv
  BY NetworkStarts
<1>2. Inv /\ [NetworkNext]_netVars => Inv'
  BY NetworkMoves
<1>3. Inv => NetworkServes
  BY InvServes
<1> HIDE DEF Inv
<1> QED BY <1>1, <1>2, <1>3, PTL DEF NetworkSpec
=============================================================================

------------------------------ MODULE EtcdLock ------------------------------
(***************************************************************************)
(* Etcd.withLock of src/src/cluster/etcd.ts: a lock key with a lease,      *)
(* acquired by a create-if-absent transaction, kept alive by a timer, and  *)
(* waited for with a delete watch.                                         *)
(*                                                                         *)
(* A caller moves through                                                  *)
(*   idle      before the call, or before the next turn of its loop        *)
(*   opening   its delete watch is registered and not yet connected        *)
(*   select    waiting for a delete, its deadline or its context           *)
(*   inside    running the body it was called with                         *)
(*   ended     returned or thrown                                          *)
(* Between two of these the code awaits, and other callers run.            *)
(***************************************************************************)
EXTENDS Naturals, FiniteSets

CONSTANTS
  Clients, \* concurrent calls of withLock on one key
  Nobody,  \* the value of the lock key when it does not exist
  TTL      \* the lease's time to live, in ticks

\* acquireLock refuses less than a second, and the keep-alive beats at a third.
ASSUME LockAssumption == TTL \in Nat /\ TTL >= 3 /\ Nobody \notin Clients

\* FakeLease's keep-alive interval: a third of the TTL.
Interval == TTL \div 3

VARIABLES
  holder,    \* whose acquire put the lock key, Nobody if it does not exist
  pc,        \* where each call is
  listening, \* calls whose delete handler is attached
  deleted,   \* calls whose delete channel holds an event
  late,      \* calls whose deadline has passed
  canceled,  \* calls whose context was canceled
  leases,    \* FakeState.leases: calls whose lease is alive
  age,       \* ticks since each lease's expiry timer was set
  beat       \* ticks since each lease's keep-alive last fired

lockVars == <<holder, pc, listening, deleted, late, canceled, leases, age, beat>>

LockTypeOK ==
  /\ holder \in Clients \cup {Nobody}
  /\ pc \in [Clients -> {"idle", "opening", "select", "inside", "ended"}]
  /\ listening \subseteq Clients
  /\ deleted \subseteq Clients
  /\ late \subseteq Clients
  /\ canceled \subseteq Clients
  /\ leases \subseteq Clients
  /\ age \in [Clients -> 0..TTL]
  /\ beat \in [Clients -> 0..Interval]

LockInit ==
  /\ holder = Nobody
  /\ pc = [c \in Clients |-> "idle"]
  /\ listening = {} /\ deleted = {} /\ late = {} /\ canceled = {} /\ leases = {}
  /\ age = [c \in Clients |-> 0]
  /\ beat = [c \in Clients |-> 0]

-----------------------------------------------------------------------------
(* Acquiring.                                                              *)

\* Mutant: the transaction does not compare the create revision.
acquireAlways(c) ==
  /\ holder' = c
  /\ leases' = leases \cup {c}
  /\ age' = [age EXCEPT ![c] = 0]
  /\ beat' = [beat EXCEPT ![c] = 0]

\* acquireLock: put the key if it does not exist, and start a lease for it.
acquireLock(c) ==
  /\ holder = Nobody
  /\ holder' = c
  /\ leases' = leases \cup {c}
  /\ age' = [age EXCEPT ![c] = 0]
  /\ beat' = [beat EXCEPT ![c] = 0]

\* A turn of the loop in withLock that finds the key absent.
Acquire(c) ==
  /\ pc[c] = "idle" /\ c \notin canceled
  /\ acquireLock(c)
  /\ pc' = [pc EXCEPT ![c] = "inside"]
  /\ UNCHANGED <<listening, deleted, late, canceled>>

\* A turn that finds it held, with time left: open a delete watch.
OpenWatch(c) ==
  /\ pc[c] = "idle" /\ c \notin canceled /\ c \notin late
  /\ holder # Nobody
  /\ pc' = [pc EXCEPT ![c] = "opening"]
  /\ UNCHANGED <<holder, listening, deleted, late, canceled, leases, age, beat>>

\* A turn that finds the context canceled, or the key held and no time left.
GiveUp(c) ==
  /\ pc[c] = "idle"
  /\ c \in canceled \/ (holder # Nobody /\ c \in late)
  /\ pc' = [pc EXCEPT ![c] = "ended"]
  /\ UNCHANGED <<holder, listening, deleted, late, canceled, leases, age, beat>>

\* The watch is connected: attach the delete handler and, in the same step,
\* try again; a deletion before this point was not seen.
RetryAcquires(c) ==
  /\ pc[c] = "opening"
  /\ acquireLock(c)
  /\ pc' = [pc EXCEPT ![c] = "inside"]
  /\ UNCHANGED <<listening, deleted, late, canceled>>

RetryWaits(c) ==
  /\ pc[c] = "opening"
  /\ holder # Nobody
  /\ listening' = listening \cup {c}
  /\ pc' = [pc EXCEPT ![c] = "select"]
  /\ UNCHANGED <<holder, deleted, late, canceled, leases, age, beat>>

\* The select returns: on a delete or the deadline the loop turns again, on
\* the context's end the call throws.  The handler is detached.
SelectReturns(c) ==
  /\ pc[c] = "select"
  /\ c \in deleted \cup late \cup canceled
  /\ \/ c \in deleted \cup late /\ pc' = [pc EXCEPT ![c] = "idle"]
     \/ c \in canceled /\ pc' = [pc EXCEPT ![c] = "ended"]
  /\ listening' = listening \ {c}
  /\ deleted' = deleted \ {c}
  /\ UNCHANGED <<holder, late, canceled, leases, age, beat>>

-----------------------------------------------------------------------------
(* Releasing.                                                              *)

\* revokeLease: the lease's timers stop, the key is deleted if it exists, and
\* the deletion reaches every attached handler.
revokeLease(c) ==
  /\ c \in leases
  /\ leases' = leases \ {c}
  /\ holder' = Nobody
  /\ deleted' = IF holder = Nobody THEN deleted ELSE deleted \cup listening
  /\ UNCHANGED <<age, beat>>

\* The handler of a woken call is detached two microtasks after the event,
\* before any other call can get in and out of its body (at least five); a
\* second event would find its channel closed.
NobodyJustWoken == deleted = {}

\* The body has returned or thrown: runWithEtcdLock releases the lock, which
\* revokes the lease if it has not expired.
Leave(c) ==
  /\ pc[c] = "inside"
  /\ NobodyJustWoken
  /\ IF c \in leases THEN revokeLease(c) ELSE UNCHANGED <<leases, holder, deleted, age, beat>>
  /\ pc' = [pc EXCEPT ![c] = "ended"]
  /\ UNCHANGED <<listening, late, canceled>>

\* Mutant: the keep-alive does not set the expiry timer anew.
refreshNothing(c) ==
  /\ beat' = [beat EXCEPT ![c] = 0]
  /\ UNCHANGED <<holder, deleted, leases, age>>

\* The keep-alive: refreshLease replaces the expiry timer.
refreshLease(c) ==
  /\ beat' = [beat EXCEPT ![c] = 0]
  /\ age' = [age EXCEPT ![c] = 0]
  /\ UNCHANGED <<holder, deleted, leases>>

\* The first timer of a lease that is due fires: its keep-alive, or else its
\* expiry, which revokes it.
TimerFires(c) ==
  /\ c \in leases
  /\ IF beat[c] = Interval
     THEN refreshLease(c)
     ELSE age[c] = TTL /\ NobodyJustWoken /\ revokeLease(c)
  /\ UNCHANGED <<pc, listening, late, canceled>>

-----------------------------------------------------------------------------
(* The environment.                                                        *)

\* Time passes once every timer that is due has fired.
Tick ==
  /\ leases # {}
  /\ \A c \in leases : age[c] < TTL /\ beat[c] < Interval
  /\ age' = [c \in Clients |-> IF c \in leases THEN age[c] + 1 ELSE age[c]]
  /\ beat' = [c \in Clients |-> IF c \in leases THEN beat[c] + 1 ELSE beat[c]]
  /\ UNCHANGED <<holder, pc, listening, deleted, late, canceled, leases>>

\* The deadline of a waiting call passes.
Deadline(c) ==
  /\ pc[c] \in {"idle", "opening", "select"} /\ c \notin late
  /\ late' = late \cup {c}
  /\ UNCHANGED <<holder, pc, listening, deleted, canceled, leases, age, beat>>

\* The context of a call is canceled.
Cancel(c) ==
  /\ pc[c] # "ended" /\ c \notin canceled
  /\ canceled' = canceled \cup {c}
  /\ UNCHANGED <<holder, pc, listening, deleted, late, leases, age, beat>>

\* What a call does by itself, but for its body.
Proceeds(c) ==
  \/ Acquire(c) \/ OpenWatch(c) \/ GiveUp(c)
  \/ RetryAcquires(c) \/ RetryWaits(c) \/ SelectReturns(c)

Timers == \E c \in Clients : TimerFires(c)

LockNext ==
  \/ \E c \in Clients : Proceeds(c) \/ Leave(c) \/ Deadline(c) \/ Cancel(c)
  \/ Timers
  \/ Tick

\* Continuations run and bodies end; no deadline has to pass for it.
LockFairness == \A c \in Clients : WF_lockVars(Proceeds(c) \/ Leave(c))

LockSpec == LockInit /\ [][LockNext]_lockVars /\ LockFairness

-----------------------------------------------------------------------------
(* Properties.                                                             *)

\* One body runs at a time, and the key is in the store for as long as it
\* does: neither a delete nor an expired lease lets a second caller in.
MutualExclusion ==
  \A c \in Clients : pc[c] = "inside" => holder = c /\ c \in leases

\* A lock key never outlives its lease.
KeyHasLease == holder # Nobody => holder \in leases

\* No wakeup is lost between the failed attempt and the watch: a call only
\* waits while the key exists or an event lies in its channel.
WaitingIsForSomeone ==
  \A c \in Clients : pc[c] = "select" => holder # Nobody \/ c \in deleted

\* The lock is handed on: without any deadline every call gets its turn.
EveryCallEnds == \A c \in Clients : <>(pc[c] = "ended")

\* What the key, its lease and the calls promise together.
LockIsSound == LockTypeOK /\ MutualExclusion /\ KeyHasLease /\ WaitingIsForSomeone
=============================================================================

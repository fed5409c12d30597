------------------------------- MODULE MCSync -------------------------------
(***************************************************************************)
(* The concurrency primitives, each on a small instance of its own: a      *)
(* behaviour picks one of them and runs it while the others rest, so one   *)
(* run explores them all.                                                  *)
(*                                                                         *)
(*  - queue: two workers, a shutdown and two drains on a queue of two items *)
(*  - rwmutex: four threads that read and write                            *)
(*  - channel: three callers, an unbuffered and a buffered channel          *)
(*  - lock: three calls of withLock on one etcd key                        *)
(*  - delaying: a delaying queue with a heap of three items                *)
(*  - contexts: three contexts and one deadline on a clock that is         *)
(*    controlled once                                                      *)
(*  - timers: a Timer, a Ticker and waits on a clock that is controlled    *)
(*    twice                                                                *)
(***************************************************************************)
EXTENDS Workqueue, RWMutex, EtcdLock, Channel, Clock, TLC

CONSTANTS unbuffered, buffered

VARIABLES
  part,                                                       \* what runs
  wanted, busy, closed, now, adding, waiting, known, loop, stopCh, failures, requeuing,
  adds, promised                                              \* DelayingQueue

MCCapacity == (unbuffered :> 0) @@ (buffered :> 1)

Dq == INSTANCE DelayingQueue WITH
        Items <- {"i1", "i2", "i3"}, MaxTime <- 2, MaxAdds <- 3, RoomForAdd <- 1,
        BaseDelay <- 1, MaxDelay <- 2

delayingVars == <<wanted, busy, closed, now, adding, waiting, known, loop, stopCh, failures,
                  requeuing, adds, promised>>
syncVars     == <<part, vars, rwVars, channelVars, lockVars, delayingVars, clockVars>>

\* An instance that doesn't run has no state worth keeping; all but the
\* delaying queue rest in their one initial state.
Resting == "rests"
SyncInit ==
  /\ part \in {"queue", "rwmutex", "channel", "lock", "delaying", "contexts", "timers"}
  /\ Init /\ RWInit /\ LockInit /\ ChannelInit /\ ClockInit
  /\ \/ part = "delaying" /\ Dq!DelayInit
     \/ /\ part # "delaying" /\ wanted = Resting /\ busy = Resting /\ closed = Resting
        /\ now = Resting /\ adding = Resting /\ waiting = Resting /\ known = Resting
        /\ loop = Resting /\ stopCh = Resting /\ failures = Resting /\ requeuing = Resting
        /\ adds = Resting /\ promised = Resting

\* The contexts run with one task, one control and no Timer, and the Timer and
\* the Ticker run without contexts.
ClockParts ==
  /\ ClockNext
  /\ \/ part = "contexts" /\ handles' <= 1 /\ controls' <= 1
                             /\ timer' = timer /\ ticker' = ticker
     \/ part = "timers"   /\ contexts' = contexts

SyncNext ==
  /\ UNCHANGED part
  /\ \/ part = "queue"    /\ Next         /\ UNCHANGED <<rwVars, channelVars, lockVars, delayingVars, clockVars>>
     \/ part = "rwmutex"  /\ RWNext       /\ UNCHANGED <<vars, channelVars, lockVars, delayingVars, clockVars>>
     \/ part = "channel"  /\ ChannelNext  /\ UNCHANGED <<vars, rwVars, lockVars, delayingVars, clockVars>>
     \/ part = "lock"     /\ LockNext     /\ UNCHANGED <<vars, rwVars, channelVars, delayingVars, clockVars>>
     \/ part = "delaying" /\ Dq!DelayNext /\ UNCHANGED <<vars, rwVars, channelVars, lockVars, clockVars>>
     \/ ClockParts        /\ UNCHANGED <<vars, rwVars, channelVars, lockVars, delayingVars>>

SyncSpec == SyncInit /\ [][SyncNext]_syncVars

-----------------------------------------------------------------------------
(* Properties: those of the modules this one extends, and these.           *)

\* DelayingQueue: after each step no delayed item is lost or late, and the heap
\* is a heap.  Clock: time goes on as it should, and steps run their tasks in
\* order; a cancelled context stays so, and hands its reason down.
DelaysGoRight ==
  [][/\ part = "delaying" => Dq!DelayingIsSound'
     /\ TimeGoesRight /\ CancelStays]_<<delayingVars, clockVars>>
=============================================================================

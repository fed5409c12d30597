-------------------------------- MODULE Fifo --------------------------------
(***************************************************************************)
(* client-go's FIFO (tools/cache/fifo.ts): a queue of keys beside a map of *)
(* items, under a mutex and a condition variable.  A producer adds,        *)
(* deletes and replaces; consumers pop, and handle what they popped while  *)
(* they hold the lock.                                                     *)
(*                                                                         *)
(* Every section between two awaits under the lock is one step, which is   *)
(* taken while nobody handles an item.  An item is its key: what add puts  *)
(* in its place is another version of it.  Left out: keys that cannot be   *)
(* computed, for which nothing changes, and handlers that throw.           *)
(***************************************************************************)
EXTENDS Integers, Sequences, FiniteSets

CONSTANTS
    FifoKeys,  \* keys of items
    Poppers,   \* consumers, one call of pop at a time each
    Batches,   \* the lists replace is given, as sequences of keys
    MaxQueued  \* bound: length of the queue

ASSUME FifoAssumption == Batches \subseteq Seq(FifoKeys)

VARIABLES
    held,       \* the keys of FIFO.items
    queue,
    populated,
    initialPopulationCount,
    synced,     \* FIFO.synced is closed
    closed,
    pops,       \* each consumer's call, the item it handles, what it was told
    firstBatch, \* what the first replace put in and nobody has handled (history)
    batches     \* how often the queue was replaced, up to 2 (history)

fifoVars == <<held, queue, populated, initialPopulationCount, synced, closed, pops, firstBatch,
              batches>>

PopType == [pc : {"idle", "waiting", "woken", "busy"}, key : FifoKeys \cup {""},
            counted : BOOLEAN, initial : BOOLEAN]
NoPop == [pc |-> "idle", key |-> "", counted |-> FALSE, initial |-> FALSE]

FifoInit ==
    /\ held = {} /\ queue = <<>> /\ firstBatch = {} /\ batches = 0
    /\ populated = FALSE /\ initialPopulationCount = 0 /\ synced = FALSE /\ closed = FALSE
    /\ pops = [p \in Poppers |-> NoPop]

KeysOf(seq) == {seq[i] : i \in 1 .. Len(seq)}
Busy(p) == pops[p].pc = "busy"
LockIsFree == \A p \in Poppers : ~Busy(p)

\* checkSynced
CheckSynced(isPopulated, count) == synced \/ (isPopulated /\ count = 0)

\* cond.broadcast
\* Mutant: cond.signal, which wakes only one.
SignalOne ==
    pops' = [p \in Poppers |->
               IF pops[p].pc = "waiting" /\ p = (CHOOSE q \in Poppers : pops[q].pc = "waiting")
               THEN [pops[p] EXCEPT !.pc = "woken"] ELSE pops[p]]
Broadcast ==
    pops' = [p \in Poppers |->
               IF pops[p].pc = "waiting" THEN [pops[p] EXCEPT !.pc = "woken"] ELSE pops[p]]

-----------------------------------------------------------------------------
\* add, update
FifoAdd(k) ==
    /\ LockIsFree /\ Len(queue) < MaxQueued
    /\ populated' = TRUE /\ synced' = CheckSynced(TRUE, initialPopulationCount)
    /\ held' = held \cup {k}
    /\ queue' = IF k \in held THEN queue ELSE Append(queue, k)
    /\ Broadcast
    /\ UNCHANGED <<initialPopulationCount, closed, firstBatch, batches>>

\* delete leaves the key in the queue
FifoDelete(k) ==
    /\ LockIsFree
    /\ populated' = TRUE /\ synced' = CheckSynced(TRUE, initialPopulationCount)
    /\ held' = held \ {k} /\ firstBatch' = firstBatch \ {k}
    /\ UNCHANGED <<queue, initialPopulationCount, closed, pops, batches>>

FifoReplace(list) ==
    /\ LockIsFree
    /\ IF populated
       THEN firstBatch' = {} /\ UNCHANGED <<populated, initialPopulationCount, synced>>
       ELSE /\ populated' = TRUE /\ initialPopulationCount' = Len(list)
            /\ synced' = CheckSynced(TRUE, Len(list)) /\ firstBatch' = KeysOf(list)
    /\ held' = KeysOf(list) /\ queue' = list
    /\ IF list # <<>> THEN Broadcast ELSE UNCHANGED pops
    /\ batches' = IF batches < 2 THEN batches + 1 ELSE batches
    /\ UNCHANGED closed

\* resync queues, in some order, the keys of items that are not queued
FifoResync ==
    /\ LockIsFree
    /\ \E missing \in Batches \cup {<<>>} :
         /\ KeysOf(missing) = held \ KeysOf(queue)
         /\ queue' = queue \o missing
    /\ IF queue' # <<>> THEN Broadcast ELSE UNCHANGED pops
    /\ UNCHANGED <<held, populated, initialPopulationCount, synced, closed, firstBatch, batches>>

FifoClose ==
    /\ LockIsFree /\ ~closed
    /\ closed' = TRUE /\ Broadcast
    /\ UNCHANGED <<held, queue, populated, initialPopulationCount, synced, firstBatch, batches>>

-----------------------------------------------------------------------------
(* pop: shifts keys off the queue up to the first that has an item.  Each  *)
(* key counts as long as the first batch does.                             *)

AtLeast0(n) == IF n > 0 THEN n ELSE 0

\* The loop with n keys shifted that have no item.
Skips(n) ==
    synced' = (synced \/ (initialPopulationCount > 0 /\ initialPopulationCount <= n))

\* pop starts, or goes on when its wait has ended.
Pop(p) ==
    /\ LockIsFree /\ pops[p].pc \in {"idle", "woken"}
    /\ \/ /\ \A i \in 1 .. Len(queue) : queue[i] \notin held
          /\ Skips(Len(queue)) /\ queue' = <<>>
          /\ initialPopulationCount' = AtLeast0(initialPopulationCount - Len(queue))
          /\ pops' = [pops EXCEPT ![p] = IF closed THEN NoPop ELSE [NoPop EXCEPT !.pc = "waiting"]]
          /\ UNCHANGED held
       \/ \E i \in 1 .. Len(queue) :
          /\ queue[i] \in held /\ \A j \in 1 .. i - 1 : queue[j] \notin held
          /\ Skips(i - 1) /\ queue' = SubSeq(queue, i + 1, Len(queue))
          /\ initialPopulationCount' = AtLeast0(initialPopulationCount - i)
          /\ held' = held \ {queue[i]}
          /\ pops' = [pops EXCEPT ![p] = [pc |-> "busy", key |-> queue[i], initial |-> ~synced',
                                          counted |-> initialPopulationCount >= i]]
    /\ UNCHANGED <<populated, closed, firstBatch, batches>>

\* The handler returns; only now an item of the first batch counts as handled.
PopEnds(p) ==
    /\ Busy(p)
    /\ synced' = IF pops[p].counted THEN CheckSynced(populated, initialPopulationCount) ELSE synced
    /\ firstBatch' = firstBatch \ {pops[p].key}
    /\ pops' = [pops EXCEPT ![p] = NoPop]
    /\ UNCHANGED <<held, queue, populated, initialPopulationCount, closed, batches>>

FifoNext ==
    \/ \E k \in FifoKeys : FifoAdd(k) \/ FifoDelete(k)
    \/ \E list \in Batches : FifoReplace(list)
    \/ FifoResync \/ FifoClose
    \/ \E p \in Poppers : Pop(p) \/ PopEnds(p)

FifoSpec == FifoInit /\ [][FifoNext]_fifoVars

-----------------------------------------------------------------------------
(* Properties.                                                             *)

FifoTypeOK ==
    /\ held \subseteq FifoKeys /\ queue \in Seq(FifoKeys) /\ initialPopulationCount \in Nat
    /\ populated \in BOOLEAN /\ synced \in BOOLEAN /\ closed \in BOOLEAN
    /\ pops \in [Poppers -> PopType] /\ firstBatch \subseteq FifoKeys /\ batches \in 0 .. 2

\* What is held will be popped: deletes leave keys behind that adds, pops and
\* replaces must not mistake for an item's own.
EveryItemIsQueued == held \subseteq KeysOf(queue)

\* No pop sleeps beside something to pop, or after close; no two handle items
\* at once.
NobodySleeps ==
    \A p \in Poppers :
        /\ pops[p].pc = "waiting" => queue = <<>> /\ ~closed
        /\ Busy(p) => \A q \in Poppers \ {p} : ~Busy(q)

\* hasSynced answers true only when everything of the first list was handled,
\* deleted, or replaced by another list; whoever handles one of its items is
\* told that it belongs to it.
SyncedIsHandled ==
    /\ synced => firstBatch = {}
    /\ \A p \in Poppers : Busy(p) /\ pops[p].key \in firstBatch => pops[p].initial

\* And it does answer true once all of a single list was handled: the counter
\* keeps to the keys of the list while deleted ones are queued again.
HandledIsSynced ==
    populated /\ batches < 2 /\ queue = <<>> /\ LockIsFree => synced

FifoIsSound ==
    FifoTypeOK /\ EveryItemIsQueued /\ NobodySleeps /\ SyncedIsHandled /\ HandledIsSynced

\* Nothing jumps the queue: what stands before another item is popped before it,
\* unless it is deleted or a list replaces them.
Stands(k) == CHOOSE i \in 1 .. Len(queue) :
               queue[i] = k /\ \A j \in 1 .. i - 1 : queue[j] # k
KeepsTheLine ==
    \/ \E list \in Batches : FifoReplace(list)
    \/ \A k, l \in held \cap held' : Stands(k) < Stands(l) => Stands(k)' < Stands(l)'
=============================================================================

-------------------------------- MODULE Etcd --------------------------------
(***************************************************************************)
(* The in-memory etcd of src/src/cluster/etcd.ts: class FakeState (the     *)
(* multi-version store, its transactions and its compaction watermark) and *)
(* class WatcherImpl (the watch streams it feeds).                         *)
(*                                                                         *)
(* JavaScript is single threaded, so every FakeState method is one atomic  *)
(* step; what interleaves are the microtask that connects a watcher, the   *)
(* zero-delay timer that fails one, the microtask that ends one, and the   *)
(* reads and writes of every client in between.                            *)
(*                                                                         *)
(* Keys are model values; a range request (key, prefix or interval) is the *)
(* set of keys it covers.                                                  *)
(***************************************************************************)
EXTENDS Naturals, Sequences, FiniteSets

CONSTANTS
  Keys,              \* absolute keys
  Values,            \* payloads
  NoValue,           \* the value of a deletion record
  Watchers,          \* identities of the watch streams ever opened
  Ranges,            \* the ranges requests are made for, each a set of keys
  Txns,              \* the transaction requests clients issue
  RetainedRevisions, \* EtcdOptions.retainedRevisions: records kept per key
  MaxRevision,       \* bound on the revision counter
  MaxAhead           \* how far past the current revision a watch may start

ASSUME EtcdAssumptions ==
  /\ NoValue \notin Values
  /\ Ranges \subseteq SUBSET Keys
  /\ RetainedRevisions \in Nat \ {0}
  /\ MaxRevision \in Nat
  /\ MaxAhead \in Nat

\* The requests of a transaction: a put writes one key, a delete a range, and
\* a range read asks for a revision (0: the current one).
Operation ==
  {o \in [op: {"put", "delete", "range"}, keys: SUBSET Keys,
          value: Values \cup {NoValue}, rev: Nat] :
     o.op = "put" => o.value \in Values}

ASSUME TxnAssumption ==
  \A t \in Txns : t.success \in Seq(Operation) /\ t.failure \in Seq(Operation)

VARIABLES
  revision,          \* FakeState.revision
  compactedRevision, \* FakeState.compactedRevision
  histories,         \* FakeState.histories: per key, the retained records
  log,               \* the events appended at each revision, never trimmed
  history,           \* the revisions FakeState.history still holds
  watcher,           \* WatcherImpl's fields, and its queued tasks
  got,               \* got[w][r]: times w emitted the "data" of revision r
  fired              \* lifecycle events each watcher emitted

vars == <<revision, compactedRevision, histories, log, history,
          watcher, got, fired>>
storeVars == <<revision, compactedRevision, histories, log, history>>

Revs == 1..MaxRevision

StoredRevision ==
  {rec \in [value: Values \cup {NoValue}, create: Revs, mod: Revs,
            version: Nat, deleted: BOOLEAN] : rec.deleted <=> rec.value = NoValue}

\* A WatchEvent; prev is the mod_revision of prev_kv, 0 when there is none.
WatchEvent ==
  [type: {"Put", "Delete"}, key: Keys, value: Values, create: Revs,
   version: Nat, prev: 0..MaxRevision]

\* since is not in the code: the first revision a connected watcher is owed.
WatchState ==
  [range: SUBSET Keys, skip: SUBSET {"Put", "Delete"},
   start: 0..(MaxRevision + MaxAhead), attached: BOOLEAN,
   connected: BOOLEAN, ended: BOOLEAN,
   tasks: SUBSET {"connect", "fail", "end"}, since: 0..(MaxRevision + MaxAhead + 1)]

Unopened ==
  [range |-> {}, skip |-> {}, start |-> 0, attached |-> FALSE,
   connected |-> FALSE, ended |-> FALSE, tasks |-> {}, since |-> 0]

TypeOK ==
  /\ revision \in 0..MaxRevision
  /\ compactedRevision \in 0..MaxRevision
  /\ histories \in [Keys -> Seq(StoredRevision)]
  /\ log \in [Revs -> SUBSET WatchEvent]
  /\ history \subseteq Revs
  /\ watcher \in [Watchers -> WatchState]
  /\ got \in [Watchers -> [Revs -> Nat]]
  /\ fired \in [Watchers -> SUBSET {"connected", "end", "error"}]

Init ==
  /\ revision = 0
  /\ compactedRevision = 0
  /\ histories = [k \in Keys |-> <<>>]
  /\ log = [r \in Revs |-> {}]
  /\ history = {}
  /\ watcher = [w \in Watchers |-> Unopened]
  /\ got = [w \in Watchers |-> [r \in Revs |-> 0]]
  /\ fired = [w \in Watchers |-> {}]

-----------------------------------------------------------------------------
(* Reads.                                                                  *)

LastOf(revisions) == revisions[Len(revisions)]

\* currentValue(revisions) is defined: the last record is not a deletion.
IsCurrent(revisions) == revisions # <<>> /\ ~LastOf(revisions).deleted

\* The binary search: the index of the last record at or before rev, or 0.
findRevisionAtOrBefore(revisions, rev) ==
  LET n == Len(revisions)
      search[window \in (1..(n + 1)) \X (0..n)] ==
        LET low == window[1]
            high == window[2]
            mid == (low + high) \div 2
        IN  IF low > high THEN low - 1
            ELSE IF revisions[mid].mod <= rev
            THEN search[<<mid + 1, high>>]
            ELSE search[<<low, mid - 1>>]
  IN  search[<<1, n>>]

\* compactedRevisionForRange: an explicit revision at or below the
\* watermark is refused, whatever the range.
IsCompacted(rev) == rev > 0 /\ rev <= compactedRevision

\* The revisions an explicit historical read may ask for.
ReadableRevisions == {r \in Revs : r <= revision /\ ~IsCompacted(r)}

\* Mutant: a tombstone is returned as if it were a value.
resolveIgnoringDeleted(k, rev) ==
  LET i == findRevisionAtOrBefore(histories[k], rev)
  IN  IF i = 0 THEN {} ELSE {histories[k][i]}

\* resolveStoredValueAt: what range() returns for key k at revision rev.
resolveStoredValueAt(k, rev) ==
  LET i == findRevisionAtOrBefore(histories[k], rev)
  IN  IF i = 0 \/ histories[k][i].deleted THEN {} ELSE {histories[k][i]}

-----------------------------------------------------------------------------
(* Writes.  Put, delete and transaction all append one record per written  *)
(* key at one fresh revision and hand the resulting events to the watchers.*)

\* applyPutAtRevision: the record a put of value v at revision rev stores.
PutRecord(k, v, rev) ==
  LET live == IsCurrent(histories[k])
      last == LastOf(histories[k])
  IN  [value |-> v, mod |-> rev, deleted |-> FALSE,
       create |-> IF live THEN last.create ELSE rev,
       version |-> IF live THEN last.version + 1 ELSE 1]

\* applyDeleteAtRevision: the tombstone of a live key.
DeleteRecord(k, rev) ==
  [value |-> NoValue, mod |-> rev, deleted |-> TRUE,
   create |-> LastOf(histories[k]).create,
   version |-> LastOf(histories[k]).version]

\* The event appended with record rec of key k.
EventOf(k, rec) ==
  [type |-> IF rec.deleted THEN "Delete" ELSE "Put", key |-> k,
   value |-> IF rec.deleted THEN LastOf(histories[k]).value ELSE rec.value,
   create |-> rec.create, version |-> rec.version,
   prev |-> IF IsCurrent(histories[k]) THEN LastOf(histories[k]).mod ELSE 0]

\* appendRevision: keep at most RetainedRevisions records per key.
appendRevision(revisions, rec) ==
  LET longer == Append(revisions, rec)
  IN  IF Len(longer) > RetainedRevisions THEN Tail(longer) ELSE longer

\* ...and raise the watermark to the revision of each record dropped.
RemovedRevisions(ks) ==
  {histories[k][1].mod : k \in {j \in ks : Len(histories[j]) >= RetainedRevisions}}

Raise(mark, S) ==
  CHOOSE m \in S \cup {mark} : \A x \in S \cup {mark} : m >= x

\* writes: a function from the written keys to the records to append.
Append_(writes, rev) ==
  /\ histories' = [k \in Keys |-> IF k \in DOMAIN writes
                                  THEN appendRevision(histories[k], writes[k])
                                  ELSE histories[k]]
  /\ compactedRevision' = Raise(compactedRevision, RemovedRevisions(DOMAIN writes))
  /\ log' = [log EXCEPT ![rev] = {EventOf(k, writes[k]) : k \in DOMAIN writes}]
  /\ history' = IF DOMAIN writes = {} THEN history ELSE history \cup {rev}

\* WatcherImpl.handleMany: does the watcher emit "data" for these events?
Matches(w, events) ==
  \E e \in events : e.key \in watcher[w].range /\ e.type \notin watcher[w].skip

\* Mutant: a watcher handles batches before its connecting microtask ran.
publishUnconnected(events, rev) ==
  got' = [w \in Watchers |->
            IF watcher[w].attached /\ ~watcher[w].ended /\ Matches(w, events)
            THEN [got[w] EXCEPT ![rev] = @ + 1]
            ELSE got[w]]

\* publish(records): every attached, connected watcher handles the batch.
publish(events, rev) ==
  got' = [w \in Watchers |->
            IF watcher[w].attached /\ watcher[w].connected /\ ~watcher[w].ended
               /\ Matches(w, events)
            THEN [got[w] EXCEPT ![rev] = @ + 1]
            ELSE got[w]]

\* put(): the revision is bumped first, so a touch of a missing key leaves a
\* revision at which nothing was written.
Put(k, v) ==
  /\ revision < MaxRevision
  /\ revision' = revision + 1
  /\ Append_([j \in {k} |-> PutRecord(j, v, revision + 1)], revision + 1)
  /\ publish(log'[revision + 1], revision + 1)
  /\ UNCHANGED <<watcher, fired>>

Touch(k) ==
  /\ revision < MaxRevision
  /\ IF IsCurrent(histories[k])
     THEN Put(k, LastOf(histories[k]).value)
     ELSE /\ revision' = revision + 1
          /\ UNCHANGED <<compactedRevision, histories, log, history,
                         watcher, got, fired>>

\* delete(): a range without live keys changes nothing.
Delete(ks) ==
  LET deleted == {k \in ks : IsCurrent(histories[k])}
  IN  /\ revision < MaxRevision
      /\ deleted # {}
      /\ revision' = revision + 1
      /\ Append_([k \in deleted |-> DeleteRecord(k, revision + 1)], revision + 1)
      /\ publish(log'[revision + 1], revision + 1)
      /\ UNCHANGED <<watcher, fired>>

-----------------------------------------------------------------------------
(* Transactions.  A request is [compare, success, failure]: a set of       *)
(* comparisons and two sequences of operations; an operation is            *)
(* [op, keys, value, rev] with op one of "put", "delete" and "range".      *)

\* evaluateCompare: a missing key compares as 0 (or as no value).
evaluateCompare(c) ==
  LET live == IsCurrent(histories[c.key])
      last == LastOf(histories[c.key])
      left == CASE c.target = "Version" -> IF live THEN last.version ELSE 0
                [] c.target = "Create"  -> IF live THEN last.create ELSE 0
                [] c.target = "Mod"     -> IF live THEN last.mod ELSE 0
                [] c.target = "Value"   -> IF live THEN last.value ELSE NoValue
                [] c.target = "Lease"   -> 0
  IN  CASE c.result = "Equal"    -> left = c.operand
        [] c.result = "NotEqual" -> left # c.operand
        [] c.result = "Greater"  -> left > c.operand
        [] c.result = "Less"     -> left < c.operand

IsWrite(o) == o.op \in {"put", "delete"}

\* assertTxnWriteRangesValid: refuse overlapping writes, before any effect.
WriteRangesValid(ops) ==
  \A i, j \in DOMAIN ops :
    i # j /\ IsWrite(ops[i]) /\ IsWrite(ops[j]) => ops[i].keys \cap ops[j].keys = {}

\* The keys the first n operations write: deletes only reach live keys.
WrittenKeys(ops, n) ==
  UNION {IF ops[i].op = "put" THEN ops[i].keys
         ELSE {k \in ops[i].keys : IsCurrent(histories[k])} :
           i \in {j \in 1..n : IsWrite(ops[j])}}

WriterOf(ops, k) == CHOOSE i \in DOMAIN ops : IsWrite(ops[i]) /\ k \in ops[i].keys

TxnWrites(ops, n, rev) ==
  [k \in WrittenKeys(ops, n) |->
     LET o == ops[WriterOf(ops, k)]
     IN  IF o.op = "put" THEN PutRecord(k, o.value, rev) ELSE DeleteRecord(k, rev)]

\* Operation i throws once the operations before it ran at revision rev: a
\* range read at a future or at a compacted revision.
Throws(ops, i, rev) ==
  /\ ops[i].op = "range"
  /\ ops[i].rev > 0
  /\ \/ ops[i].rev > rev
     \/ ops[i].rev <= Raise(compactedRevision, RemovedRevisions(WrittenKeys(ops, i - 1)))

\* How many operations run: all of them, or those before the first throw.
RunsUpTo(ops, rev) ==
  CHOOSE n \in 0..Len(ops) :
    /\ \A i \in 1..n : ~Throws(ops, i, rev)
    /\ n < Len(ops) => Throws(ops, n + 1, rev)

\* txn(): the branch is chosen by the comparisons; its records are published
\* together after the last operation, hence not at all when one throws.
Txn(t) ==
  LET ops == IF \A c \in t.compare : evaluateCompare(c) THEN t.success ELSE t.failure
      rev == revision + 1
      ran == RunsUpTo(ops, rev)
      writes == TxnWrites(ops, ran, rev)
  IN  /\ revision < MaxRevision
      /\ WriteRangesValid(ops)
      /\ \E i \in DOMAIN ops : IsWrite(ops[i])
      /\ revision' = rev
      /\ Append_(writes, rev)
      /\ IF ran = Len(ops) /\ DOMAIN writes # {}
         THEN publish(log'[rev], rev)
         ELSE UNCHANGED got
      /\ UNCHANGED <<watcher, fired>>

\* compact(): the watermark moves; the records at or below it are deleted
\* from the map that is being iterated, which skips every second one.
Compact(rev) ==
  /\ rev \in 1..revision
  /\ compactedRevision' = Raise(compactedRevision, {rev})
  /\ history' = {r \in history :
                   \/ r > rev
                   \/ Cardinality({x \in history : x <= r}) % 2 = 0}
  /\ UNCHANGED <<revision, histories, log, watcher, got, fired>>

-----------------------------------------------------------------------------
(* Watch streams.                                                          *)

\* watch(): the watcher is in the set at once but connects in a microtask.
Watch(w, ks, skip, start) ==
  /\ watcher[w] = Unopened
  /\ fired[w] = {}
  /\ start <= revision + MaxAhead
  /\ watcher' = [watcher EXCEPT ![w] =
         [range |-> ks, skip |-> skip, start |-> start, attached |-> TRUE,
          connected |-> FALSE, ended |-> FALSE, tasks |-> {"connect"}, since |-> 0]]
  /\ UNCHANGED <<storeVars, got, fired>>

\* The revisions replayed: what the history map holds from start on.
Replayed(w) ==
  {r \in history : r >= watcher[w].start /\ Matches(w, log[r])}

\* Mutant: connect() may run again on a connected watcher.
ConnectAgain(w) ==
  /\ "connect" \in watcher[w].tasks
  /\ watcher' = [watcher EXCEPT ![w].connected = TRUE]
  /\ got' = [got EXCEPT ![w] = [r \in Revs |->
                 got[w][r] + (IF watcher[w].start > 0 /\ r \in Replayed(w) THEN 1 ELSE 0)]]
  /\ fired' = [fired EXCEPT ![w] = @ \cup {"connected"}]
  /\ UNCHANGED storeVars

\* Mutant: a compacted start revision returns without scheduling the failure.
ConnectSilently(w) ==
  /\ "connect" \in watcher[w].tasks
  /\ watcher' = [watcher EXCEPT ![w].connected = TRUE, ![w].tasks = @ \ {"connect"}]
  /\ fired' = [fired EXCEPT ![w] = @ \cup {"connected"}]
  /\ UNCHANGED <<storeVars, got>>

\* The microtask of watch().
Connect(w) ==
  /\ "connect" \in watcher[w].tasks
  /\ LET s == watcher[w].start
         refused == IsCompacted(s)
     IN  /\ watcher' = [watcher EXCEPT
              ![w].connected = TRUE,
              ![w].since = IF s = 0 THEN revision + 1 ELSE s,
              ![w].tasks = (@ \ {"connect"}) \cup (IF refused THEN {"fail"} ELSE {})]
         /\ got' = IF s = 0 \/ refused THEN got
                   ELSE [got EXCEPT ![w] = [r \in Revs |->
                           got[w][r] + (IF r \in Replayed(w) THEN 1 ELSE 0)]]
  /\ fired' = [fired EXCEPT ![w] = @ \cup {"connected"}]
  /\ UNCHANGED storeVars

\* The timer that cancels a watch on a compacted revision: WatcherImpl.fail.
Fail(w) ==
  /\ "fail" \in watcher[w].tasks
  /\ watcher' = [watcher EXCEPT ![w].attached = FALSE, ![w].connected = FALSE,
                                ![w].tasks = @ \ {"fail"}]
  /\ fired' = [fired EXCEPT ![w] = @ \cup {"error"}]
  /\ UNCHANGED <<storeVars, got>>

\* cancel(): queues the microtask that ends the watcher.
CancelWatcher(w) ==
  /\ watcher[w] # Unopened
  /\ ~watcher[w].ended
  /\ "end" \notin watcher[w].tasks
  /\ watcher' = [watcher EXCEPT ![w].tasks = @ \cup {"end"}]
  /\ UNCHANGED <<storeVars, got, fired>>

\* WatcherImpl.end; microtasks are FIFO, so a pending connect runs first.
End(w) ==
  /\ "end" \in watcher[w].tasks
  /\ "connect" \notin watcher[w].tasks
  /\ watcher' = [watcher EXCEPT ![w].ended = TRUE, ![w].attached = FALSE,
                                ![w].connected = FALSE, ![w].tasks = @ \ {"end"}]
  /\ fired' = [fired EXCEPT ![w] = @ \cup {"end"}]
  /\ UNCHANGED <<storeVars, got>>

\* close(): every watcher is dropped from the set, without an event.
Close ==
  /\ \E w \in Watchers : watcher[w].attached
  /\ watcher' = [w \in Watchers |-> [watcher[w] EXCEPT !.attached = FALSE]]
  /\ UNCHANGED <<storeVars, got, fired>>

-----------------------------------------------------------------------------
Write ==
  \/ \E k \in Keys : Touch(k) \/ \E v \in Values : Put(k, v)
  \/ \E ks \in Ranges : Delete(ks)
  \/ \E t \in Txns : Txn(t)

Tasks == \E w \in Watchers : Connect(w) \/ Fail(w) \/ End(w)

Next ==
  \/ Write
  \/ \E rev \in Revs : Compact(rev)
  \/ \E w \in Watchers, ks \in Ranges, skip \in {{}, {"Put"}},
        start \in 0..(MaxRevision + MaxAhead) : Watch(w, ks, skip, start)
  \/ Tasks
  \/ \E w \in Watchers : CancelWatcher(w)
  \/ Close

\* Queued microtasks and timers run; nothing obliges a client to act.
Spec == Init /\ [][Next]_vars
             /\ \A w \in Watchers : WF_vars(Connect(w)) /\ WF_vars(Fail(w)) /\ WF_vars(End(w))
-----------------------------------------------------------------------------
(* Properties.                                                             *)

\* What the events say key k held at revision r: the reference for reads.
Wrote(k, r) == \E e \in log[r] : e.key = k
LogValue(k, r) ==
  LET writes == {q \in 1..r : Wrote(k, q)}
      at == CHOOSE q \in writes : \A p \in writes : q >= p
      e == CHOOSE e \in log[at] : e.key = k
  IN  IF writes = {} THEN {}
      ELSE IF e.type = "Delete" THEN {}
      ELSE {[value |-> e.value, create |-> e.create, mod |-> at,
             version |-> e.version, deleted |-> FALSE]}

\* A connected watcher has emitted every matching event from its start
\* revision on exactly once: the replay done by the connecting microtask and
\* the live publications neither overlap nor leave a gap, whatever was
\* written or compacted between watch() and that microtask.
WatchExactlyOnce ==
  \A w \in Watchers :
    watcher[w].attached /\ watcher[w].connected /\ "fail" \notin watcher[w].tasks
    => \A r \in Revs :
         got[w][r] = IF r >= watcher[w].since /\ Matches(w, log[r]) THEN 1 ELSE 0

\* No watcher ever emits a revision after a later one, closed, failing and
\* cancelled watchers included.
WatchInOrder ==
  [][\A w \in Watchers, r \in Revs :
       got'[w][r] # got[w][r] => \A q \in Revs : q >= r => got[w][q] = 0]_vars

\* Every event newer than the watermark is still in the history map, so a
\* watch that is not refused can be replayed in full.
HistoryCoversUncompacted ==
  \A r \in Revs : r > compactedRevision /\ log[r] # {} => r \in history

\* A read at the current revision returns what the events say, although each
\* key keeps only its last RetainedRevisions records.
CurrentReadsFollowLog ==
  revision > 0 => \A k \in Keys : resolveStoredValueAt(k, revision) = LogValue(k, revision)

\* A historical read at a revision that is not refused never returns a value
\* the key did not have at that revision.
HistoricalReadsSound ==
  \A k \in Keys, r \in ReadableRevisions : resolveStoredValueAt(k, r) \subseteq LogValue(k, r)

\* prev_kv, from which clients tell an ADDED from a MODIFIED object, is the
\* value the key had just before the event, and absent after a deletion.
PrevKvLinksEvents ==
  \A r \in Revs : \A e \in log[r] :
    {e.prev} \ {0} = {rec.mod : rec \in LogValue(e.key, r - 1)}

\* A watch whose start revision is compacted when it connects is told so.
CompactedWatchErrors ==
  \A w \in Watchers :
    ("connect" \in watcher[w].tasks /\ IsCompacted(watcher[w].start))
      ~> "error" \in fired[w]

\* What the header of etcd.ts says of compaction: a revision whose content
\* is gone is refused, so a read that is answered is answered in full.
HistoricalReadsComplete ==
  \A k \in Keys, r \in ReadableRevisions : resolveStoredValueAt(k, r) = LogValue(k, r)

\* Reads at any revision, and the prev_kv of events, follow the event log.
ReadsFollowLog == CurrentReadsFollowLog /\ HistoricalReadsSound /\ PrevKvLinksEvents

\* What watchers are promised at any moment: nothing twice, nothing left out,
\* and a history that reaches back to the watermark.
WatchIsSound == TypeOK /\ WatchExactlyOnce /\ HistoryCoversUncompacted
=============================================================================

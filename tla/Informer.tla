------------------------------ MODULE Informer ------------------------------
(***************************************************************************)
(* An informer: ListWatch (client/cache.ts) keeps a cache of the objects   *)
(* under a path by listing them once and then following Watch              *)
(* (client/watch.ts), which turns an etcd watch stream into ADDED,         *)
(* MODIFIED and DELETED callbacks for the objects a selector matches.      *)
(*                                                                         *)
(* The server is its log: what each revision did to which key, and whether *)
(* the object matched the selector.  Publishing a revision to an open      *)
(* stream happens inside the write, so an open stream is never behind.     *)
(* start() and stop() are awaited, as every caller in src/ does.           *)
(***************************************************************************)
EXTENDS Integers, Sequences, FiniteSets

CONSTANTS
    Keys,         \* objects under the path
    MatchChoices,      \* {TRUE}: no selector; BOOLEAN: objects may stop matching
    ListFailures, \* whether listFn may fail
    Compactions,  \* whether the server compacts its history
    MaxRev        \* bound: revisions in a behaviour

None == -1    \* resourceVersion ""

VARIABLES
    log,      \* log[r]: what revision r did
    floor,    \* the compacted revision
    cache,    \* ListWatch.objects: the version cached of each key, 0 if none
    rv,       \* ListWatch.resourceVersion
    stopped,  \* ListWatch.stopped
    broken,   \* an error callback was called since the last start
    pc,       \* where doneHandler is: idle, or awaiting an answer
    listed,   \* the revision an answered list was made at
    stream    \* the watch: its state, its startRevision, its matchingKeys

vars == <<log, floor, cache, rv, stopped, broken, pc, listed, stream>>

Revision == Len(log)
NoStream == [state |-> "none", start |-> 0, matching |-> {}]

Records == [key : Keys, put : BOOLEAN, match : MatchChoices]

Init ==
    /\ log = <<>> /\ floor = 0
    /\ cache = [k \in Keys |-> 0]
    /\ rv = None /\ stopped = TRUE /\ broken = FALSE
    /\ pc = "idle" /\ listed = 0 /\ stream = NoStream

(* The last record of a key up to revision n, 0 if there is none.           *)
LastOf(k, n) == LET rs == {r \in 1 .. n : log[r].key = k}
              IN  IF rs = {} THEN 0 ELSE CHOOSE r \in rs : \A s \in rs : s <= r

(* The versions a list at revision n answers with.                          *)
ListAt(n) ==
    [k \in Keys |-> LET r == LastOf(k, n)
                    IN  IF r # 0 /\ log[r].put /\ log[r].match THEN r ELSE 0]

----------------------------------------------------------------------------
(* The cache.  watchHandler takes the callback Watch makes for the event e  *)
(* of revision r; w is [cache, rv, matching], the informer's cache and      *)
(* version and the keys Watch knows to match.  The add, update and delete   *)
(* callbacks go with the assignments and have no state.                     *)

Watched(w, e, r) ==
    IF e.match
    THEN [cache    |-> [w.cache EXCEPT ![e.key] = IF e.put THEN r ELSE 0],
          rv       |-> r,
          matching |-> w.matching \cup {e.key}]
    ELSE IF e.key \in w.matching
    THEN [cache    |-> [w.cache EXCEPT ![e.key] = 0],
          rv       |-> r,
          matching |-> w.matching \ {e.key}]
    ELSE w

(* The stream delivers the events of revisions first .. last of history h,  *)
(* one after the other.                                                     *)
Followed(h, first, last, from) ==
    LET after[r \in first - 1 .. last] == IF r < first THEN from ELSE Watched(after[r - 1], h[r], r)
    IN  after[last]

Delivers(h, first, last, state) ==
    LET w == Followed(h, first, last, [cache |-> cache, rv |-> rv, matching |-> stream.matching])
    IN  /\ cache' = w.cache
        /\ rv' = w.rv
        /\ stream' = [stream EXCEPT !.state = state, !.matching = w.matching]

----------------------------------------------------------------------------
(* The server *)

Exists(k) == LET r == LastOf(k, Revision) IN r # 0 /\ log[r].put

(* A put or a delete; a delete carries the object as it was.  FakeState     *)
(* publishes to the connected streams before it returns.                    *)
Write(e) ==
    /\ Revision < MaxRev
    /\ e.put \/ (Exists(e.key) /\ e.match = log[LastOf(e.key, Revision)].match)
    /\ log' = Append(log, e)
    /\ IF stream.state = "open"
       THEN Delivers(log', Revision + 1, Revision + 1, "open")
       ELSE UNCHANGED <<cache, rv, stream>>
    /\ UNCHANGED <<floor, stopped, broken, pc, listed>>

Compact ==
    /\ Compactions
    /\ floor < Revision
    /\ floor' \in floor + 1 .. Revision
    /\ UNCHANGED <<log, cache, rv, stopped, broken, pc, listed, stream>>

----------------------------------------------------------------------------
(* doneHandler and Watch.watch *)

watchStartRevision(v) == v + 1

(* watch() asks for the store's stream from a revision; it connects in a    *)
(* microtask.                                                               *)
Opens(v, matching) ==
    /\ stream' = [state |-> "connecting", start |-> watchStartRevision(v), matching |-> matching]
    /\ pc' = "idle"

(* From here to the first await: list when there is no version, list again  *)
(* inside watch() when the version is "0", else watch.                      *)
Follows(v) ==
    IF v = None THEN pc' = "list" /\ stream' = NoStream
    ELSE IF v = 0 THEN pc' = "initial" /\ stream' = NoStream
    ELSE Opens(v, {})

Start ==
    /\ stopped /\ pc = "idle" /\ stream.state = "none"
    /\ stopped' = FALSE /\ broken' = FALSE
    /\ Follows(rv)
    /\ UNCHANGED <<log, floor, cache, rv, listed>>

(* listFn's answer is made ...                                              *)
ListAnswers ==
    /\ pc \in {"list", "initial"}
    /\ pc' = IF pc = "list" THEN "listed" ELSE "initialed"
    /\ listed' = Revision
    /\ UNCHANGED <<log, floor, cache, rv, stopped, broken, stream>>

ListFails ==
    /\ ListFailures
    /\ pc = "list"
    /\ pc' = "idle" /\ broken' = TRUE
    /\ UNCHANGED <<log, floor, cache, rv, stopped, listed, stream>>

(* Mutants: the version is the server's when the answer arrives; nothing    *)
(* follows the list.                                                        *)
listArrivesNow ==
    /\ pc = "listed"
    /\ cache' = ListAt(listed)
    /\ rv' = Revision
    /\ Follows(listed)
    /\ listed' = 0
    /\ UNCHANGED <<log, floor, stopped, broken>>

(* ... and arrives: the cache becomes the list.                             *)
ListArrives ==
    /\ pc = "listed"
    /\ cache' = ListAt(listed)
    /\ rv' = listed
    /\ Follows(listed)
    /\ listed' = 0
    /\ UNCHANGED <<log, floor, stopped, broken>>

(* The initial events of a watch from "0": an ADDED for each object listed, *)
(* then the stream from there.  What is cached already stays.               *)
InitialArrives ==
    LET items == ListAt(listed)
        found == {k \in Keys : items[k] # 0}
    IN  /\ pc = "initialed"
        /\ cache' = [k \in Keys |-> IF k \in found THEN items[k] ELSE cache[k]]
        /\ IF found = {} THEN rv' = rv ELSE \E k \in found : rv' = items[k]
        /\ Opens(listed, found)
        /\ listed' = 0
        /\ UNCHANGED <<log, floor, stopped, broken>>

(* The microtask of FakeState.watch: a stream from a compacted revision     *)
(* will fail, any other replays the history from its start.                 *)
Connect ==
    /\ stream.state = "connecting"
    /\ IF stream.start <= floor
       THEN /\ stream' = [stream EXCEPT !.state = "failing"]
            /\ UNCHANGED <<cache, rv>>
       ELSE Delivers(log, stream.start, Revision, "open")
    /\ UNCHANGED <<log, floor, stopped, broken, pc, listed>>

(* The errors a stream of the fake etcd fails with, and what isGoneError    *)
(* takes for gone.                                                          *)
WatcherError == "Watcher canceled: "
isGoneError(err) == err = "required revision has been compacted"

(* doneHandler(err)                                                         *)
StreamFails ==
    /\ stream.state = "failing"
    /\ IF isGoneError(WatcherError)
       THEN rv' = None /\ Follows(None) /\ UNCHANGED broken
       ELSE broken' = TRUE /\ stream' = NoStream /\ UNCHANGED <<rv, pc>>
    /\ UNCHANGED <<log, floor, cache, stopped, listed>>

(* stop() aborts the watch; its end calls doneHandler, which finds stopped. *)
Stop ==
    /\ ~stopped /\ pc = "idle"
    /\ stopped' = TRUE
    /\ stream' = NoStream
    /\ UNCHANGED <<log, floor, cache, rv, broken, pc, listed>>

Works == ListAnswers \/ ListFails \/ ListArrives \/ InitialArrives \/ Connect \/ StreamFails

Next == (\E e \in Records : Write(e)) \/ Compact \/ Start \/ Stop \/ Works

Spec     == Init /\ [][Next]_vars
FairSpec == Spec /\ WF_vars(Works)

----------------------------------------------------------------------------
(* Properties *)

(* The variables have the shapes declared above.                            *)
TypeOK ==
    /\ log \in Seq(Records) /\ floor \in Nat /\ rv \in Nat \cup {None} /\ listed \in Nat
    /\ cache \in [Keys -> Nat]
    /\ stopped \in BOOLEAN /\ broken \in BOOLEAN
    /\ pc \in {"idle", "list", "listed", "initial", "initialed"}
    /\ stream \in [state : {"none", "connecting", "open", "failing"}, start : Nat,
                   matching : SUBSET Keys]

(* While its stream is open, the cache is exactly what a list would answer: *)
(* nothing between the list and the watch, or between a stop and the next   *)
(* start, is missed, and nothing deleted stays.  Violated when objects may  *)
(* stop matching the selector: Watch starts with no matching keys when it   *)
(* resumes from a resourceVersion, and drops the DELETED of what was listed.*)
CacheIsCurrent == stream.state = "open" => cache = ListAt(Revision)

(* Resuming is sound: whatever the cache holds of a key that has no event   *)
(* after the informer's resourceVersion is what the server holds, so that   *)
(* following the events from there brings the cache up to date, also after  *)
(* a watch from "0" whose initial events left the version behind the cache. *)
ResumingIsSound ==
    rv # None /\ pc = "idle" =>
        \A k \in Keys : LastOf(k, Revision) <= rv => cache[k] = ListAt(Revision)[k]

(* A started informer gets its cache up to date, unless it is stopped or    *)
(* has said through an error callback that it gave up.                      *)
CatchesUp == ~stopped ~> (stopped \/ broken \/ stream.state = "open")

(* Violated: an informer that resumes from a compacted revision lists again *)
(* instead of giving up.                                                    *)
NeverGivesUp == ~broken

(* What the cache holds, and what may be built on the version it is at.     *)
CacheIsSound == CacheIsCurrent /\ ResumingIsSound
=============================================================================

---------------------------- MODULE IndexedStore ----------------------------
(***************************************************************************)
(* The indexed store of client-go: threadSafeMap and storeIndex            *)
(* (tools/cache/thread-safe-store.ts) under Cache (store.ts).  Listers and *)
(* controllers find their objects through its indices, e.g. the pods of a  *)
(* ReplicaSet by the uid of their controller.                              *)
(*                                                                         *)
(* No operation awaits anything once it has its key, so each is one step.  *)
(* An index function may answer an error; the operation then throws where  *)
(* it stands, and what it did before stays done.                           *)
(***************************************************************************)
EXTENDS Integers, FiniteSets

CONSTANTS
    ItemKeys,    \* keys of items
    Objs, NoObj, \* objects, and no object
    IndexNames,  \* names indexers are added under
    IndexValues, \* values of index functions
    ValuesOf,    \* ValuesOf[n][o]: what n's index function answers for o
    Failing,     \* the pairs <<n, o>> it answers an error for
    RevOf,       \* an object's resourceVersion, NoRev for none
    NoRev,
    ListRevs     \* resourceVersions of lists and bookmarks

ASSUME IndexAssumption ==
    /\ NoObj \notin Objs
    /\ ValuesOf \in [IndexNames -> [Objs -> SUBSET IndexValues]]

VARIABLES
    items,    \* threadSafeMap.items
    indices,  \* StoreIndex.indices: a map from values to sets of keys for each name
    indexers, \* the names of StoreIndex.indexers
    storeRev, \* threadSafeMap.rv
    torn      \* keys an operation threw for before it had indexed them (history)

indexVars == <<items, indices, indexers, storeRev, torn>>

IndexInit ==
    /\ items = [k \in ItemKeys |-> NoObj]
    /\ indices = [n \in IndexNames |-> <<>>]
    /\ indexers \in SUBSET IndexNames
    /\ storeRev = NoRev
    /\ torn = {}

-----------------------------------------------------------------------------
(* One index: a partial function from values to sets of keys.              *)

KeysAt(index, v) == IF v \in DOMAIN index THEN index[v] ELSE {}

\* addKeyToIndex, deleteKeyFromIndex: a set that gets empty goes.
\* Mutant: what the key was found under before is left.
MovedOnto(index, key, old, new) ==
    [v \in DOMAIN index \cup new |-> KeysAt(index, v) \cup (IF v \in new THEN {key} ELSE {})]
Moved(index, key, old, new) ==
    [v \in {u \in DOMAIN index : u \in old => ~(index[u] \subseteq {key})} \cup new |->
        (IF v \in old THEN KeysAt(index, v) \ {key} ELSE KeysAt(index, v))
            \cup (IF v \in new THEN {key} ELSE {})]

Answer(n, obj) == IF obj = NoObj THEN {} ELSE ValuesOf[n][obj]
Errs(n, obj)   == obj # NoObj /\ <<n, obj>> \in Failing

\* updateSingleIndex; one value that stays is not touched.
SingleIndex(index, n, key, old, new) ==
    IF Answer(n, old) = Answer(n, new) /\ Cardinality(Answer(n, new)) = 1
    THEN index
    ELSE Moved(index, key, Answer(n, old), Answer(n, new))

\* updateIndices goes through the indexers in the order they were added, which
\* is left open, up to the first whose function fails.
Refusing(old, new) == {n \in indexers : Errs(n, old) \/ Errs(n, new)}
Reached(refusing) ==
    IF refusing = {} THEN {indexers} ELSE SUBSET (indexers \ refusing)
Reindexed(ind, done, key, old, new) ==
    [n \in IndexNames |->
        IF n \in done THEN SingleIndex(ind[n], n, key, old, new) ELSE ind[n]]

-----------------------------------------------------------------------------
(* Writes, as the set of their outcomes.                                   *)

Now == [items |-> items, indices |-> indices, torn |-> torn, thrown |-> FALSE]

\* What becomes of s when the item's object, old, makes way for new.
After(s, key, done, refusing, new, put) ==
    [items |-> [s.items EXCEPT ![key] = put],
     indices |-> Reindexed(s.indices, done, key, s.items[key], new),
     torn |-> IF refusing = {} THEN s.torn ELSE s.torn \cup {key},
     thrown |-> refusing # {}]

\* updateLocked: the item is stored first
Updated(s, key, obj) ==
    LET refusing == Refusing(s.items[key], obj) IN
    {After(s, key, done, refusing, obj, obj) : done \in Reached(refusing)}

\* deleteLocked: the item goes last, unless an index function fails
Removed(s, key) ==
    LET refusing == Refusing(s.items[key], NoObj) IN
    IF s.items[key] = NoObj THEN {s}
    ELSE {After(s, key, done, refusing, NoObj, IF refusing = {} THEN NoObj ELSE s.items[key]) :
             done \in Reached(refusing)}

Becomes(s) == items' = s.items /\ indices' = s.indices /\ torn' = s.torn

\* The store's version follows the objects of operations that end well.
RevAfter(thrown, obj) ==
    IF thrown \/ obj = NoObj \/ RevOf[obj] = NoRev THEN storeRev ELSE RevOf[obj]

\* add, update
UpdateItem(key, obj) ==
    /\ \E s \in Updated(Now, key, obj) : Becomes(s) /\ storeRev' = RevAfter(s.thrown, obj)
    /\ UNCHANGED indexers

\* delete, deleteWithObject
DeleteItem(key, obj) ==
    /\ \E s \in Removed(Now, key) : Becomes(s) /\ storeRev' = RevAfter(s.thrown, obj)
    /\ UNCHANGED indexers

\* transaction, of two
Txn1(s, t) == IF t.type = "delete" THEN Removed(s, t.key) ELSE Updated(s, t.key, t.object)
Transact(t, u) ==
    /\ \E s \in Txn1(Now, t) :
         IF s.thrown THEN Becomes(s) /\ UNCHANGED storeRev
         ELSE \E r \in Txn1(s, u) : Becomes(r) /\ storeRev' = RevAfter(r.thrown, u.object)
    /\ UNCHANGED indexers

-----------------------------------------------------------------------------
(* Many items at once: each is put into every index before the next.       *)

\* The indices with the items of keys[n] added to those of each name.
Filled(ind, its, names, keys) ==
    LET under(n, v) == {k \in keys[n] : v \in Answer(n, its[k])} IN
    [n \in IndexNames |->
        IF n \notin names THEN ind[n]
        ELSE [v \in {u \in IndexValues : u \in DOMAIN ind[n] \/ under(n, u) # {}} |->
                 KeysAt(ind[n], v) \cup under(n, v)]]

Present(its) == {k \in ItemKeys : its[k] # NoObj}
Rejected(its, names, k) == {n \in names : Errs(n, its[k])}

\* Either all items are indexed, or the loop throws at k, which follows keys.
FillsAll(ind, its, names) ==
    /\ \A k \in Present(its) : Rejected(its, names, k) = {}
    /\ indices' = Filled(ind, its, names, [n \in names |-> Present(its)])
FillThrows(ind, its, names, keys, k) ==
    /\ k \notin keys /\ Rejected(its, names, k) # {}
    /\ \A j \in keys : Rejected(its, names, j) = {}
    /\ \E done \in SUBSET (names \ Rejected(its, names, k)) :
         indices' = Filled(ind, its, names,
                           [n \in names |-> IF n \in done THEN keys \cup {k} ELSE keys])

\* replace: the indices start afresh
NoIndices == [n \in IndexNames |-> <<>>]
ReplaceItems(its, listRev) ==
    /\ items' = its /\ storeRev' = listRev
    /\ \/ FillsAll(NoIndices, its, indexers) /\ torn' = {}
       \/ \E k \in Present(its), keys \in SUBSET Present(its) :
            /\ FillThrows(NoIndices, its, indexers, keys, k)
            /\ torn' = Present(its) \ keys
    /\ UNCHANGED indexers

\* addIndexers refuses names it has; new ones index the items there are
AddIndexers(names) ==
    /\ names \cap indexers = {}
    /\ indexers' = indexers \cup names
    /\ \/ FillsAll(indices, items, names) /\ UNCHANGED torn
       \/ \E k \in Present(items), keys \in SUBSET Present(items) :
            /\ FillThrows(indices, items, names, keys, k)
            /\ torn' = torn \cup (Present(items) \ keys)
    /\ UNCHANGED <<items, storeRev>>

Bookmark(listRev) ==
    storeRev' = listRev /\ UNCHANGED <<items, indices, indexers, torn>>

-----------------------------------------------------------------------------
(* Reads.                                                                  *)

\* indexKeys, listIndexFuncValues, byIndex, index
IndexKeys(name, v) == KeysAt(indices[name], v)
ListIndexFuncValues(name) == DOMAIN indices[name]
ByIndex(name, v) == {k \in IndexKeys(name, v) : items[k] # NoObj}
IndexOf(name, obj) == UNION {ByIndex(name, v) : v \in Answer(name, obj)}

-----------------------------------------------------------------------------
ItemMaps == [ItemKeys -> Objs \cup {NoObj}]
ItemTxns == [type : {"update", "delete"}, key : ItemKeys, object : Objs]

IndexNext ==
    \/ \E k \in ItemKeys, o \in Objs : UpdateItem(k, o)
    \/ \E k \in ItemKeys, o \in Objs \cup {NoObj} : DeleteItem(k, o)
    \/ \E t, u \in ItemTxns : Transact(t, u)
    \/ \E its \in ItemMaps, r \in ListRevs : ReplaceItems(its, r)
    \/ \E names \in SUBSET IndexNames : AddIndexers(names)
    \/ \E r \in ListRevs : Bookmark(r)

IndexSpec == IndexInit /\ [][IndexNext]_indexVars

-----------------------------------------------------------------------------
(* Properties.                                                             *)

IndexTypeOK ==
    /\ items \in ItemMaps /\ indexers \subseteq IndexNames /\ torn \subseteq ItemKeys
    /\ \A n \in IndexNames : \A v \in DOMAIN indices[n] :
         v \in IndexValues /\ indices[n][v] \subseteq ItemKeys

\* An item is found under the values its index functions answer for it, and
\* under no other, whatever it was before and however often it changed; a name
\* without an indexer finds nothing.
FoundByItsValues ==
    \A k \in ItemKeys \ torn, n \in IndexNames, v \in IndexValues :
        k \in IndexKeys(n, v) <=> n \in indexers /\ v \in Answer(n, items[k])

\* The values of an index are those that some item still has: emptied sets are
\* not kept (deleteKeyFromIndex).
NoEmptySets == \A n \in IndexNames : \A v \in ListIndexFuncValues(n) : IndexKeys(n, v) # {}

\* What was stored and indexed can be updated and deleted without an error of
\* what is stored.
NothingRefusesItems ==
    \A k \in ItemKeys \ torn : Refusing(items[k], NoObj) = {}

\* Reads through an index answer the items themselves: what an object's values
\* find is what shares one of them.
ReadsFindItems ==
    \A n \in indexers, o \in Objs :
        IndexOf(n, o) \ torn =
            {k \in Present(items) \ torn : ValuesOf[n][o] \cap ValuesOf[n][items[k]] # {}}

IndexIsSound ==
    IndexTypeOK /\ FoundByItsValues /\ NoEmptySets /\ NothingRefusesItems /\ ReadsFindItems
=============================================================================

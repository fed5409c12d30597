----------------------------- MODULE CacheProofs -----------------------------
(***************************************************************************)
(* Theorems about what holds copies of the server's objects: an indexed    *)
(* store finds its items by their own values only; a FIFO loses no item,   *)
(* keeps its line, and says it has synced once the first list was handled  *)
(* and not before; an informer's cache is what a list would answer; the    *)
(* kubelet knows the pods of its node as the server has them once nothing  *)
(* is under way.                                                           *)
(***************************************************************************)
EXTENDS IndexedStore, Fifo, Informer, PodSource, FiniteSetTheorems, SequenceTheorems,
        WellFoundedInduction, TLAPS

----
(* IndexedStore.  An operation is a set of outcomes, and a transaction     *)
(* feeds one with the outcome of another, so the invariant is one of       *)
(* outcomes: of items, indices and the keys that were torn.                *)

WellFormed(ind) ==
    \A n \in IndexNames : \A v \in DOMAIN ind[n] :
        v \in IndexValues /\ ind[n][v] \subseteq ItemKeys /\ ind[n][v] # {}

Finds(its, ind, names, k) ==
    \A n \in IndexNames, v \in IndexValues :
        (k \in KeysAt(ind[n], v)) <=> (n \in names /\ v \in Answer(n, its[k]))

Accepts(its, names, k) == \A n \in names : ~Errs(n, its[k])

GoodStore(its, ind, t, names) ==
    /\ its \in ItemMaps /\ t \subseteq ItemKeys /\ names \subseteq IndexNames
    /\ WellFormed(ind)
    /\ \A k \in ItemKeys \ t : Finds(its, ind, names, k) /\ Accepts(its, names, k)

IndexInv == GoodStore(items, indices, torn, indexers)

LEMMA AnswersAreValues ==
    ASSUME NEW n \in IndexNames, NEW o \in Objs \cup {NoObj}
    PROVE  Answer(n, o) \subseteq IndexValues
BY IndexAssumption DEF Answer

\* One index: the key moves from the old values to the new ones, whether it was
\* found under the old ones or not, and other keys stay.
LEMMA KeyMoves ==
    ASSUME NEW index, NEW key \in ItemKeys, NEW old \in SUBSET IndexValues,
           NEW new \in SUBSET IndexValues,
           \A v \in DOMAIN index : v \in IndexValues /\ index[v] \subseteq ItemKeys /\ index[v] # {}
    PROVE  LET r == Moved(index, key, old, new) IN
           /\ \A v \in DOMAIN r : v \in IndexValues /\ r[v] \subseteq ItemKeys /\ r[v] # {}
           /\ \A k \in ItemKeys \ {key}, v \in IndexValues :
                (k \in KeysAt(r, v)) <=> (k \in KeysAt(index, v))
           /\ \A v \in IndexValues :
                (key \in KeysAt(r, v)) <=> (v \in new \/ (v \notin old /\ key \in KeysAt(index, v)))
<1> DEFINE D == {u \in DOMAIN index : u \in old => ~(index[u] \subseteq {key})} \cup new
           r == Moved(index, key, old, new)
<1>1. /\ DOMAIN r = D
      /\ \A v \in D : r[v] = (IF v \in old THEN KeysAt(index, v) \ {key} ELSE KeysAt(index, v))
                                \cup (IF v \in new THEN {key} ELSE {})
  BY DEF Moved
<1>2. \A v \in D : v \in IndexValues /\ r[v] \subseteq ItemKeys /\ r[v] # {}
  BY <1>1 DEF KeysAt
<1>3. \A v : v \notin D => KeysAt(r, v) = {}
  BY <1>1 DEF KeysAt
<1>4. \A v \in D : KeysAt(r, v) = r[v]
  BY <1>1 DEF KeysAt
<1>5. \A v \in IndexValues \ D : v \notin new /\ KeysAt(index, v) \subseteq {key} /\ (v \in old \/ KeysAt(index, v) = {})
  BY DEF KeysAt
<1> HIDE DEF r, D
<1>6. \A k \in ItemKeys \ {key}, v \in IndexValues :
          (k \in KeysAt(r, v)) <=> (k \in KeysAt(index, v))
  BY <1>1, <1>3, <1>4, <1>5
<1>7. \A v \in IndexValues :
          (key \in KeysAt(r, v)) <=> (v \in new \/ (v \notin old /\ key \in KeysAt(index, v)))
  BY <1>1, <1>3, <1>4, <1>5
<1> QED BY <1>1, <1>2, <1>6, <1>7 DEF r

\* One index, whatever updateSingleIndex takes for unchanged.
LEMMA SingleIndexMoves ==
    ASSUME NEW index, NEW n \in IndexNames, NEW key \in ItemKeys,
           NEW old \in Objs \cup {NoObj}, NEW new \in Objs \cup {NoObj},
           \A v \in DOMAIN index : v \in IndexValues /\ index[v] \subseteq ItemKeys /\ index[v] # {}
    PROVE  LET r == SingleIndex(index, n, key, old, new) IN
           /\ \A v \in DOMAIN r : v \in IndexValues /\ r[v] \subseteq ItemKeys /\ r[v] # {}
           /\ \A k \in ItemKeys \ {key}, v \in IndexValues :
                (k \in KeysAt(r, v)) <=> (k \in KeysAt(index, v))
           /\ (\A v \in IndexValues : (key \in KeysAt(index, v)) <=> (v \in Answer(n, old)))
                => \A v \in IndexValues : (key \in KeysAt(r, v)) <=> (v \in Answer(n, new))
<1> DEFINE r == SingleIndex(index, n, key, old, new)
<1>1. Answer(n, old) \in SUBSET IndexValues /\ Answer(n, new) \in SUBSET IndexValues
  BY AnswersAreValues
<1>2. CASE Answer(n, old) = Answer(n, new) /\ Cardinality(Answer(n, new)) = 1
  <2>1. r = index
    BY <1>2 DEF SingleIndex
  <2> QED BY <1>2, <2>1
<1>3. CASE ~(Answer(n, old) = Answer(n, new) /\ Cardinality(Answer(n, new)) = 1)
  <2>1. r = Moved(index, key, Answer(n, old), Answer(n, new))
    BY <1>3 DEF SingleIndex
  <2> HIDE DEF r
  <2> DEFINE a == Answer(n, old)
             b == Answer(n, new)
  <2> HIDE DEF a, b
  <2>2. /\ \A v \in DOMAIN Moved(index, key, a, b) :
             /\ v \in IndexValues /\ Moved(index, key, a, b)[v] \subseteq ItemKeys
             /\ Moved(index, key, a, b)[v] # {}
        /\ \A k \in ItemKeys \ {key}, v \in IndexValues :
             (k \in KeysAt(Moved(index, key, a, b), v)) <=> (k \in KeysAt(index, v))
        /\ \A v \in IndexValues : (key \in KeysAt(Moved(index, key, a, b), v)) <=>
             (v \in b \/ (v \notin a /\ key \in KeysAt(index, v)))
    <3>1. a \in SUBSET IndexValues /\ b \in SUBSET IndexValues
      BY <1>1 DEF a, b
    <3> QED BY <3>1, KeyMoves
  <2> QED BY <2>1, <2>2 DEF r, a, b
<1> QED BY <1>2, <1>3

\* updateIndices, through some of the indexers or all of them.
LEMMA IndicesFollow ==
    ASSUME NEW its, NEW ind, NEW t, GoodStore(its, ind, t, indexers),
           NEW done \in SUBSET indexers, NEW key \in ItemKeys, NEW new \in Objs \cup {NoObj}
    PROVE  LET r == Reindexed(ind, done, key, its[key], new) IN
           /\ WellFormed(r)
           /\ \A k \in ItemKeys \ {key}, n \in IndexNames, v \in IndexValues :
                (k \in KeysAt(r[n], v)) <=> (k \in KeysAt(ind[n], v))
           /\ key \notin t /\ done = indexers => \A n \in IndexNames, v \in IndexValues :
                (key \in KeysAt(r[n], v)) <=> (n \in indexers /\ v \in Answer(n, new))
<1> DEFINE r == Reindexed(ind, done, key, its[key], new)
           old == its[key]
<1>1. old \in Objs \cup {NoObj}
  BY DEF GoodStore, ItemMaps
<1>2. \A n \in IndexNames :
        r[n] = (IF n \in done THEN SingleIndex(ind[n], n, key, old, new) ELSE ind[n])
  BY DEF Reindexed
<1> HIDE DEF r
<1>3. ASSUME NEW n \in IndexNames
      PROVE  /\ \A v \in DOMAIN r[n] : v \in IndexValues /\ r[n][v] \subseteq ItemKeys /\ r[n][v] # {}
             /\ \A k \in ItemKeys \ {key}, v \in IndexValues :
                  (k \in KeysAt(r[n], v)) <=> (k \in KeysAt(ind[n], v))
             /\ key \notin t /\ done = indexers => \A v \in IndexValues :
                  (key \in KeysAt(r[n], v)) <=> (n \in indexers /\ v \in Answer(n, new))
  <2>1. \A v \in DOMAIN ind[n] : v \in IndexValues /\ ind[n][v] \subseteq ItemKeys /\ ind[n][v] # {}
    BY DEF GoodStore, WellFormed
  <2>2. key \notin t => \A v \in IndexValues :
           (key \in KeysAt(ind[n], v)) <=> (n \in indexers /\ v \in Answer(n, old))
    BY DEF GoodStore, Finds
  <2>3. CASE n \notin done
    BY <1>2, <2>1, <2>2, <2>3
  <2>4. CASE n \in done
    <3>1. r[n] = SingleIndex(ind[n], n, key, old, new)
      BY <1>2, <2>4
    <3> HIDE DEF old
    <3>2. /\ \A v \in DOMAIN r[n] : v \in IndexValues /\ r[n][v] \subseteq ItemKeys /\ r[n][v] # {}
          /\ \A k \in ItemKeys \ {key}, v \in IndexValues :
               (k \in KeysAt(r[n], v)) <=> (k \in KeysAt(ind[n], v))
          /\ (\A v \in IndexValues : (key \in KeysAt(ind[n], v)) <=> (v \in Answer(n, old)))
               => \A v \in IndexValues : (key \in KeysAt(r[n], v)) <=> (v \in Answer(n, new))
      BY <1>1, <2>1, <3>1, SingleIndexMoves
    <3> QED BY <2>2, <2>4, <3>2
  <2> QED BY <2>3, <2>4
<1> QED BY <1>3 DEF r, WellFormed

\* A write that was carried out, or threw on its way: its key is torn then, and no
\* other is touched.
LEMMA WriteIsGood ==
    ASSUME NEW s, GoodStore(s.items, s.indices, s.torn, indexers),
           NEW key \in ItemKeys, NEW new \in Objs \cup {NoObj},
           NEW refusing, refusing = Refusing(s.items[key], new),
           NEW done \in Reached(refusing),
           NEW put \in Objs \cup {NoObj}, refusing = {} => put = new,
           NEW r, r = After(s, key, done, refusing, new, put)
    PROVE  GoodStore(r.items, r.indices, r.torn, indexers)
<1> DEFINE ind == Reindexed(s.indices, done, key, s.items[key], new)
<1>1. /\ r.items = [s.items EXCEPT ![key] = put]
      /\ r.indices = ind
      /\ r.torn = IF refusing = {} THEN s.torn ELSE s.torn \cup {key}
  BY DEF After
<1>2. done \in SUBSET indexers /\ (refusing = {} => done = indexers)
  BY DEF Reached
<1>3. /\ WellFormed(ind)
      /\ \A k \in ItemKeys \ {key}, n \in IndexNames, v \in IndexValues :
           (k \in KeysAt(ind[n], v)) <=> (k \in KeysAt(s.indices[n], v))
      /\ key \notin s.torn /\ done = indexers => \A n \in IndexNames, v \in IndexValues :
           (key \in KeysAt(ind[n], v)) <=> (n \in indexers /\ v \in Answer(n, new))
  BY <1>2, IndicesFollow
<1> HIDE DEF ind
<1>4. s.items \in ItemMaps /\ s.torn \subseteq ItemKeys /\ indexers \subseteq IndexNames
  BY DEF GoodStore
<1>5. /\ r.items \in ItemMaps /\ r.torn \subseteq ItemKeys
      /\ r.items[key] = put /\ \A k \in ItemKeys \ {key} : r.items[k] = s.items[k]
  BY <1>1, <1>4 DEF ItemMaps
<1>6. ASSUME NEW k \in ItemKeys \ r.torn
      PROVE  Finds(r.items, r.indices, indexers, k) /\ Accepts(r.items, indexers, k)
  <2>1. CASE k # key
    <3>1. k \in ItemKeys \ s.torn
      BY <1>1, <2>1
    <3>2. Finds(s.items, s.indices, indexers, k) /\ Accepts(s.items, indexers, k)
      BY <3>1 DEF GoodStore
    <3> QED BY <1>1, <1>3, <1>5, <2>1, <3>2 DEF Finds, Accepts
  <2>2. CASE k = key
    <3>1. refusing = {} /\ key \notin s.torn /\ put = new /\ done = indexers
      BY <1>1, <1>2, <2>2
    <3>2. Finds(r.items, r.indices, indexers, k)
      BY <1>1, <1>3, <1>5, <2>2, <3>1 DEF Finds
    <3>3. Accepts(r.items, indexers, k)
      BY <1>5, <2>2, <3>1 DEF Accepts, Refusing
    <3> QED BY <3>2, <3>3
  <2> QED BY <2>1, <2>2
<1> QED BY <1>1, <1>3, <1>4, <1>5, <1>6 DEF GoodStore

GoodOutcome(s) == GoodStore(s.items, s.indices, s.torn, indexers)

LEMMA UpdateIsGood ==
    ASSUME NEW s, GoodOutcome(s), NEW key \in ItemKeys, NEW obj \in Objs,
           NEW r \in Updated(s, key, obj)
    PROVE  GoodOutcome(r)
<1> DEFINE refusing == Refusing(s.items[key], obj)
<1>1. PICK done \in Reached(refusing) : r = After(s, key, done, refusing, obj, obj)
  BY DEF Updated
<1> HIDE DEF refusing
<1>2. refusing = Refusing(s.items[key], obj)
  BY DEF refusing
<1>3. GoodStore(s.items, s.indices, s.torn, indexers) /\ obj \in Objs \cup {NoObj}
  BY DEF GoodOutcome
<1>4. GoodStore(r.items, r.indices, r.torn, indexers)
  BY <1>1, <1>2, <1>3, WriteIsGood
<1> QED BY <1>4 DEF GoodOutcome

LEMMA RemoveIsGood ==
    ASSUME NEW s, GoodOutcome(s), NEW key \in ItemKeys, NEW r \in Removed(s, key)
    PROVE  GoodOutcome(r)
<1> DEFINE refusing == Refusing(s.items[key], NoObj)
           put == IF refusing = {} THEN NoObj ELSE s.items[key]
<1>1. CASE r = s
  BY <1>1
<1>2. CASE r # s
  <2>1. PICK done \in Reached(refusing) : r = After(s, key, done, refusing, NoObj, put)
    BY <1>2 DEF Removed
  <2>2. GoodStore(s.items, s.indices, s.torn, indexers)
    BY DEF GoodOutcome
  <2>3. put \in Objs \cup {NoObj} /\ (refusing = {} => put = NoObj)
    BY <2>2 DEF GoodStore, ItemMaps
  <2> HIDE DEF put, refusing
  <2>4. refusing = Refusing(s.items[key], NoObj)
    BY DEF refusing
  <2>5. NoObj \in Objs \cup {NoObj}
    OBVIOUS
  <2>6. GoodStore(r.items, r.indices, r.torn, indexers)
    BY <2>1, <2>2, <2>3, <2>4, <2>5, WriteIsGood
  <2> QED BY <2>6 DEF GoodOutcome
<1> QED BY <1>1, <1>2

LEMMA OperationIsGood ==
    ASSUME NEW s, GoodOutcome(s), NEW t \in ItemTxns, NEW r \in Txn1(s, t)
    PROVE  GoodOutcome(r)
<1>1. t.key \in ItemKeys /\ t.object \in Objs
  BY DEF ItemTxns
<1>2. CASE t.type = "delete"
  BY <1>1, <1>2, RemoveIsGood DEF Txn1
<1>3. CASE t.type # "delete"
  BY <1>1, <1>3, UpdateIsGood DEF Txn1
<1> QED BY <1>2, <1>3

LEMMA OutcomeIsNext ==
    ASSUME NEW s, GoodOutcome(s), Becomes(s), UNCHANGED indexers
    PROVE  IndexInv'
BY DEF GoodOutcome, Becomes, IndexInv, GoodStore, WellFormed, Finds, Accepts

----
(* Items that are indexed together.                                        *)

\* Keys that all of names have indexed are found by them, and the absent are not.
LEMMA FillIsGood ==
    ASSUME NEW its \in ItemMaps, NEW ind, WellFormed(ind), NEW names \in SUBSET IndexNames,
           NEW others \in SUBSET IndexNames, others \cap names = {},
           NEW keys, \A n \in names : keys[n] \subseteq Present(its),
           NEW t \in SUBSET ItemKeys,
           \A k \in ItemKeys \ t : /\ Finds(its, ind, others, k)
                                   /\ k \in Present(its) => \A n \in names : k \in keys[n]
    PROVE  LET r == Filled(ind, its, names, keys) IN
           /\ WellFormed(r)
           /\ \A k \in ItemKeys \ t : Finds(its, r, others \cup names, k)
<1> DEFINE under(n, v) == {k \in keys[n] : v \in Answer(n, its[k])}
           D(n) == {u \in IndexValues : u \in DOMAIN ind[n] \/ under(n, u) # {}}
           r == Filled(ind, its, names, keys)
<1>1. \A n \in IndexNames : n \notin names => r[n] = ind[n]
  BY DEF Filled
<1>2. \A n \in names : r[n] = [v \in D(n) |-> KeysAt(ind[n], v) \cup under(n, v)]
  BY DEF Filled
<1> HIDE DEF r
<1>3. \A n \in names : DOMAIN r[n] = D(n) /\ \A v \in D(n) : r[n][v] = KeysAt(ind[n], v) \cup under(n, v)
  BY <1>2
<1>4. \A n \in names : \A v \in IndexValues : KeysAt(r[n], v) = KeysAt(ind[n], v) \cup under(n, v)
  BY <1>3 DEF KeysAt
<1>5. WellFormed(r)
  <2>1. ASSUME NEW n \in names, NEW v \in DOMAIN r[n]
        PROVE  v \in IndexValues /\ r[n][v] \subseteq ItemKeys /\ r[n][v] # {}
    <3>1. v \in IndexValues /\ (v \in DOMAIN ind[n] \/ under(n, v) # {})
      BY <1>3, <2>1
    <3>2. r[n][v] = KeysAt(ind[n], v) \cup under(n, v)
      BY <1>3, <2>1
    <3>3. under(n, v) \subseteq ItemKeys
      BY DEF Present
    <3>4. KeysAt(ind[n], v) \subseteq ItemKeys /\ (v \in DOMAIN ind[n] => KeysAt(ind[n], v) # {})
      BY DEF WellFormed, KeysAt
    <3> QED BY <3>1, <3>2, <3>3, <3>4
  <2> QED BY <1>1, <2>1 DEF WellFormed
<1>6. ASSUME NEW k \in ItemKeys \ t
      PROVE  Finds(its, r, others \cup names, k)
  <2>1. ASSUME NEW n \in IndexNames, NEW v \in IndexValues
        PROVE  (k \in KeysAt(r[n], v)) <=> (n \in others \cup names /\ v \in Answer(n, its[k]))
    <3>1. (k \in KeysAt(ind[n], v)) <=> (n \in others /\ v \in Answer(n, its[k]))
      BY DEF Finds
    <3>2. CASE n \notin names
      BY <1>1, <3>1, <3>2
    <3>3. CASE n \in names
      <4>1. k \notin KeysAt(ind[n], v)
        BY <3>1, <3>3
      <4>2. k \notin Present(its) => Answer(n, its[k]) = {}
        BY DEF Present, Answer, ItemMaps
      <4>3. (k \in under(n, v)) <=> (v \in Answer(n, its[k]))
        BY <3>3, <4>2
      <4> QED BY <1>4, <3>3, <4>1, <4>3
    <3> QED BY <3>2, <3>3
  <2> QED BY <2>1 DEF Finds
<1> QED BY <1>5, <1>6 DEF r

\* The loop over all items, to its end or to the item it throws at.
LEMMA FillsAllIsGood ==
    ASSUME NEW its \in ItemMaps, NEW ind, WellFormed(ind), NEW names \in SUBSET IndexNames,
           NEW others \in SUBSET IndexNames, others \cap names = {}, NEW t \in SUBSET ItemKeys,
           \A k \in ItemKeys \ t : Finds(its, ind, others, k) /\ Accepts(its, others, k),
           FillsAll(ind, its, names)
    PROVE  GoodStore(its, indices', t, others \cup names)
<1> DEFINE keys == [n \in names |-> Present(its)]
<1>1. /\ \A k \in Present(its) : Rejected(its, names, k) = {}
      /\ indices' = Filled(ind, its, names, keys)
  BY DEF FillsAll
<1>2. \A n \in names : keys[n] = Present(its)
  OBVIOUS
<1> HIDE DEF keys
<1>3. WellFormed(indices') /\ \A k \in ItemKeys \ t : Finds(its, indices', others \cup names, k)
  <2>1. /\ \A n \in names : keys[n] \subseteq Present(its)
        /\ \A k \in ItemKeys \ t : /\ Finds(its, ind, others, k)
                                  /\ k \in Present(its) => \A n \in names : k \in keys[n]
    BY <1>2
  <2> QED BY <1>1, <2>1, FillIsGood
<1>4. \A k \in ItemKeys \ t : Accepts(its, others \cup names, k)
  BY <1>1 DEF Accepts, Rejected, Present, Errs
<1> QED BY <1>3, <1>4 DEF GoodStore

LEMMA FillThrowsIsGood ==
    ASSUME NEW its \in ItemMaps, NEW ind, WellFormed(ind), NEW names \in SUBSET IndexNames,
           NEW others \in SUBSET IndexNames, others \cap names = {}, NEW t \in SUBSET ItemKeys,
           \A k \in ItemKeys \ t : Finds(its, ind, others, k) /\ Accepts(its, others, k),
           NEW k \in Present(its), NEW keys \in SUBSET Present(its),
           FillThrows(ind, its, names, keys, k)
    PROVE  GoodStore(its, indices', t \cup (Present(its) \ keys), others \cup names)
<1> DEFINE u == t \cup (Present(its) \ keys)
<1>1. PICK done \in SUBSET (names \ Rejected(its, names, k)) :
        indices' = Filled(ind, its, names, [n \in names |-> IF n \in done THEN keys \cup {k} ELSE keys])
  BY DEF FillThrows
<1>2. \A j \in keys : Rejected(its, names, j) = {}
  BY DEF FillThrows
<1> DEFINE ks == [n \in names |-> IF n \in done THEN keys \cup {k} ELSE keys]
<1>3. \A n \in names : keys \subseteq ks[n] /\ ks[n] \subseteq Present(its)
  OBVIOUS
<1>4. indices' = Filled(ind, its, names, ks)
  BY <1>1
<1>5. u \in SUBSET ItemKeys /\ \A j \in ItemKeys \ u : j \in ItemKeys \ t /\ (j \in Present(its) => j \in keys)
  BY DEF Present
<1> HIDE DEF u, ks
<1>6. WellFormed(indices') /\ \A j \in ItemKeys \ u : Finds(its, indices', others \cup names, j)
  <2>1. /\ \A n \in names : ks[n] \subseteq Present(its)
        /\ \A j \in ItemKeys \ u : /\ Finds(its, ind, others, j)
                                  /\ j \in Present(its) => \A n \in names : j \in ks[n]
    BY <1>3, <1>5
  <2> QED BY <1>4, <1>5, <2>1, FillIsGood
<1>7. \A j \in ItemKeys \ u : Accepts(its, others \cup names, j)
  BY <1>2, <1>5 DEF Accepts, Rejected, Present, Errs
<1> QED BY <1>5, <1>6, <1>7 DEF GoodStore, u

----
LEMMA IndexStart == IndexInit => IndexInv
<1> SUFFICES ASSUME IndexInit PROVE IndexInv
  OBVIOUS
<1>1. /\ items \in ItemMaps /\ torn \subseteq ItemKeys /\ indexers \subseteq IndexNames
      /\ \A k \in ItemKeys : items[k] = NoObj
  BY DEF IndexInit, ItemMaps
<1>2. \A n \in IndexNames : DOMAIN indices[n] = {}
  BY DEF IndexInit
<1> QED
  BY <1>1, <1>2 DEF IndexInv, GoodStore, WellFormed, Finds, Accepts, KeysAt, Answer, Errs

LEMMA NoIndicesFind ==
    WellFormed(NoIndices) /\ \A its, k : Finds(its, NoIndices, {}, k) /\ Accepts(its, {}, k)
<1>1. \A n \in IndexNames : DOMAIN NoIndices[n] = {}
  BY DEF NoIndices
<1> QED BY <1>1 DEF WellFormed, Finds, Accepts, KeysAt

LEMMA IndexKept == IndexInv /\ [IndexNext]_indexVars => IndexInv'
<1> SUFFICES ASSUME IndexInv, [IndexNext]_indexVars PROVE IndexInv'
  OBVIOUS
<1>1. GoodOutcome(Now)
  BY DEF GoodOutcome, Now, IndexInv
<1>2. items \in ItemMaps /\ torn \in SUBSET ItemKeys /\ indexers \in SUBSET IndexNames /\ WellFormed(indices)
  BY DEF IndexInv, GoodStore
<1>3. ASSUME NEW k \in ItemKeys, NEW o \in Objs, UpdateItem(k, o)
      PROVE  IndexInv'
  <2>1. PICK s \in Updated(Now, k, o) : Becomes(s)
    BY <1>3 DEF UpdateItem
  <2>2. UNCHANGED indexers
    BY <1>3 DEF UpdateItem
  <2> QED BY <1>1, <2>1, <2>2, UpdateIsGood, OutcomeIsNext
<1>4. ASSUME NEW k \in ItemKeys, NEW o \in Objs \cup {NoObj}, DeleteItem(k, o)
      PROVE  IndexInv'
  <2>1. PICK s \in Removed(Now, k) : Becomes(s)
    BY <1>4 DEF DeleteItem
  <2>2. UNCHANGED indexers
    BY <1>4 DEF DeleteItem
  <2> QED BY <1>1, <2>1, <2>2, RemoveIsGood, OutcomeIsNext
<1>5. ASSUME NEW t \in ItemTxns, NEW u \in ItemTxns, Transact(t, u)
      PROVE  IndexInv'
  <2>1. PICK s \in Txn1(Now, t) : IF s.thrown THEN Becomes(s) /\ UNCHANGED storeRev
                                 ELSE \E r \in Txn1(s, u) : Becomes(r) /\ storeRev' = RevAfter(r.thrown, u.object)
    BY <1>5 DEF Transact
  <2>2. UNCHANGED indexers
    BY <1>5 DEF Transact
  <2>3. GoodOutcome(s)
    BY <1>1, OperationIsGood
  <2>4. CASE s.thrown
    BY <2>1, <2>2, <2>3, <2>4, OutcomeIsNext
  <2>5. CASE ~s.thrown
    <3>1. PICK r \in Txn1(s, u) : Becomes(r)
      BY <2>1, <2>5
    <3> QED BY <2>2, <2>3, <3>1, OperationIsGood, OutcomeIsNext
  <2> QED BY <2>4, <2>5
<1>6. ASSUME NEW its \in ItemMaps, NEW r \in ListRevs, ReplaceItems(its, r)
      PROVE  IndexInv'
  <2>1. items' = its /\ indexers' = indexers
    BY <1>6 DEF ReplaceItems
  <2>2. CASE FillsAll(NoIndices, its, indexers) /\ torn' = {}
    <3>1. GoodStore(its, indices', {}, {} \cup indexers)
      BY <1>2, <2>2, NoIndicesFind, FillsAllIsGood
    <3> QED BY <2>1, <2>2, <3>1 DEF IndexInv, GoodStore, WellFormed, Finds, Accepts
  <2>3. ASSUME NEW k \in Present(its), NEW keys \in SUBSET Present(its),
               FillThrows(NoIndices, its, indexers, keys, k), torn' = Present(its) \ keys
        PROVE  IndexInv'
    <3>1. GoodStore(its, indices', {} \cup (Present(its) \ keys), {} \cup indexers)
      BY <1>2, <2>3, NoIndicesFind, FillThrowsIsGood
    <3> QED BY <2>1, <2>3, <3>1 DEF IndexInv, GoodStore, WellFormed, Finds, Accepts
  <2> QED BY <1>6, <2>2, <2>3 DEF ReplaceItems
<1>7. ASSUME NEW names \in SUBSET IndexNames, AddIndexers(names)
      PROVE  IndexInv'
  <2>1. names \cap indexers = {} /\ indexers' = indexers \cup names /\ items' = items
    BY <1>7 DEF AddIndexers
  <2>2. \A k \in ItemKeys \ torn : Finds(items, indices, indexers, k) /\ Accepts(items, indexers, k)
    BY DEF IndexInv, GoodStore
  <2>3. CASE FillsAll(indices, items, names) /\ UNCHANGED torn
    <3>1. GoodStore(items, indices', torn, indexers \cup names)
      BY <1>2, <2>1, <2>2, <2>3, FillsAllIsGood
    <3> QED BY <2>1, <2>3, <3>1 DEF IndexInv, GoodStore, WellFormed, Finds, Accepts
  <2>4. ASSUME NEW k \in Present(items), NEW keys \in SUBSET Present(items),
               FillThrows(indices, items, names, keys, k), torn' = torn \cup (Present(items) \ keys)
        PROVE  IndexInv'
    <3>1. GoodStore(items, indices', torn \cup (Present(items) \ keys), indexers \cup names)
      BY <1>2, <2>1, <2>2, <2>4, FillThrowsIsGood
    <3> QED BY <2>1, <2>4, <3>1 DEF IndexInv, GoodStore, WellFormed, Finds, Accepts
  <2> QED BY <1>7, <2>3, <2>4 DEF AddIndexers
<1>8. ASSUME NEW r \in ListRevs, Bookmark(r)
      PROVE  IndexInv'
  BY <1>8 DEF Bookmark, IndexInv, GoodStore, WellFormed, Finds, Accepts
<1>9. CASE UNCHANGED indexVars
  BY <1>9 DEF indexVars, IndexInv, GoodStore, WellFormed, Finds, Accepts
<1> QED BY <1>3, <1>4, <1>5, <1>6, <1>7, <1>8, <1>9 DEF IndexNext

\* What the reads promise follows.
LEMMA IndexInvShows == IndexInv => IndexIsSound
<1> SUFFICES ASSUME IndexInv PROVE IndexIsSound
  OBVIOUS
<1>1. IndexTypeOK /\ NoEmptySets
  BY DEF IndexInv, GoodStore, WellFormed, IndexTypeOK, NoEmptySets, ListIndexFuncValues, IndexKeys, KeysAt
<1>2. FoundByItsValues
  BY DEF IndexInv, GoodStore, Finds, FoundByItsValues, IndexKeys
<1>3. NothingRefusesItems
  BY DEF IndexInv, GoodStore, Accepts, NothingRefusesItems, Refusing, Errs
<1>4. ASSUME NEW n \in indexers, NEW o \in Objs
      PROVE  IndexOf(n, o) \ torn =
               {k \in Present(items) \ torn : ValuesOf[n][o] \cap ValuesOf[n][items[k]] # {}}
  <2>1. n \in IndexNames /\ items \in ItemMaps
    BY DEF IndexInv, GoodStore
  <2>2. Answer(n, o) = ValuesOf[n][o] /\ Answer(n, o) \subseteq IndexValues
    BY <2>1, AnswersAreValues, IndexAssumption DEF Answer
  <2>3. \A v \in IndexValues : IndexKeys(n, v) \subseteq ItemKeys
    BY <1>1, <2>1 DEF IndexTypeOK, IndexKeys, KeysAt
  <2>4. \A k \in Present(items) : Answer(n, items[k]) = ValuesOf[n][items[k]]
    BY DEF Present, Answer
  <2>5. \A k \in ItemKeys \ torn, v \in Answer(n, o) :
            (k \in ByIndex(n, v)) <=> (k \in Present(items) /\ v \in Answer(n, items[k]))
    BY <1>2, <2>1, <2>2, <2>3 DEF FoundByItsValues, ByIndex, Present
  <2>6. \A v \in Answer(n, o) : ByIndex(n, v) \subseteq ItemKeys
    BY <2>2, <2>3 DEF ByIndex
  <2>7. Present(items) \subseteq ItemKeys
    BY DEF Present
  <2>8. \A k : (k \in IndexOf(n, o)) <=> \E v \in Answer(n, o) : k \in ByIndex(n, v)
    BY DEF IndexOf
  <2> QED BY <2>2, <2>4, <2>5, <2>6, <2>7, <2>8
<1>5. ReadsFindItems
  BY <1>4 DEF ReadsFindItems
<1> QED BY <1>1, <1>2, <1>3, <1>5 DEF IndexIsSound

\* An item of the indexed store is found under the values its index functions
\* answer for it and under no other, after any updates, transactions, lists and
\* new indexers, also when index functions fail: then only the keys whose operation
\* threw may be astray (threadSafeMap, StoreIndex).
THEOREM IndexSoundness == IndexSpec => []IndexIsSound
<1>1. IndexSpec => []IndexInv
  BY IndexStart, IndexKept, PTL DEF IndexSpec
<1> QED BY <1>1, IndexInvShows, PTL

----
(* Fifo.  The first batch stands at the head of the queue, as far as the   *)
(* counter reaches, or is in the hands of a consumer that will count it.   *)

Counts(p) == Busy(p) /\ pops[p].counted

\* What of the first list is left is still to come and within the count.
FirstIsAhead ==
    \A k \in firstBatch :
        \/ /\ k \in held
           /\ \E i \in 1 .. Len(queue) : i <= initialPopulationCount /\ queue[i] = k
        \/ \E p \in Poppers : Counts(p) /\ pops[p].key = k

CountIsRight ==
    /\ initialPopulationCount > 0 \/ synced => populated
    /\ batches = 0 => initialPopulationCount = 0
    /\ batches < 2 => initialPopulationCount <= Len(queue)
    /\ populated /\ initialPopulationCount = 0 => synced \/ \E p \in Poppers : Counts(p)

FifoInv ==
    FifoTypeOK /\ EveryItemIsQueued /\ NobodySleeps /\ SyncedIsHandled /\ FirstIsAhead /\ CountIsRight

LEMMA FifoStart == FifoInit => FifoInv
<1> SUFFICES ASSUME FifoInit PROVE FifoInv
  OBVIOUS
<1>1. \A p \in Poppers : pops[p] = NoPop
  BY DEF FifoInit
<1>2. NoPop \in PopType /\ NoPop.pc = "idle"
  BY DEF NoPop, PopType
<1>3. FifoTypeOK
  <2>1. queue \in Seq(FifoKeys) /\ held \subseteq FifoKeys /\ firstBatch \subseteq FifoKeys
    BY EmptySeq DEF FifoInit
  <2>2. initialPopulationCount \in Nat /\ batches \in 0 .. 2
    BY DEF FifoInit
  <2>3. pops \in [Poppers -> PopType]
    BY <1>2 DEF FifoInit
  <2>4. populated \in BOOLEAN /\ synced \in BOOLEAN /\ closed \in BOOLEAN
    BY Zenon DEF FifoInit
  <2> QED BY <2>1, <2>2, <2>3, <2>4 DEF FifoTypeOK
<1>4. \A p \in Poppers : pops[p].pc = "idle"
  BY <1>1, <1>2
<1> QED
  BY <1>3, <1>4 DEF FifoInv, FifoInit, EveryItemIsQueued, NobodySleeps, SyncedIsHandled, FirstIsAhead,
                    CountIsRight, Busy

\* Nobody waits when everybody was woken, and who handles an item goes on.
LEMMA BroadcastWakes ==
    ASSUME pops \in [Poppers -> PopType], LockIsFree, Broadcast
    PROVE  /\ pops' \in [Poppers -> PopType]
           /\ \A p \in Poppers : pops'[p].pc # "waiting" /\ pops'[p].pc # "busy"
<1>1. ASSUME NEW p \in Poppers
      PROVE  pops'[p] \in PopType /\ pops'[p].pc # "waiting" /\ pops'[p].pc # "busy"
  <2>1. pops[p] \in PopType /\ pops[p].pc # "busy"
    BY DEF LockIsFree, Busy
  <2>2. CASE pops[p].pc = "waiting"
    <3>1. pops'[p] = [pops[p] EXCEPT !.pc = "woken"]
      BY <2>2 DEF Broadcast
    <3> QED BY <2>1, <3>1 DEF PopType
  <2>3. CASE pops[p].pc # "waiting"
    BY <2>1, <2>3 DEF Broadcast
  <2> QED BY <2>2, <2>3
<1> QED BY <1>1 DEF Broadcast

\* Of a list that came first, everything stands within its length.
LEMMA KeysStand ==
    ASSUME NEW seq \in Seq(FifoKeys)
    PROVE  /\ KeysOf(seq) \subseteq FifoKeys
           /\ \A k \in KeysOf(seq) : \E i \in 1 .. Len(seq) : seq[i] = k
           /\ \A i \in 1 .. Len(seq) : seq[i] \in KeysOf(seq)
BY DEF KeysOf

\* While nobody handles an item, what is left of the first list is queued.
LEMMA WhenFree ==
    ASSUME FifoInv, LockIsFree
    PROVE  /\ \A k \in firstBatch : k \in held /\ \E i \in 1 .. Len(queue) :
                                      i <= initialPopulationCount /\ queue[i] = k
           /\ initialPopulationCount = 0 => firstBatch = {}
           /\ populated /\ initialPopulationCount = 0 => synced
BY DEF FifoInv, FifoTypeOK, FirstIsAhead, CountIsRight, Counts, LockIsFree

\* Checks that are made while nobody handles an item keep what synced promises.
LEMMA Checked ==
    ASSUME FifoInv, LockIsFree, synced' = CheckSynced(TRUE, initialPopulationCount)
    PROVE  /\ synced' \in BOOLEAN
           /\ synced' => firstBatch = {}
           /\ initialPopulationCount = 0 => synced'
<1>1. synced' <=> synced \/ initialPopulationCount = 0
  BY DEF CheckSynced
<1>2. synced => firstBatch = {}
  BY DEF FifoInv, SyncedIsHandled
<1>3. synced' \in BOOLEAN
  BY Zenon DEF CheckSynced
<1> QED BY <1>1, <1>2, <1>3, WhenFree

LEMMA AddKept ==
    ASSUME FifoInv, NEW k \in FifoKeys, FifoAdd(k)
    PROVE  FifoInv'
<1>1. /\ LockIsFree /\ held' = held \cup {k} /\ initialPopulationCount' = initialPopulationCount
      /\ firstBatch' = firstBatch /\ batches' = batches /\ populated' /\ Broadcast
      /\ synced' = CheckSynced(TRUE, initialPopulationCount)
  BY DEF FifoAdd
<1>2. FifoTypeOK
  BY DEF FifoInv
<1>3. queue' \in Seq(FifoKeys) /\ Len(queue') >= Len(queue)
      /\ \A i \in 1 .. Len(queue) : i <= Len(queue') /\ queue'[i] = queue[i]
  BY <1>2 DEF FifoAdd, FifoTypeOK
<1>4. \A j \in held' : \E i \in 1 .. Len(queue') : queue'[i] = j
  <2>1. \A j \in held : \E i \in 1 .. Len(queue) : queue[i] = j
    BY DEF FifoInv, EveryItemIsQueued, KeysOf
  <2>2. CASE k \in held
    BY <1>1, <2>1, <2>2 DEF FifoAdd
  <2>3. CASE k \notin held
    <3>1. queue' = Append(queue, k)
      BY <2>3 DEF FifoAdd
    <3>2. Len(queue') = Len(queue) + 1 /\ queue'[Len(queue) + 1] = k
      BY <1>2, <3>1 DEF FifoTypeOK
    <3>3. Len(queue) \in Nat
      BY <1>2 DEF FifoTypeOK
    <3> QED BY <1>1, <1>3, <2>1, <3>2, <3>3
  <2> QED BY <2>2, <2>3
<1>5. pops' \in [Poppers -> PopType] /\ \A p \in Poppers : pops'[p].pc # "waiting" /\ pops'[p].pc # "busy"
  BY <1>1, <1>2, BroadcastWakes DEF FifoTypeOK
<1>6. synced' \in BOOLEAN /\ (synced' => firstBatch = {}) /\ (initialPopulationCount = 0 => synced')
  BY <1>1, Checked
<1>7. FifoTypeOK'
  <2>1. populated' \in BOOLEAN /\ closed' \in BOOLEAN
    BY <1>2, Zenon DEF FifoAdd, FifoTypeOK
  <2> QED BY <1>1, <1>2, <1>3, <1>5, <1>6, <2>1 DEF FifoTypeOK
<1>8. EveryItemIsQueued'
  BY <1>4 DEF EveryItemIsQueued, KeysOf
<1>9. NobodySleeps' /\ SyncedIsHandled'
  BY <1>1, <1>5, <1>6 DEF NobodySleeps, SyncedIsHandled, Busy
<1>10. FirstIsAhead'
  <2>1. \A j \in firstBatch : j \in held /\ \E i \in 1 .. Len(queue) : i <= initialPopulationCount /\ queue[i] = j
    BY <1>1, WhenFree
  <2>2. \A i \in 1 .. Len(queue) : i \in 1 .. Len(queue')
    BY <1>2, <1>3 DEF FifoTypeOK
  <2> QED BY <1>1, <1>3, <2>1, <2>2 DEF FirstIsAhead
<1>11. CountIsRight'
  <2>1. Len(queue) \in Nat /\ Len(queue') \in Nat /\ initialPopulationCount \in Nat
    BY <1>2, <1>3 DEF FifoTypeOK
  <2>2. /\ batches = 0 => initialPopulationCount = 0
        /\ batches < 2 => initialPopulationCount <= Len(queue)
    BY DEF CountIsRight, FifoInv
  <2>3. batches < 2 => initialPopulationCount <= Len(queue')
    BY <1>3, <2>1, <2>2
  <2> QED BY <1>1, <1>6, <2>2, <2>3 DEF CountIsRight
<1> QED BY <1>7, <1>8, <1>9, <1>10, <1>11 DEF FifoInv

\* A step that leaves the queue and the count, while nobody handles an item.
LEMMA DeleteKept ==
    ASSUME FifoInv, NEW k \in FifoKeys, FifoDelete(k)
    PROVE  FifoInv'
<1>1. /\ LockIsFree /\ held' = held \ {k} /\ initialPopulationCount' = initialPopulationCount
      /\ firstBatch' = firstBatch \ {k} /\ batches' = batches /\ populated' /\ pops' = pops
      /\ synced' = CheckSynced(TRUE, initialPopulationCount) /\ queue' = queue
  BY DEF FifoDelete
<1>2. FifoTypeOK
  BY DEF FifoInv
<1>3. synced' \in BOOLEAN /\ (synced' => firstBatch = {}) /\ (initialPopulationCount = 0 => synced')
  BY <1>1, Checked
<1>4. FifoTypeOK'
  <2>1. populated' \in BOOLEAN /\ closed' \in BOOLEAN
    BY <1>2, Zenon DEF FifoDelete, FifoTypeOK
  <2> QED BY <1>1, <1>2, <1>3, <2>1 DEF FifoTypeOK
<1>5. \A p \in Poppers : ~Busy(p)
  BY <1>1 DEF LockIsFree
<1>6. EveryItemIsQueued'
  BY <1>1 DEF FifoInv, EveryItemIsQueued, KeysOf
<1>7. closed' = closed
  BY DEF FifoDelete
<1>8. NobodySleeps' /\ SyncedIsHandled'
  BY <1>1, <1>3, <1>5, <1>7 DEF FifoInv, NobodySleeps, SyncedIsHandled, Busy
<1>9. FirstIsAhead'
  BY <1>1, WhenFree DEF FirstIsAhead
<1>10. CountIsRight'
  BY <1>1, <1>3 DEF FifoInv, CountIsRight
<1> QED BY <1>4, <1>6, <1>8, <1>9, <1>10 DEF FifoInv

\* Whoever sleeps does so beside an empty queue, also when only that wakes them.
LEMMA WokenOrEmpty ==
    ASSUME FifoInv, LockIsFree, NEW q \in Seq(FifoKeys), queue' = q, closed' = closed,
           IF q # <<>> THEN Broadcast ELSE UNCHANGED pops
    PROVE  /\ pops' \in [Poppers -> PopType]
           /\ \A p \in Poppers : ~Busy(p)'
           /\ NobodySleeps'
<1>1. pops \in [Poppers -> PopType] /\ NobodySleeps
  BY DEF FifoInv, FifoTypeOK
<1>2. CASE q # <<>>
  BY <1>1, <1>2, BroadcastWakes DEF NobodySleeps, Busy
<1>3. CASE q = <<>>
  <2>1. pops' = pops
    BY <1>3
  <2> QED BY <1>1, <1>3, <2>1 DEF NobodySleeps, Busy, LockIsFree
<1> QED BY <1>2, <1>3

LEMMA ReplaceKept ==
    ASSUME FifoInv, NEW list \in Batches, FifoReplace(list)
    PROVE  FifoInv'
<1>1. /\ LockIsFree /\ held' = KeysOf(list) /\ queue' = list /\ closed' = closed
      /\ batches' = IF batches < 2 THEN batches + 1 ELSE batches
      /\ IF list # <<>> THEN Broadcast ELSE UNCHANGED pops
  BY DEF FifoReplace
<1>2. FifoTypeOK /\ list \in Seq(FifoKeys)
  BY FifoAssumption DEF FifoInv
<1>3. pops' \in [Poppers -> PopType] /\ (\A p \in Poppers : ~Busy(p)') /\ NobodySleeps'
  BY <1>1, <1>2, WokenOrEmpty
<1>4. EveryItemIsQueued'
  BY <1>1 DEF EveryItemIsQueued
<1>5. batches' \in 0 .. 2 /\ batches' # 0 /\ (batches' < 2 => batches = 0)
  BY <1>1, <1>2 DEF FifoTypeOK
<1>6. Len(list) \in Nat /\ KeysOf(list) \subseteq FifoKeys
      /\ \A k \in KeysOf(list) : \E i \in 1 .. Len(list) : list[i] = k
  BY <1>2, KeysStand
<1>7. CASE populated
  <2>1. firstBatch' = {} /\ populated' = populated /\ synced' = synced
        /\ initialPopulationCount' = initialPopulationCount
    BY <1>7 DEF FifoReplace
  <2>2. FifoTypeOK'
    BY <1>1, <1>2, <1>3, <1>5, <1>6, <2>1 DEF FifoTypeOK
  <2>3. SyncedIsHandled' /\ FirstIsAhead'
    BY <1>3, <2>1 DEF SyncedIsHandled, FirstIsAhead
  <2>4. CountIsRight'
    <3>1. batches = 0 => initialPopulationCount = 0
      BY DEF FifoInv, CountIsRight
    <3>2. initialPopulationCount = 0 => synced
      BY <1>1, <1>7, WhenFree
    <3> QED BY <1>1, <1>5, <1>6, <1>7, <2>1, <3>1, <3>2 DEF CountIsRight
  <2> QED BY <1>3, <1>4, <2>2, <2>3, <2>4 DEF FifoInv
<1>8. CASE ~populated
  <2>1. firstBatch' = KeysOf(list) /\ populated' /\ synced' = CheckSynced(TRUE, Len(list))
        /\ initialPopulationCount' = Len(list)
    BY <1>8 DEF FifoReplace
  <2>2. ~synced
    BY <1>8 DEF FifoInv, CountIsRight
  <2>3. synced' <=> Len(list) = 0
    BY <2>1, <2>2 DEF CheckSynced
  <2>4. populated' \in BOOLEAN /\ synced' \in BOOLEAN
    BY <1>8, <2>1, Zenon DEF FifoReplace, CheckSynced
  <2>5. FifoTypeOK'
    BY <1>1, <1>2, <1>3, <1>5, <1>6, <2>1, <2>4 DEF FifoTypeOK
  <2>6. Len(list) = 0 => KeysOf(list) = {}
    BY <1>6
  <2>7. SyncedIsHandled'
    BY <1>3, <2>1, <2>3, <2>6 DEF SyncedIsHandled
  <2>8. FirstIsAhead'
    BY <1>1, <1>6, <2>1 DEF FirstIsAhead
  <2>9. CountIsRight'
    <3>1. batches' # 0 /\ initialPopulationCount' <= Len(queue')
      BY <1>1, <1>5, <1>6, <2>1
    <3>2. initialPopulationCount' = 0 => synced'
      BY <2>1, <2>3
    <3> QED BY <2>1, <3>1, <3>2 DEF CountIsRight
  <2> QED BY <1>3, <1>4, <2>5, <2>7, <2>8, <2>9 DEF FifoInv
<1> QED BY <1>7, <1>8

LEMMA ResyncKept ==
    ASSUME FifoInv, FifoResync
    PROVE  FifoInv'
<1>1. PICK missing \in Batches \cup {<<>>} :
        KeysOf(missing) = held \ KeysOf(queue) /\ queue' = queue \o missing
  BY DEF FifoResync
<1>2. /\ LockIsFree /\ held' = held /\ initialPopulationCount' = initialPopulationCount
      /\ firstBatch' = firstBatch /\ batches' = batches /\ populated' = populated
      /\ synced' = synced /\ closed' = closed /\ IF queue' # <<>> THEN Broadcast ELSE UNCHANGED pops
  BY DEF FifoResync
<1>3. FifoTypeOK
  BY DEF FifoInv
<1>4. missing \in Seq(FifoKeys)
  BY <1>1, FifoAssumption, EmptySeq
<1>5. queue' \in Seq(FifoKeys) /\ Len(queue) \in Nat /\ Len(queue') \in Nat /\ Len(queue') >= Len(queue)
      /\ \A i \in 1 .. Len(queue) : i \in 1 .. Len(queue') /\ queue'[i] = queue[i]
  BY <1>1, <1>3, <1>4, ConcatProperties DEF FifoTypeOK
<1>6. pops' \in [Poppers -> PopType] /\ (\A p \in Poppers : ~Busy(p)') /\ NobodySleeps'
  <2> DEFINE q == queue'
  <2>1. q \in Seq(FifoKeys) /\ queue' = q /\ (IF q # <<>> THEN Broadcast ELSE UNCHANGED pops)
    BY <1>2, <1>5
  <2> HIDE DEF q
  <2> QED BY <1>2, <2>1, WokenOrEmpty
<1>7. FifoTypeOK'
  BY <1>2, <1>3, <1>5, <1>6 DEF FifoTypeOK
<1>8. EveryItemIsQueued'
  BY <1>2, <1>5 DEF FifoInv, EveryItemIsQueued, KeysOf
<1>9. SyncedIsHandled'
  BY <1>2, <1>6 DEF FifoInv, SyncedIsHandled
<1>10. FirstIsAhead'
  BY <1>2, <1>5, WhenFree DEF FirstIsAhead
<1>11. CountIsRight'
  <2>1. /\ batches = 0 => initialPopulationCount = 0
        /\ batches < 2 => initialPopulationCount <= Len(queue)
        /\ initialPopulationCount > 0 \/ synced => populated
    BY DEF CountIsRight, FifoInv
  <2>2. initialPopulationCount \in Nat
    BY <1>3 DEF FifoTypeOK
  <2>3. batches < 2 => initialPopulationCount <= Len(queue')
    BY <1>5, <2>1, <2>2
  <2> QED BY <1>2, <2>1, <2>3, WhenFree DEF CountIsRight
<1> QED BY <1>6, <1>7, <1>8, <1>9, <1>10, <1>11 DEF FifoInv

LEMMA CloseKept ==
    ASSUME FifoInv, FifoClose
    PROVE  FifoInv'
<1>1. /\ LockIsFree /\ held' = held /\ initialPopulationCount' = initialPopulationCount /\ queue' = queue
      /\ firstBatch' = firstBatch /\ batches' = batches /\ populated' = populated
      /\ synced' = synced /\ Broadcast
  BY DEF FifoClose
<1>2. FifoTypeOK
  BY DEF FifoInv
<1>3. pops' \in [Poppers -> PopType] /\ \A p \in Poppers : pops'[p].pc # "waiting" /\ pops'[p].pc # "busy"
  BY <1>1, <1>2, BroadcastWakes DEF FifoTypeOK
<1>4. FifoTypeOK'
  <2>1. closed' \in BOOLEAN
    BY Zenon DEF FifoClose
  <2> QED BY <1>1, <1>2, <1>3, <2>1 DEF FifoTypeOK
<1>5. EveryItemIsQueued'
  BY <1>1 DEF FifoInv, EveryItemIsQueued, KeysOf
<1>6. NobodySleeps' /\ SyncedIsHandled'
  BY <1>1, <1>3 DEF FifoInv, NobodySleeps, SyncedIsHandled, Busy
<1>7. FirstIsAhead'
  BY <1>1, WhenFree DEF FirstIsAhead
<1>8. CountIsRight'
  BY <1>1, WhenFree DEF FifoInv, CountIsRight
<1> QED BY <1>4, <1>5, <1>6, <1>7, <1>8 DEF FifoInv

----
(* pop.                                                                    *)

\* The count of what was shifted keeps CountIsRight, unless the last one counted.
LEMMA CountAfterShift ==
    ASSUME FifoInv, LockIsFree, NEW n \in 0 .. Len(queue),
           initialPopulationCount' = AtLeast0(initialPopulationCount - n),
           synced' => synced \/ initialPopulationCount > 0,
           synced => synced', populated' = populated, batches' = batches,
           Len(queue') = Len(queue) - n,
           0 < initialPopulationCount /\ initialPopulationCount <= n
             => synced' \/ \E p \in Poppers : Counts(p)'
    PROVE  CountIsRight' /\ initialPopulationCount' \in Nat
<1>1. initialPopulationCount \in Nat /\ Len(queue) \in Nat
  BY DEF FifoInv, FifoTypeOK
<1>2. initialPopulationCount' = IF initialPopulationCount > n THEN initialPopulationCount - n ELSE 0
  BY <1>1 DEF AtLeast0
<1>3. initialPopulationCount > 0 \/ synced => populated
  BY DEF FifoInv, CountIsRight
<1>4. initialPopulationCount' > 0 \/ synced' => populated'
  BY <1>1, <1>2, <1>3
<1>5. batches' = 0 => initialPopulationCount' = 0
  BY <1>1, <1>2 DEF FifoInv, CountIsRight
<1>6. batches' < 2 => initialPopulationCount' <= Len(queue')
  <2>1. batches < 2 => initialPopulationCount <= Len(queue)
    BY DEF FifoInv, CountIsRight
  <2> QED BY <1>1, <1>2, <2>1
<1>7. ASSUME populated', initialPopulationCount' = 0
      PROVE  synced' \/ \E p \in Poppers : Counts(p)'
  <2>1. initialPopulationCount <= n
    BY <1>1, <1>2, <1>7
  <2>2. CASE initialPopulationCount = 0
    BY <1>7, <2>2, WhenFree
  <2>3. CASE initialPopulationCount > 0
    BY <2>1, <2>3
  <2> QED BY <1>1, <2>2, <2>3
<1> QED BY <1>1, <1>2, <1>4, <1>5, <1>6, <1>7 DEF CountIsRight

\* Nothing in the queue is held: the consumer waits, or ends.
PopNothing(p) ==
    /\ \A i \in 1 .. Len(queue) : queue[i] \notin held
    /\ Skips(Len(queue)) /\ queue' = <<>>
    /\ initialPopulationCount' = AtLeast0(initialPopulationCount - Len(queue))
    /\ pops' = [pops EXCEPT ![p] = IF closed THEN NoPop ELSE [NoPop EXCEPT !.pc = "waiting"]]
    /\ UNCHANGED held

\* The first i - 1 keys are not, and then one is.
PopItem(p, i) ==
    /\ queue[i] \in held /\ \A j \in 1 .. i - 1 : queue[j] \notin held
    /\ Skips(i - 1) /\ queue' = SubSeq(queue, i + 1, Len(queue))
    /\ initialPopulationCount' = AtLeast0(initialPopulationCount - i)
    /\ held' = held \ {queue[i]}
    /\ pops' = [pops EXCEPT ![p] = [pc |-> "busy", key |-> queue[i], initial |-> ~synced',
                                    counted |-> initialPopulationCount >= i]]

LEMMA PopIsEither ==
    ASSUME NEW p \in Poppers, Pop(p)
    PROVE  /\ LockIsFree /\ UNCHANGED <<populated, closed, firstBatch, batches>>
           /\ PopNothing(p) \/ \E i \in 1 .. Len(queue) : PopItem(p, i)
BY Zenon DEF Pop, PopNothing, PopItem

LEMMA PopNothingKept ==
    ASSUME FifoInv, NEW p \in Poppers, LockIsFree, UNCHANGED <<populated, closed, firstBatch, batches>>,
           PopNothing(p)
    PROVE  FifoInv'
<1>1. FifoTypeOK
  BY DEF FifoInv
<1>2. held = {} /\ firstBatch = {}
  <2>1. held = {}
    BY DEF FifoInv, EveryItemIsQueued, KeysOf, PopNothing
  <2> QED BY <2>1, WhenFree
<1>3. queue' = <<>> /\ held' = {} /\ Len(queue') = 0 /\ queue' \in Seq(FifoKeys)
  BY <1>2, EmptySeq DEF PopNothing
<1>4. (synced' <=> synced \/ (initialPopulationCount > 0 /\ initialPopulationCount <= Len(queue)))
      /\ synced' \in BOOLEAN
  BY DEF PopNothing, Skips
<1>5. /\ pops' \in [Poppers -> PopType]
      /\ \A q \in Poppers : pops'[q].pc # "busy" /\ (pops'[q].pc = "waiting" => ~closed)
  <2> DEFINE new == IF closed THEN NoPop ELSE [NoPop EXCEPT !.pc = "waiting"]
  <2>1. pops' = [pops EXCEPT ![p] = new]
    BY DEF PopNothing
  <2>2. new \in PopType /\ new.pc # "busy" /\ (new.pc = "waiting" => ~closed)
    BY DEF NoPop, PopType
  <2>3. \A q \in Poppers : pops[q].pc # "busy" /\ (pops[q].pc = "waiting" => ~closed)
    BY DEF LockIsFree, Busy, FifoInv, NobodySleeps
  <2> HIDE DEF new
  <2>4. pops \in [Poppers -> PopType]
    BY <1>1 DEF FifoTypeOK
  <2> QED BY <2>1, <2>2, <2>3, <2>4
<1>6. CountIsRight' /\ initialPopulationCount' \in Nat
  <2> DEFINE n == Len(queue)
  <2>1. n \in 0 .. Len(queue) /\ Len(queue') = Len(queue) - n
    BY <1>1, <1>3 DEF FifoTypeOK
  <2>2. initialPopulationCount' = AtLeast0(initialPopulationCount - n)
    BY DEF PopNothing
  <2>3. initialPopulationCount \in Nat
    BY <1>1 DEF FifoTypeOK
  <2>4. /\ synced' => synced \/ initialPopulationCount > 0
        /\ synced => synced'
        /\ 0 < initialPopulationCount /\ initialPopulationCount <= n => synced'
    BY <1>4, <2>3
  <2> HIDE DEF n
  <2> QED BY <2>1, <2>2, <2>4, CountAfterShift
<1>7. FifoTypeOK'
  BY <1>1, <1>2, <1>3, <1>4, <1>5, <1>6 DEF FifoTypeOK
<1>8. EveryItemIsQueued' /\ NobodySleeps' /\ SyncedIsHandled' /\ FirstIsAhead'
  BY <1>2, <1>3, <1>5 DEF EveryItemIsQueued, NobodySleeps, SyncedIsHandled, FirstIsAhead, Busy
<1> QED BY <1>6, <1>7, <1>8 DEF FifoInv

LEMMA PopItemKept ==
    ASSUME FifoInv, NEW p \in Poppers, LockIsFree, UNCHANGED <<populated, closed, firstBatch, batches>>,
           NEW i \in 1 .. Len(queue), PopItem(p, i)
    PROVE  FifoInv'
<1>1. FifoTypeOK /\ queue \in Seq(FifoKeys) /\ Len(queue) \in Nat /\ initialPopulationCount \in Nat
  BY DEF FifoInv, FifoTypeOK
<1>2. /\ queue[i] \in held /\ \A j \in 1 .. i - 1 : queue[j] \notin held
      /\ held' = held \ {queue[i]}
  BY DEF PopItem
<1>3. /\ queue' \in Seq(FifoKeys) /\ Len(queue') = Len(queue) - i
      /\ \A j \in i + 1 .. Len(queue) : j - i \in 1 .. Len(queue') /\ queue'[j - i] = queue[j]
  <2>1. queue' = SubSeq(queue, i + 1, Len(queue))
    BY DEF PopItem
  <2> QED BY <1>1, <2>1, SubSeqProperties
<1>4. \A j \in 1 .. Len(queue) : queue[j] \in held' => j \in i + 1 .. Len(queue)
  BY <1>1, <1>2
<1>5. (synced' <=> synced \/ (initialPopulationCount > 0 /\ initialPopulationCount <= i - 1))
      /\ synced' \in BOOLEAN
  BY DEF PopItem, Skips
<1>6. /\ pops' \in [Poppers -> PopType]
      /\ pops'[p].pc = "busy" /\ pops'[p].key = queue[i]
      /\ pops'[p].initial <=> ~synced'
      /\ pops'[p].counted <=> initialPopulationCount >= i
      /\ \A q \in Poppers : q # p => pops'[q] = pops[q]
  <2> DEFINE f == ~synced'
             g == initialPopulationCount >= i
             new == [pc |-> "busy", key |-> queue[i], initial |-> f, counted |-> g]
  <2>1. pops' = [pops EXCEPT ![p] = new]
    BY DEF PopItem
  <2>2. f \in BOOLEAN /\ g \in BOOLEAN
    OBVIOUS
  <2>3. queue[i] \in FifoKeys
    BY <1>1
  <2>4. (f <=> ~synced') /\ (g <=> initialPopulationCount >= i)
    OBVIOUS
  <2> HIDE DEF f, g
  <2>5. new \in PopType /\ new.pc = "busy" /\ new.key = queue[i] /\ (new.initial <=> f) /\ (new.counted <=> g)
    BY <2>2, <2>3 DEF PopType
  <2> HIDE DEF new
  <2>6. pops \in [Poppers -> PopType]
    BY <1>1 DEF FifoTypeOK
  <2>7. pops'[p] = new /\ pops' \in [Poppers -> PopType] /\ \A q \in Poppers : q # p => pops'[q] = pops[q]
    BY <2>1, <2>5, <2>6
  <2> QED BY <2>4, <2>5, <2>7
<1>7. \A q \in Poppers : q # p => pops'[q].pc # "busy"
  BY <1>6 DEF LockIsFree, Busy
<1>8. EveryItemIsQueued'
  <2>1. ASSUME NEW k \in held' PROVE \E j \in 1 .. Len(queue') : queue'[j] = k
    <3>1. PICK j \in 1 .. Len(queue) : queue[j] = k
      BY <1>2 DEF FifoInv, EveryItemIsQueued, KeysOf
    <3>2. j \in i + 1 .. Len(queue)
      BY <1>4, <3>1
    <3> QED BY <1>3, <3>1, <3>2
  <2> QED BY <2>1 DEF EveryItemIsQueued, KeysOf
\* What is left of the first list keeps its place within the count, and the one
\* that was popped counts.
<1>9. ASSUME NEW k \in firstBatch
      PROVE  /\ initialPopulationCount > i - 1 /\ k \in held
             /\ k = queue[i] => initialPopulationCount >= i
             /\ k # queue[i] => \E j \in 1 .. Len(queue') : j <= initialPopulationCount - i /\ queue'[j] = k
  <2>1. k \in held /\ \E j \in 1 .. Len(queue) : j <= initialPopulationCount /\ queue[j] = k
    BY WhenFree
  <2>2. PICK j \in 1 .. Len(queue) : j <= initialPopulationCount /\ queue[j] = k
    BY <2>1
  <2>3. j >= i
    BY <1>1, <1>2, <2>1, <2>2
  <2>4. CASE k = queue[i]
    BY <1>1, <2>1, <2>2, <2>3, <2>4
  <2>5. CASE k # queue[i]
    <3>1. j \in i + 1 .. Len(queue)
      BY <1>1, <2>2, <2>3, <2>5
    <3>2. j - i \in 1 .. Len(queue') /\ queue'[j - i] = k
      BY <1>3, <2>2, <3>1
    <3>3. j - i <= initialPopulationCount - i
      BY <1>1, <2>2
    <3> QED BY <1>1, <2>1, <2>2, <2>3, <2>5, <3>2, <3>3
  <2> QED BY <2>4, <2>5
<1>10. synced' => firstBatch = {}
  <2>1. synced => firstBatch = {}
    BY DEF FifoInv, SyncedIsHandled
  <2> QED BY <1>1, <1>5, <1>9, <2>1
<1>11. NobodySleeps'
  <2>1. queue # <<>>
    BY <1>1
  <2>2. \A q \in Poppers : pops[q].pc # "waiting"
    BY <2>1 DEF FifoInv, NobodySleeps
  <2> QED BY <1>6, <1>7, <2>2 DEF NobodySleeps, Busy
<1>12. SyncedIsHandled'
  BY <1>6, <1>7, <1>10 DEF SyncedIsHandled, Busy
<1>13. initialPopulationCount' = AtLeast0(initialPopulationCount - i)
  BY DEF PopItem
<1>14. FirstIsAhead'
  <2>1. ASSUME NEW k \in firstBatch
        PROVE  \/ /\ k \in held'
                  /\ \E j \in 1 .. Len(queue') : j <= initialPopulationCount' /\ queue'[j] = k
               \/ \E q \in Poppers : Counts(q)' /\ pops'[q].key = k
    <3>1. CASE k = queue[i]
      <4>1. pops'[p].counted /\ pops'[p].pc = "busy" /\ pops'[p].key = k
        BY <1>6, <1>9, <3>1
      <4> QED BY <4>1 DEF Counts, Busy
    <3>2. CASE k # queue[i]
      <4>1. PICK j \in 1 .. Len(queue') : j <= initialPopulationCount - i /\ queue'[j] = k
        BY <1>9, <3>2
      <4>2. j <= initialPopulationCount'
        BY <1>1, <1>3, <1>13, <4>1 DEF AtLeast0
      <4> QED BY <1>2, <1>9, <3>2, <4>1, <4>2
    <3> QED BY <3>1, <3>2
  <2> QED BY <2>1 DEF FirstIsAhead
<1>15. CountIsRight' /\ initialPopulationCount' \in Nat
  <2>1. /\ synced' => synced \/ initialPopulationCount > 0
        /\ synced => synced'
    BY <1>5
  <2>2. ASSUME 0 < initialPopulationCount, initialPopulationCount <= i
        PROVE  synced' \/ \E q \in Poppers : Counts(q)'
    <3>1. CASE initialPopulationCount <= i - 1
      BY <1>5, <2>2, <3>1
    <3>2. CASE initialPopulationCount >= i
      <4>1. pops'[p].counted /\ pops'[p].pc = "busy"
        BY <1>6, <3>2
      <4> QED BY <4>1 DEF Counts, Busy
    <3> QED BY <1>1, <3>1, <3>2
  <2>3. i \in 0 .. Len(queue)
    BY <1>1
  <2> QED BY <1>3, <1>13, <2>1, <2>2, <2>3, CountAfterShift
<1>16. FifoTypeOK'
  BY <1>1, <1>2, <1>3, <1>5, <1>6, <1>15 DEF FifoTypeOK
<1> QED BY <1>8, <1>11, <1>12, <1>14, <1>15, <1>16 DEF FifoInv

LEMMA PopEndsKept ==
    ASSUME FifoInv, NEW p \in Poppers, PopEnds(p)
    PROVE  FifoInv'
<1>1. /\ Busy(p) /\ UNCHANGED <<held, queue, populated, initialPopulationCount, closed, batches>>
      /\ firstBatch' = firstBatch \ {pops[p].key} /\ pops' = [pops EXCEPT ![p] = NoPop]
  BY DEF PopEnds
<1>2. FifoTypeOK /\ pops \in [Poppers -> PopType]
  BY DEF FifoInv, FifoTypeOK
<1>3. \A q \in Poppers \ {p} : ~Busy(q)
  BY <1>1 DEF FifoInv, NobodySleeps
<1>4. NoPop \in PopType /\ NoPop.pc = "idle"
  BY DEF NoPop, PopType
<1>5. /\ pops' \in [Poppers -> PopType] /\ pops'[p].pc = "idle"
      /\ \A q \in Poppers : q # p => pops'[q] = pops[q]
  BY <1>1, <1>2, <1>4
<1>6. \A q \in Poppers : ~Busy(q)'
  BY <1>3, <1>5 DEF Busy
<1>7. \A k \in firstBatch' : k \in held /\ \E i \in 1 .. Len(queue) : i <= initialPopulationCount /\ queue[i] = k
  BY <1>1, <1>3 DEF FifoInv, FirstIsAhead, Counts
<1>8. /\ pops[p].counted => (synced' <=> synced \/ (populated /\ initialPopulationCount = 0))
      /\ ~pops[p].counted => (synced' <=> synced)
  BY DEF PopEnds, CheckSynced
<1>9. synced' \in BOOLEAN
  BY <1>2, Zenon DEF PopEnds, CheckSynced, FifoTypeOK
<1>10. FifoTypeOK'
  BY <1>1, <1>2, <1>5, <1>9 DEF FifoTypeOK
<1>11. EveryItemIsQueued'
  BY <1>1 DEF FifoInv, EveryItemIsQueued, KeysOf
<1>12. NobodySleeps'
  BY <1>1, <1>5, <1>6 DEF FifoInv, NobodySleeps
<1>13. initialPopulationCount = 0 => firstBatch' = {}
  BY <1>7
<1>14. SyncedIsHandled'
  <2>1. synced => firstBatch = {}
    BY DEF FifoInv, SyncedIsHandled
  <2>2. synced' => firstBatch' = {}
    BY <1>1, <1>8, <1>13, <2>1
  <2> QED BY <1>6, <2>2 DEF SyncedIsHandled
<1>15. FirstIsAhead'
  BY <1>1, <1>7 DEF FirstIsAhead
<1>16. CountIsRight'
  <2>1. /\ initialPopulationCount > 0 \/ synced => populated
        /\ batches = 0 => initialPopulationCount = 0
        /\ batches < 2 => initialPopulationCount <= Len(queue)
        /\ populated /\ initialPopulationCount = 0 => synced \/ pops[p].counted
    BY <1>3 DEF FifoInv, CountIsRight, Counts
  <2> QED BY <1>1, <1>8, <2>1 DEF CountIsRight
<1> QED BY <1>10, <1>11, <1>12, <1>14, <1>15, <1>16 DEF FifoInv

LEMMA FifoKept == FifoInv /\ [FifoNext]_fifoVars => FifoInv'
<1> SUFFICES ASSUME FifoInv, [FifoNext]_fifoVars PROVE FifoInv'
  OBVIOUS
<1>1. ASSUME NEW p \in Poppers, Pop(p) PROVE FifoInv'
  BY <1>1, PopIsEither, PopNothingKept, PopItemKept
<1>2. CASE UNCHANGED fifoVars
  BY <1>2 DEF fifoVars, FifoInv, FifoTypeOK, EveryItemIsQueued, NobodySleeps, SyncedIsHandled,
              FirstIsAhead, CountIsRight, Counts, Busy, KeysOf
<1> QED
  BY <1>1, <1>2, AddKept, DeleteKept, ReplaceKept, ResyncKept, CloseKept, PopEndsKept DEF FifoNext

LEMMA FifoInvShows == FifoInv => FifoIsSound
<1> SUFFICES ASSUME FifoInv, populated, batches < 2, queue = <<>>, LockIsFree
             PROVE  synced
  BY DEF FifoInv, FifoIsSound, HandledIsSynced
<1>1. initialPopulationCount \in Nat /\ initialPopulationCount <= 0
  BY EmptySeq DEF FifoInv, FifoTypeOK, CountIsRight
<1> QED BY <1>1, WhenFree

\* A FIFO of client-go pops what it holds; no consumer sleeps beside an item, or
\* after close(); hasSynced() is true only when the first list was handled, and then
\* is, however items are deleted and added again in between (fifo.ts).
THEOREM FifoSoundness == FifoSpec => []FifoIsSound
<1>1. FifoSpec => []FifoInv
  BY FifoStart, FifoKept, PTL DEF FifoSpec
<1> QED BY <1>1, FifoInvShows, PTL

----
(* The order of the queue.                                                 *)

First(seq, k) ==
    CHOOSE i \in 1 .. Len(seq) : seq[i] = k /\ \A j \in 1 .. i - 1 : seq[j] # k

LEMMA LeastElement ==
    ASSUME NEW S \in SUBSET Nat, S # {}
    PROVE  \E i \in S : \A j \in S : i <= j
<1>1. PICK i \in S : \A j \in S : ~(<<j, i>> \in OpToRel(<, Nat))
  BY NatLessThanWellFounded, WFMin
<1>2. \A j \in S : ~(j < i)
  BY <1>1 DEF OpToRel
<1> QED BY <1>2

LEMMA FirstExists ==
    ASSUME NEW seq, Len(seq) \in Nat, NEW k, \E i \in 1 .. Len(seq) : seq[i] = k
    PROVE  /\ First(seq, k) \in 1 .. Len(seq) /\ seq[First(seq, k)] = k
           /\ \A j \in 1 .. First(seq, k) - 1 : seq[j] # k
<1> DEFINE S == {i \in 1 .. Len(seq) : seq[i] = k}
<1>1. S \in SUBSET Nat /\ S # {}
  OBVIOUS
<1> HIDE DEF S
<1>2. PICK i \in S : \A j \in S : i <= j
  BY <1>1, LeastElement
<1>3. i \in 1 .. Len(seq) /\ seq[i] = k /\ \A j \in 1 .. i - 1 : seq[j] # k
  BY <1>2 DEF S
<1> QED BY <1>3 DEF First

LEMMA FirstIsUnique ==
    ASSUME NEW seq, Len(seq) \in Nat, NEW k, NEW i \in 1 .. Len(seq), seq[i] = k,
           \A j \in 1 .. i - 1 : seq[j] # k
    PROVE  First(seq, k) = i
<1>1. /\ First(seq, k) \in 1 .. Len(seq) /\ seq[First(seq, k)] = k
      /\ \A j \in 1 .. First(seq, k) - 1 : seq[j] # k
  BY FirstExists
<1>2. ~(First(seq, k) < i) /\ ~(i < First(seq, k))
  BY <1>1
<1> QED BY <1>1, <1>2

\* A queue that only grew at its end.
LEMMA GrownKeepsTheLine ==
    ASSUME FifoInv, Len(queue') \in Nat, Len(queue) <= Len(queue'),
           \A i \in 1 .. Len(queue) : queue'[i] = queue[i]
    PROVE  KeepsTheLine
<1>1. Len(queue) \in Nat
  BY DEF FifoInv, FifoTypeOK
<1>2. ASSUME NEW k \in held PROVE Stands(k)' = Stands(k)
  <2>1. \E i \in 1 .. Len(queue) : queue[i] = k
    BY DEF FifoInv, EveryItemIsQueued, KeysOf
  <2> DEFINE f == First(queue, k)
  <2>2. f \in 1 .. Len(queue) /\ queue[f] = k /\ \A j \in 1 .. f - 1 : queue[j] # k
    BY <1>1, <2>1, FirstExists
  <2> HIDE DEF f
  <2>3. f \in 1 .. Len(queue') /\ queue'[f] = k /\ \A j \in 1 .. f - 1 : queue'[j] # k
    BY <1>1, <2>2
  <2>4. First(queue', k) = f
    BY <2>3, FirstIsUnique
  <2> QED BY <2>4 DEF Stands, First, f
<1> QED BY <1>2 DEF KeepsTheLine

LEMMA PopKeepsTheLine ==
    ASSUME FifoInv, NEW p \in Poppers, NEW i \in 1 .. Len(queue), PopItem(p, i)
    PROVE  KeepsTheLine
<1>1. queue \in Seq(FifoKeys) /\ Len(queue) \in Nat
  BY DEF FifoInv, FifoTypeOK
<1>2. /\ queue[i] \in held /\ \A j \in 1 .. i - 1 : queue[j] \notin held
      /\ held' = held \ {queue[i]} /\ queue' = SubSeq(queue, i + 1, Len(queue))
  BY DEF PopItem
<1> DEFINE rest == SubSeq(queue, i + 1, Len(queue))
<1>3. Len(rest) = Len(queue) - i
  BY <1>1, SubSeqProperties
<1>4. \A j \in 1 .. Len(queue) - i : rest[j] = queue[j + i]
  BY <1>1
<1>5. Len(queue') = Len(queue) - i /\ \A j \in 1 .. Len(queue') : queue'[j] = queue[j + i]
  BY <1>2, <1>3, <1>4
<1> HIDE DEF rest
<1>6. ASSUME NEW k \in held \cap held'
      PROVE  Stands(k)' = Stands(k) - i /\ Stands(k) \in Nat
  <2>1. \E j \in 1 .. Len(queue) : queue[j] = k
    BY DEF FifoInv, EveryItemIsQueued, KeysOf
  <2> DEFINE f == First(queue, k)
  <2>2. f \in 1 .. Len(queue) /\ queue[f] = k /\ \A j \in 1 .. f - 1 : queue[j] # k
    BY <1>1, <2>1, FirstExists
  <2> HIDE DEF f
  <2>3. f > i
    BY <1>1, <1>2, <2>2
  <2>4. /\ f - i \in 1 .. Len(queue') /\ queue'[f - i] = k
        /\ \A j \in 1 .. (f - i) - 1 : queue'[j] # k
    BY <1>1, <1>5, <2>2, <2>3
  <2> DEFINE g == f - i
  <2>5. /\ Len(queue') \in Nat /\ g \in 1 .. Len(queue') /\ queue'[g] = k
        /\ \A j \in 1 .. g - 1 : queue'[j] # k
    BY <1>1, <1>5, <2>4
  <2> HIDE DEF g
  <2>6. First(queue', k) = g
    BY <2>5, FirstIsUnique
  <2> QED BY <2>2, <2>6 DEF Stands, First, f, g
<1> QED BY <1>1, <1>6 DEF KeepsTheLine

LEMMA LineIsKept == FifoInv /\ FifoNext => KeepsTheLine
<1> SUFFICES ASSUME FifoInv, FifoNext PROVE KeepsTheLine
  OBVIOUS
<1>1. queue \in Seq(FifoKeys) /\ Len(queue) \in Nat
  BY DEF FifoInv, FifoTypeOK
<1>2. ASSUME queue' = queue PROVE KeepsTheLine
  BY <1>1, <1>2, GrownKeepsTheLine
<1>3. ASSUME NEW k \in FifoKeys, FifoAdd(k) PROVE KeepsTheLine
  <2>1. queue' = queue \/ queue' = Append(queue, k)
    BY <1>3 DEF FifoAdd
  <2>2. CASE queue' = Append(queue, k)
    <3>1. Len(queue') = Len(queue) + 1 /\ \A i \in 1 .. Len(queue) : queue'[i] = queue[i]
      BY <1>1, <2>2
    <3> QED BY <1>1, <3>1, GrownKeepsTheLine
  <2> QED BY <1>2, <2>1, <2>2
<1>4. ASSUME NEW k \in FifoKeys, FifoDelete(k) PROVE KeepsTheLine
  BY <1>2, <1>4 DEF FifoDelete
<1>5. ASSUME NEW list \in Batches, FifoReplace(list) PROVE KeepsTheLine
  BY <1>5, Zenon DEF KeepsTheLine
<1>6. ASSUME FifoResync PROVE KeepsTheLine
  <2>1. PICK missing \in Batches \cup {<<>>} : queue' = queue \o missing
    BY <1>6 DEF FifoResync
  <2>2. missing \in Seq(FifoKeys)
    BY <2>1, FifoAssumption, EmptySeq
  <2>3. Len(queue') \in Nat /\ Len(queue) <= Len(queue') /\ \A i \in 1 .. Len(queue) : queue'[i] = queue[i]
    BY <1>1, <2>1, <2>2, ConcatProperties
  <2> QED BY <2>3, GrownKeepsTheLine
<1>7. ASSUME FifoClose PROVE KeepsTheLine
  BY <1>2, <1>7 DEF FifoClose
<1>8. ASSUME NEW p \in Poppers, Pop(p) PROVE KeepsTheLine
  <2>1. CASE PopNothing(p)
    <3>1. held = {}
      BY <2>1 DEF FifoInv, EveryItemIsQueued, KeysOf, PopNothing
    <3> QED BY <3>1 DEF KeepsTheLine
  <2> QED BY <1>8, <2>1, PopIsEither, PopKeepsTheLine
<1>9. ASSUME NEW p \in Poppers, PopEnds(p) PROVE KeepsTheLine
  BY <1>2, <1>9 DEF PopEnds
<1> QED BY <1>3, <1>4, <1>5, <1>6, <1>7, <1>8, <1>9 DEF FifoNext

\* Two items that stay keep their order in the queue, whatever is added, deleted,
\* popped or queued again, unless a list replaces them (fifo.ts).
THEOREM NothingJumpsTheQueue == FifoSpec => [][KeepsTheLine]_fifoVars
<1>1. FifoSpec => []FifoInv
  BY FifoStart, FifoKept, PTL DEF FifoSpec
<1>2. FifoInv /\ [FifoNext]_fifoVars => [KeepsTheLine]_fifoVars
  BY LineIsKept
<1> QED BY <1>1, <1>2, PTL DEF FifoSpec

----
\* What holds of 0 and of the next number holds of every number.
LEMMA SetInduction ==
    ASSUME NEW S, 0 \in S, \A n \in Nat : n \in S => n + 1 \in S
    PROVE  Nat \subseteq S
<1> SUFFICES ASSUME Nat \ S # {} PROVE FALSE
  OBVIOUS
<1>1. PICK i \in Nat \ S : \A j \in Nat \ S : i <= j
  BY LeastElement
<1>2. i # 0 /\ i - 1 \in Nat /\ i - 1 \in S
  BY <1>1
<1> QED BY <1>1, <1>2

----
(* Informer: a watch that delivers everything from where the cache is good. *)

\* What a watch does with the events of revisions a to last.
Rounds(h, a, last, from, f) ==
    f = [r \in a - 1 .. last |-> IF r < a THEN from ELSE Watched(f[r - 1], h[r], r)]

LEMMA FollowingIsDefined ==
    ASSUME NEW h, NEW a \in Int, NEW last \in Int, a - 1 <= last, NEW from
    PROVE  \E f : Rounds(h, a, last, from, f) /\ Followed(h, a, last, from) = f[last]
<1> DEFINE S == {m \in Nat : \E f : Rounds(h, a, a + m - 1, from, f)}
<1>1. 0 \in S
  <2> DEFINE f == [r \in a - 1 .. a - 1 |-> from]
  <2>1. Rounds(h, a, a + 0 - 1, from, f)
    BY DEF Rounds
  <2> QED BY <2>1
<1>2. ASSUME NEW m \in Nat, m \in S PROVE m + 1 \in S
  <2>1. PICK f : Rounds(h, a, a + m - 1, from, f)
    BY <1>2
  <2> DEFINE g == [r \in a - 1 .. a + (m + 1) - 1 |->
                     IF r < a + m THEN f[r] ELSE Watched(f[r - 1], h[r], r)]
  <2>2. ASSUME NEW r \in a - 1 .. a + (m + 1) - 1
        PROVE  g[r] = IF r < a THEN from ELSE Watched(g[r - 1], h[r], r)
    <3>1. CASE r < a
      <4>1. r \in a - 1 .. a + m - 1 /\ r < a + m
        BY <3>1
      <4>2. f[r] = from
        BY <2>1, <3>1, <4>1 DEF Rounds
      <4> QED BY <3>1, <4>1, <4>2
    <3>2. CASE ~(r < a) /\ r < a + m
      <4>1. r \in a - 1 .. a + m - 1 /\ r - 1 \in a - 1 .. a + (m + 1) - 1 /\ r - 1 < a + m
        BY <3>2
      <4>2. f[r] = Watched(f[r - 1], h[r], r)
        BY <2>1, <3>2, <4>1 DEF Rounds
      <4>3. g[r - 1] = f[r - 1] /\ g[r] = f[r]
        BY <3>2, <4>1
      <4> QED BY <3>2, <4>2, <4>3
    <3>3. CASE ~(r < a) /\ ~(r < a + m)
      <4>1. r - 1 \in a - 1 .. a + (m + 1) - 1 /\ r - 1 < a + m
        BY <3>3
      <4>2. g[r - 1] = f[r - 1] /\ g[r] = Watched(f[r - 1], h[r], r)
        BY <3>3, <4>1
      <4> QED BY <3>3, <4>2
    <3> QED BY <3>1, <3>2, <3>3
  <2>3. Rounds(h, a, a + (m + 1) - 1, from, g)
    <3> HIDE DEF g
    <3>1. g = [r \in a - 1 .. a + (m + 1) - 1 |-> g[r]]
      BY DEF g
    <3> QED BY <2>2, <3>1 DEF Rounds
  <2> QED BY <2>3
<1>3. \E f : Rounds(h, a, last, from, f)
  <2>1. PICK m \in Nat : a + m - 1 = last
    <3>1. last - (a - 1) \in Nat /\ a + (last - (a - 1)) - 1 = last
      OBVIOUS
    <3> QED BY <3>1
  <2> HIDE DEF S
  <2>2. m \in S
    BY <1>1, <1>2, SetInduction
  <2>3. \E f : Rounds(h, a, a + m - 1, from, f)
    BY <2>2 DEF S
  <2> QED BY <2>1, <2>3
<1> DEFINE F == CHOOSE f : Rounds(h, a, last, from, f)
<1>4. Rounds(h, a, last, from, F)
  BY <1>3
<1>5. Followed(h, a, last, from) = F[last]
  BY DEF Followed, Rounds
<1> QED BY <1>4, <1>5

\* The last event of a key up to n of a history, and what it leaves of it.
LastIn(h, k, n) == LET rs == {r \in 1 .. n : h[r].key = k}
                   IN  IF rs = {} THEN 0 ELSE CHOOSE r \in rs : \A s \in rs : s <= r

VersionIn(h, k, n) ==
    IF LastIn(h, k, n) # 0 /\ h[LastIn(h, k, n)].put /\ h[LastIn(h, k, n)].match
    THEN LastIn(h, k, n) ELSE 0

IsLog(h) == h \in Seq([key : Keys, put : BOOLEAN, match : {TRUE}])

LEMMA GreatestElement ==
    ASSUME NEW n \in Nat, NEW S \in SUBSET (1 .. n), S # {}
    PROVE  \E r \in S : \A s \in S : s <= r
<1> DEFINE T == {n - s : s \in S}
<1>1. T \in SUBSET Nat /\ T # {}
  <2>1. PICK s \in S : TRUE
    OBVIOUS
  <2>2. n - s \in T /\ \A t \in T : t \in Nat
    OBVIOUS
  <2> QED BY <2>2
<1>2. PICK t \in T : \A u \in T : t <= u
  <2> HIDE DEF T
  <2> QED BY <1>1, LeastElement
<1>3. PICK r \in S : t = n - r
  BY <1>2
<1>4. ASSUME NEW s \in S PROVE s <= r
  <2>1. n - s \in T
    OBVIOUS
  <2>2. n - r <= n - s /\ n \in Int /\ s \in Int /\ r \in Int
    BY <1>2, <1>3, <2>1
  <2> QED BY <2>2
<1> QED BY <1>4

\* The last event is one of the key, and none comes after it.
LEMMA LastIsLast ==
    ASSUME NEW h, NEW k, NEW n \in Nat
    PROVE  /\ LastIn(h, k, n) \in 0 .. n
           /\ LastIn(h, k, n) # 0 => h[LastIn(h, k, n)].key = k
           /\ \A r \in 1 .. n : h[r].key = k => r <= LastIn(h, k, n)
<1> DEFINE rs == {r \in 1 .. n : h[r].key = k}
<1>1. CASE rs = {}
  BY <1>1 DEF LastIn
<1>2. CASE rs # {}
  <2>1. \E r \in rs : \A s \in rs : s <= r
    <3>1. rs \in SUBSET (1 .. n)
      OBVIOUS
    <3> HIDE DEF rs
    <3> QED BY <1>2, <3>1, GreatestElement
  <2>2. LastIn(h, k, n) = CHOOSE r \in rs : \A s \in rs : s <= r
    BY <1>2 DEF LastIn
  <2>3. LastIn(h, k, n) \in rs /\ \A s \in rs : s <= LastIn(h, k, n)
    BY <2>1, <2>2
  <2> QED BY <2>3
<1> QED BY <1>1, <1>2

LEMMA LastIsOnly ==
    ASSUME NEW h, NEW k, NEW n \in Nat, NEW v \in 0 .. n, v # 0 => h[v].key = k,
           \A r \in 1 .. n : h[r].key = k => r <= v
    PROVE  LastIn(h, k, n) = v
<1> DEFINE l == LastIn(h, k, n)
<1>1. l \in 0 .. n /\ (l # 0 => h[l].key = k) /\ (\A r \in 1 .. n : h[r].key = k => r <= l)
  BY LastIsLast
<1> HIDE DEF l
<1>2. l <= v
  BY <1>1
<1>3. v <= l
  BY <1>1
<1>4. l = v
  BY <1>1, <1>2, <1>3
<1> QED BY <1>4 DEF l

\* One more event is the last of its key and of no other.
LEMMA LastMoves ==
    ASSUME NEW h, NEW k, NEW n \in Nat
    PROVE  LastIn(h, k, n + 1) = IF h[n + 1].key = k THEN n + 1 ELSE LastIn(h, k, n)
<1> DEFINE l == LastIn(h, k, n)
<1>1. l \in 0 .. n /\ (l # 0 => h[l].key = k) /\ (\A r \in 1 .. n : h[r].key = k => r <= l)
  BY LastIsLast
<1> HIDE DEF l
<1>2. CASE h[n + 1].key = k
  <2>1. n + 1 \in Nat /\ n + 1 \in 0 .. n + 1 /\ \A r \in 1 .. n + 1 : r <= n + 1
    OBVIOUS
  <2> QED BY <1>2, <2>1, LastIsOnly
<1>3. CASE h[n + 1].key # k
  <2>1. l \in 0 .. n + 1 /\ \A r \in 1 .. n + 1 : h[r].key = k => r <= l
    <3>1. \A r \in 1 .. n + 1 : r \in 1 .. n \/ r = n + 1
      OBVIOUS
    <3> QED BY <1>1, <1>3, <3>1
  <2>2. n + 1 \in Nat
    OBVIOUS
  <2>3. LastIn(h, k, n + 1) = l
    BY <1>1, <2>1, <2>2, LastIsOnly
  <2> QED BY <1>3, <2>3 DEF l
<1> QED BY <1>2, <1>3

\* What had its last event by m had it then too.
LEMMA LastStands ==
    ASSUME NEW h, NEW k, NEW n \in Nat, NEW m \in 0 .. n, LastIn(h, k, n) <= m
    PROVE  LastIn(h, k, m) = LastIn(h, k, n) /\ VersionIn(h, k, m) = VersionIn(h, k, n)
<1> DEFINE l == LastIn(h, k, n)
<1>1. l \in 0 .. n /\ (l # 0 => h[l].key = k) /\ (\A r \in 1 .. n : h[r].key = k => r <= l) /\ l <= m
  BY LastIsLast
<1> HIDE DEF l
<1>2. l \in 0 .. m /\ (\A r \in 1 .. m : h[r].key = k => r <= l) /\ m \in Nat
  BY <1>1
<1>3. LastIn(h, k, m) = l
  BY <1>1, <1>2, LastIsOnly
<1> QED BY <1>3 DEF VersionIn, l

\* A longer history had the same events before.
LEMMA LastInPrefix ==
    ASSUME NEW h, NEW g, NEW k, NEW n \in Nat, \A r \in 1 .. n : g[r] = h[r]
    PROVE  LastIn(g, k, n) = LastIn(h, k, n) /\ VersionIn(g, k, n) = VersionIn(h, k, n)
<1> DEFINE l == LastIn(h, k, n)
<1>1. l \in 0 .. n /\ (l # 0 => h[l].key = k) /\ (\A r \in 1 .. n : h[r].key = k => r <= l)
  BY LastIsLast
<1> HIDE DEF l
<1>2. (l # 0 => g[l].key = k) /\ (\A r \in 1 .. n : g[r].key = k => r <= l)
  BY <1>1
<1>3. LastIn(g, k, n) = l
  BY <1>1, <1>2, LastIsOnly
<1>4. l # 0 => g[l] = h[l]
  BY <1>1
<1> QED BY <1>3, <1>4 DEF VersionIn, l

LEMMA EventOf ==
    ASSUME NEW h, IsLog(h), NEW r \in 1 .. Len(h)
    PROVE  h[r].key \in Keys /\ h[r].put \in BOOLEAN /\ h[r].match = TRUE
<1> DEFINE R == [key : Keys, put : BOOLEAN, match : {TRUE}]
<1>1. h \in Seq(R)
  BY DEF IsLog
<1>2. h[r] \in R
  <2> HIDE DEF R
  <2> QED BY <1>1
<1> QED BY <1>2

\* Where following events has the cache: what had an event is at its
\* version, what had none is as it was.
Brought(h, a, r, from, w) ==
    /\ w.cache \in [Keys -> Nat] /\ w.matching \subseteq Keys
    /\ w.rv = IF r < a THEN from.rv ELSE r
    /\ \A k \in Keys : w.cache[k] = IF LastIn(h, k, r) < a THEN from.cache[k] ELSE VersionIn(h, k, r)

LEMMA RoundReaches ==
    ASSUME NEW h, IsLog(h), NEW a \in Nat \ {0}, NEW n \in Nat, a <= n + 1, n < Len(h),
           NEW from, NEW w, Brought(h, a, n, from, w)
    PROVE  Brought(h, a, n + 1, from, Watched(w, h[n + 1], n + 1))
<1> DEFINE e == h[n + 1]
           u == Watched(w, e, n + 1)
<1>1. e.key \in Keys /\ e.put \in BOOLEAN /\ e.match = TRUE /\ n + 1 \in Nat
  <2>1. n + 1 \in 1 .. Len(h)
    BY DEF IsLog
  <2> QED
    <3> HIDE DEF e
    <3>1. h[n + 1].key \in Keys /\ h[n + 1].put \in BOOLEAN /\ h[n + 1].match = TRUE
      BY <2>1, EventOf
    <3> QED BY <3>1 DEF e
<1>2. /\ u.cache = [w.cache EXCEPT ![e.key] = IF e.put THEN n + 1 ELSE 0]
      /\ u.rv = n + 1
      /\ u.matching = w.matching \cup {e.key}
  BY <1>1 DEF Watched
<1>3. \A k \in Keys : LastIn(h, k, n + 1) = IF e.key = k THEN n + 1 ELSE LastIn(h, k, n)
  BY LastMoves
<1>4. \A k \in Keys : LastIn(h, k, n) \in 0 .. n
  BY LastIsLast
<1> HIDE DEF u
<1>5. u.cache \in [Keys -> Nat] /\ u.matching \subseteq Keys
  BY <1>1, <1>2 DEF Brought
<1>6. ASSUME NEW k \in Keys
      PROVE  u.cache[k] = IF LastIn(h, k, n + 1) < a THEN from.cache[k] ELSE VersionIn(h, k, n + 1)
  <2>1. CASE e.key = k
    <3>1. LastIn(h, k, n + 1) = n + 1 /\ ~(n + 1 < a)
      BY <2>1, <1>3
    <3>2. VersionIn(h, k, n + 1) = IF e.put THEN n + 1 ELSE 0
      BY <3>1, <1>1 DEF VersionIn
    <3>3. u.cache[k] = IF e.put THEN n + 1 ELSE 0
      BY <1>2, <2>1 DEF Brought
    <3> QED BY <3>1, <3>2, <3>3
  <2>2. CASE e.key # k
    <3>1. LastIn(h, k, n + 1) = LastIn(h, k, n)
      BY <2>2, <1>3
    <3>2. VersionIn(h, k, n + 1) = VersionIn(h, k, n)
      BY <3>1 DEF VersionIn
    <3>3. u.cache[k] = w.cache[k]
      BY <1>2, <2>2 DEF Brought
    <3> QED BY <3>1, <3>2, <3>3 DEF Brought
  <2> QED BY <2>1, <2>2
<1>7. ~(n + 1 < a)
  OBVIOUS
<1> QED BY <1>2, <1>5, <1>6, <1>7 DEF Brought, u

LEMMA FollowingReaches ==
    ASSUME NEW h, IsLog(h), NEW a \in Nat \ {0}, NEW last \in Nat, a - 1 <= last, last <= Len(h),
           NEW from, from.cache \in [Keys -> Nat], from.matching \subseteq Keys
    PROVE  Brought(h, a, last, from, Followed(h, a, last, from))
<1>1. PICK n \in Nat : n = last - (a - 1)
  OBVIOUS
<1>2. n \in Nat /\ a + n - 1 = last
  BY <1>1
<1>3. PICK f : /\ \A r \in a - 1 .. last :
                      f[r] = IF r < a THEN from ELSE Watched(f[r - 1], h[r], r)
               /\ Followed(h, a, last, from) = f[last]
  <2>1. a \in Int /\ last \in Int
    OBVIOUS
  <2>2. PICK f : Rounds(h, a, last, from, f) /\ Followed(h, a, last, from) = f[last]
    BY <2>1, FollowingIsDefined
  <2> QED BY <2>2 DEF Rounds
<1> DEFINE S == {m \in Nat : m <= n => Brought(h, a, a - 1 + m, from, f[a - 1 + m])}
<1>4. 0 \in S
  <2>1. f[a - 1] = from /\ a - 1 + 0 = a - 1 /\ a - 1 \in Nat
    BY <1>3
  <2>2. \A k \in Keys : LastIn(h, k, a - 1) < a
    BY <2>1, LastIsLast
  <2>3. Brought(h, a, a - 1, from, from)
    BY <2>1, <2>2 DEF Brought
  <2> QED BY <2>1, <2>3
<1>5. ASSUME NEW m \in Nat, m \in S PROVE m + 1 \in S
  <2> SUFFICES ASSUME m + 1 <= n PROVE Brought(h, a, a - 1 + (m + 1), from, f[a - 1 + (m + 1)])
    OBVIOUS
  <2> DEFINE r == a - 1 + m
  <2>1. r \in Nat /\ r + 1 \in a - 1 .. last /\ ~(r + 1 < a) /\ (r + 1) - 1 = r /\ r < Len(h)
        /\ a <= r + 1 /\ m <= n
    BY <1>1 DEF IsLog
  <2>2. Brought(h, a, r, from, f[r])
    BY <1>5, <2>1
  <2>3. f[r + 1] = Watched(f[r], h[r + 1], r + 1)
    BY <1>3, <2>1
  <2>4. a - 1 + (m + 1) = r + 1
    OBVIOUS
  <2> HIDE DEF r
  <2>5. Brought(h, a, r + 1, from, Watched(f[r], h[r + 1], r + 1))
    BY <2>1, <2>2, RoundReaches
  <2> QED BY <2>3, <2>4, <2>5
<1>6. n \in S
  <2> HIDE DEF S
  <2> QED BY <1>1, <1>4, <1>5, SetInduction
<1>7. Brought(h, a, last, from, f[last])
  BY <1>1, <1>6
<1> QED BY <1>3, <1>7

----
\* A cache that has of every key without an event after v what the server has.
HasUpTo(h, c, v) ==
    \A k \in Keys : LastIn(h, k, Len(h)) <= v => c[k] = VersionIn(h, k, Len(h))

\* A stream that starts where nothing is missed brings the cache up to date.
LEMMA FollowingCatchesUp ==
    ASSUME NEW h, IsLog(h), NEW a \in 1 .. Len(h) + 1, NEW c \in [Keys -> Nat], HasUpTo(h, c, a - 1),
           NEW v, NEW m \in SUBSET Keys,
           NEW w, w = Followed(h, a, Len(h), [cache |-> c, rv |-> v, matching |-> m])
    PROVE  /\ w.cache \in [Keys -> Nat] /\ w.matching \subseteq Keys
           /\ w.rv = IF Len(h) < a THEN v ELSE Len(h)
           /\ Len(h) < a => w.cache = c
           /\ \A n \in Int : HasUpTo(h, w.cache, n)
<1> DEFINE from == [cache |-> c, rv |-> v, matching |-> m]
           last == Len(h)
<1>1. last \in Nat /\ a \in Nat \ {0} /\ a - 1 <= last /\ last <= Len(h)
  BY DEF IsLog
<1>2. from.cache = c /\ from.rv = v /\ from.matching = m
  OBVIOUS
<1>3. w = Followed(h, a, last, from)
  OBVIOUS
<1> HIDE DEF from, last
<1>4. Brought(h, a, last, from, w)
  BY <1>1, <1>2, <1>3, FollowingReaches
<1>5. \A k \in Keys : LastIn(h, k, last) \in 0 .. last
  BY <1>1, LastIsLast
<1>6. \A k \in Keys : w.cache[k] = VersionIn(h, k, last)
  BY <1>1, <1>2, <1>4, <1>5 DEF Brought, HasUpTo, last
<1>7. \A n \in Int : HasUpTo(h, w.cache, n)
  BY <1>6 DEF HasUpTo, last
<1>8. ASSUME last < a PROVE w.cache = c
  <2>1. \A k \in Keys : w.cache[k] = c[k]
    BY <1>1, <1>2, <1>4, <1>5, <1>8 DEF Brought
  <2>2. w.cache \in [Keys -> Nat]
    BY <1>4 DEF Brought
  <2> QED BY <2>1, <2>2
<1> QED BY <1>2, <1>4, <1>7, <1>8 DEF Brought, last

\* A new event takes nothing from a cache that is good up to before it.
LEMMA EventKeepsUpTo ==
    ASSUME NEW h, IsLog(h), NEW e \in [key : Keys, put : BOOLEAN, match : {TRUE}],
           NEW g, g = Append(h, e)
    PROVE  /\ IsLog(g) /\ Len(g) = Len(h) + 1 /\ Len(h) \in Nat
           /\ \A c : \A v \in Int : v <= Len(h) /\ HasUpTo(h, c, v) => HasUpTo(g, c, v)
<1> DEFINE R == [key : Keys, put : BOOLEAN, match : {TRUE}]
           n == Len(h)
<1>1. h \in Seq(R) /\ e \in R
  BY DEF IsLog
<1> HIDE DEF R
<1>2. g \in Seq(R) /\ Len(g) = n + 1 /\ n \in Nat /\ \A r \in 1 .. n : g[r] = h[r]
  BY <1>1
<1> HIDE DEF n
<1>3. ASSUME NEW c, NEW v \in Int, v <= n, HasUpTo(h, c, v), NEW k \in Keys,
             LastIn(g, k, Len(g)) <= v
      PROVE  c[k] = VersionIn(g, k, Len(g))
  <2>1. LastIn(g, k, n + 1) = IF g[n + 1].key = k THEN n + 1 ELSE LastIn(g, k, n)
    <3>1. n \in Nat
      BY <1>2
    <3> QED BY <3>1, LastMoves
  <2>2. n \in 0 .. n + 1 /\ n + 1 \in Nat /\ LastIn(g, k, n + 1) <= n
    <3>1. n \in Nat /\ n + 1 \in Nat /\ Len(g) = n + 1
      BY <1>2
    <3>2. LastIn(g, k, n + 1) \in 0 .. n + 1
      BY <3>1, LastIsLast
    <3>3. LastIn(g, k, n + 1) <= v
      BY <1>3, <3>1
    <3> QED BY <1>3, <3>1, <3>2, <3>3
  <2>3. LastIn(g, k, n + 1) = LastIn(g, k, n)
    BY <1>2, <2>1, <2>2
  <2>4. VersionIn(g, k, n) = VersionIn(g, k, n + 1)
    BY <2>2, <1>2, LastStands
  <2>5. LastIn(g, k, n) = LastIn(h, k, n) /\ VersionIn(g, k, n) = VersionIn(h, k, n)
    BY <1>2, LastInPrefix
  <2> QED BY <1>2, <1>3, <2>3, <2>4, <2>5 DEF HasUpTo, n
<1> QED BY <1>2, <1>3 DEF HasUpTo, IsLog, R, n

\* A list is good up to where it was made.
LEMMA ListHasUpTo ==
    ASSUME NEW h, IsLog(h), NEW n \in 0 .. Len(h), NEW c,
           \A k \in Keys : c[k] = VersionIn(h, k, n)
    PROVE  HasUpTo(h, c, n)
<1>1. Len(h) \in Nat
  BY DEF IsLog
<1> QED BY <1>1, LastStands DEF HasUpTo

LEMMA ListIsVersions ==
    \A n : ListAt(n) = [k \in Keys |-> VersionIn(log, k, n)]
BY DEF ListAt, VersionIn, LastOf, LastIn

LEMMA VersionsAreRevisions ==
    ASSUME NEW h, NEW n \in Nat, NEW k
    PROVE  VersionIn(h, k, n) \in 0 .. n
<1>1. LastIn(h, k, n) \in 0 .. n
  BY LastIsLast
<1> QED BY <1>1 DEF VersionIn

----
InformerTypes ==
    /\ IsLog(log) /\ floor \in Nat /\ cache \in [Keys -> Nat]
    /\ rv \in -1 .. Len(log) /\ listed \in 0 .. Len(log)
    /\ stopped \in BOOLEAN /\ broken \in BOOLEAN
    /\ pc \in {"idle", "list", "listed", "initial", "initialed"}
    /\ stream \in [state : {"none", "connecting", "open", "failing"}, start : Nat,
                   matching : SUBSET Keys]

InformerInv ==
    /\ InformerTypes
    /\ rv # None => HasUpTo(log, cache, rv)
    /\ rv = 0 => cache = [k \in Keys |-> 0]
    /\ pc # "idle" => stream.state = "none"
    /\ pc \in {"initial", "initialed"} => rv = 0
    /\ stream.state = "connecting" =>
          stream.start \in 1 .. Len(log) + 1 /\ HasUpTo(log, cache, stream.start - 1)
    /\ stream.state = "open" => HasUpTo(log, cache, Len(log))

LEMMA InformerStart == Init => InformerInv
<1> SUFFICES ASSUME Init PROVE InformerInv
  OBVIOUS
<1>1. log = <<>> /\ cache = [k \in Keys |-> 0] /\ rv = -1 /\ listed = 0 /\ pc = "idle"
      /\ stream = NoStream /\ floor = 0 /\ stopped = TRUE /\ broken = FALSE
  BY DEF Init, None
<1>2. InformerTypes
  <2> DEFINE R == [key : Keys, put : BOOLEAN, match : {TRUE}]
  <2>1. IsLog(<<>>) /\ Len(<<>>) = 0
    <3> HIDE DEF R
    <3>1. <<>> \in Seq(R) /\ Len(<<>>) = 0
      OBVIOUS
    <3> QED BY <3>1 DEF IsLog, R
  <2>2. IsLog(log) /\ Len(log) = 0
    BY <1>1, <2>1
  <2>3. stream.state = "none" /\ stream \in [state : {"none", "connecting", "open", "failing"},
                                            start : Nat, matching : SUBSET Keys]
    BY <1>1 DEF NoStream
  <2>4. rv \in -1 .. Len(log) /\ listed \in 0 .. Len(log) /\ cache \in [Keys -> Nat]
    BY <1>1, <2>2
  <2> QED BY <1>1, <2>2, <2>3, <2>4 DEF InformerTypes
<1> QED BY <1>1, <1>2 DEF InformerInv, NoStream, None

LEMMA WriteKept ==
    ASSUME InformerInv, MatchChoices = {TRUE}, NEW e \in Records, Write(e)
    PROVE  InformerInv'
<1>1. e \in [key : Keys, put : BOOLEAN, match : {TRUE}] /\ log' = Append(log, e)
  BY DEF Records, Write
<1>2. IsLog(log)
  BY DEF InformerInv, InformerTypes
<1>3. /\ IsLog(log') /\ Len(log') = Len(log) + 1 /\ Len(log) \in Nat
      /\ \A c : \A v \in Int : v <= Len(log) /\ HasUpTo(log, c, v) => HasUpTo(log', c, v)
  <2>1. \A g : g = Append(log, e) =>
            /\ IsLog(g) /\ Len(g) = Len(log) + 1 /\ Len(log) \in Nat
            /\ \A c : \A v \in Int : v <= Len(log) /\ HasUpTo(log, c, v) => HasUpTo(g, c, v)
    BY <1>1, <1>2, EventKeepsUpTo
  <2> QED BY <1>1, <2>1
<1>4. UNCHANGED <<floor, stopped, broken, pc, listed>>
  BY DEF Write
<1>5. CASE stream.state = "open"
  <2> DEFINE h == log'
             w == Followed(h, Len(h), Len(h), [cache |-> cache, rv |-> rv, matching |-> stream.matching])
  <2>1. cache' = w.cache /\ rv' = w.rv /\ stream' = [stream EXCEPT !.state = "open", !.matching = w.matching]
    BY <1>3, <1>5 DEF Write, Delivers, Revision
  <2>2. /\ w.cache \in [Keys -> Nat] /\ w.matching \subseteq Keys /\ w.rv = Len(h)
        /\ \A n \in Int : HasUpTo(h, w.cache, n)
    <3>1. Len(h) \in 1 .. Len(h) + 1 /\ ~(Len(h) < Len(h)) /\ Len(h) - 1 = Len(log)
      BY <1>3
    <3>2. HasUpTo(h, cache, Len(h) - 1)
      BY <1>3, <1>5, <3>1 DEF InformerInv
    <3>3. cache \in [Keys -> Nat] /\ stream.matching \in SUBSET Keys
      BY DEF InformerInv, InformerTypes
    <3> HIDE DEF w, h
    <3>4. w = Followed(h, Len(h), Len(h), [cache |-> cache, rv |-> rv, matching |-> stream.matching])
      BY DEF w
    <3>5. IsLog(h)
      BY <1>3 DEF h
    <3> QED BY <3>1, <3>2, <3>3, <3>4, <3>5, FollowingCatchesUp
  <2> HIDE DEF w
  <2>3. stream'.state = "open" /\ stream'.start \in Nat /\ stream'.matching \subseteq Keys
        /\ stream' \in [state : {"none", "connecting", "open", "failing"}, start : Nat,
                        matching : SUBSET Keys]
    BY <2>1, <2>2 DEF InformerInv, InformerTypes
  <2>4. InformerTypes'
    BY <1>3, <1>4, <2>1, <2>2, <2>3 DEF InformerInv, InformerTypes
  <2>5. pc' = "idle"
    BY <1>4, <1>5 DEF InformerInv
  <2>6. rv' # 0 /\ rv' \in Int /\ Len(log') \in Int
    BY <1>3, <2>1, <2>2
  <2> QED BY <2>1, <2>2, <2>3, <2>4, <2>5, <2>6 DEF InformerInv
<1>6. CASE stream.state # "open"
  <2>1. UNCHANGED <<cache, rv, stream>>
    BY <1>6 DEF Write
  <2>2. InformerTypes'
    BY <1>3, <1>4, <2>1 DEF InformerInv, InformerTypes
  <2>3. rv' # None => HasUpTo(log', cache', rv')
    BY <1>3, <2>1 DEF InformerInv, InformerTypes
  <2>4. stream'.state = "connecting" =>
          stream'.start \in 1 .. Len(log') + 1 /\ HasUpTo(log', cache', stream'.start - 1)
    BY <1>3, <2>1 DEF InformerInv
  <2> QED BY <1>4, <1>6, <2>1, <2>2, <2>3, <2>4 DEF InformerInv
<1> QED BY <1>5, <1>6

\* Following starts a list, or a stream where the cache is good.
LEMMA FollowsIsGood ==
    ASSUME NEW v \in -1 .. Len(log'), Len(log') \in Nat, Follows(v),
           v # None => HasUpTo(log', cache', v)
    PROVE  /\ stream' \in [state : {"none", "connecting", "open", "failing"}, start : Nat,
                           matching : SUBSET Keys]
           /\ pc' \in {"idle", "list", "initial"}
           /\ pc' # "idle" => stream'.state = "none"
           /\ pc' = "initial" => v = 0
           /\ stream'.state = "connecting" =>
                 stream'.start \in 1 .. Len(log') + 1 /\ HasUpTo(log', cache', stream'.start - 1)
           /\ stream'.state # "open"
<1>1. CASE v \in {None, 0}
  <2>1. stream' = NoStream /\ pc' \in {"list", "initial"} /\ (pc' = "initial" => v = 0)
    BY <1>1 DEF Follows, None
  <2> QED BY <2>1 DEF NoStream
<1>2. CASE v \notin {None, 0}
  <2>1. v \in 1 .. Len(log')
    BY <1>2 DEF None
  <2>2. stream' = [state |-> "connecting", start |-> v + 1, matching |-> {}] /\ pc' = "idle"
    BY <1>2 DEF Follows, Opens, watchStartRevision
  <2>3. stream'.state = "connecting" /\ stream'.start = v + 1 /\ v + 1 \in Nat
        /\ v + 1 \in 1 .. Len(log') + 1 /\ stream'.start - 1 = v
    BY <2>1, <2>2
  <2>4. stream' \in [state : {"none", "connecting", "open", "failing"}, start : Nat,
                     matching : SUBSET Keys]
    BY <2>2, <2>3
  <2>5. HasUpTo(log', cache', stream'.start - 1)
    BY <1>2, <2>3
  <2> QED BY <2>2, <2>3, <2>4, <2>5
<1> QED BY <1>1, <1>2

LEMMA StartKept == InformerInv /\ Start => InformerInv'
<1> SUFFICES ASSUME InformerInv, Start PROVE InformerInv'
  OBVIOUS
<1>1. UNCHANGED <<log, floor, cache, rv, listed>> /\ stopped' = FALSE /\ broken' = FALSE /\ Follows(rv)
  BY DEF Start
<1>2. rv \in -1 .. Len(log') /\ Len(log') \in Nat /\ (rv # None => HasUpTo(log', cache', rv))
  BY <1>1 DEF InformerInv, InformerTypes, IsLog
<1>3. /\ stream' \in [state : {"none", "connecting", "open", "failing"}, start : Nat,
                      matching : SUBSET Keys]
      /\ pc' \in {"idle", "list", "initial"}
      /\ pc' # "idle" => stream'.state = "none"
      /\ pc' = "initial" => rv = 0
      /\ stream'.state = "connecting" =>
            stream'.start \in 1 .. Len(log') + 1 /\ HasUpTo(log', cache', stream'.start - 1)
      /\ stream'.state # "open"
  BY <1>1, <1>2, FollowsIsGood
<1>4. InformerTypes'
  BY <1>1, <1>3 DEF InformerInv, InformerTypes
<1> QED BY <1>1, <1>3, <1>4 DEF InformerInv

LEMMA ListAnswersKept == InformerInv /\ ListAnswers => InformerInv'
<1> SUFFICES ASSUME InformerInv, ListAnswers PROVE InformerInv'
  OBVIOUS
<1>1. UNCHANGED <<log, floor, cache, rv, stopped, broken, stream>> /\ listed' = Len(log)
      /\ pc \in {"list", "initial"} /\ pc' = IF pc = "list" THEN "listed" ELSE "initialed"
  BY DEF ListAnswers, Revision
<1>2. InformerTypes'
  <2>1. Len(log) \in Nat
    BY DEF InformerInv, InformerTypes, IsLog
  <2> QED BY <1>1, <2>1 DEF InformerInv, InformerTypes
<1> QED BY <1>1, <1>2 DEF InformerInv

LEMMA ListFailsKept == InformerInv /\ ListFails => InformerInv'
<1> SUFFICES ASSUME InformerInv, ListFails PROVE InformerInv'
  OBVIOUS
<1>1. UNCHANGED <<log, floor, cache, rv, stopped, listed, stream>> /\ pc' = "idle" /\ broken' = TRUE
  BY DEF ListFails
<1>2. InformerTypes'
  BY <1>1 DEF InformerInv, InformerTypes
<1> QED BY <1>1, <1>2 DEF InformerInv

LEMMA ListArrivesKept == InformerInv /\ ListArrives => InformerInv'
<1> SUFFICES ASSUME InformerInv, ListArrives PROVE InformerInv'
  OBVIOUS
<1>1. UNCHANGED <<log, floor, stopped, broken>> /\ listed' = 0 /\ rv' = listed /\ Follows(listed)
      /\ cache' = [k \in Keys |-> VersionIn(log, k, listed)]
  BY ListIsVersions DEF ListArrives
<1>2. IsLog(log) /\ listed \in 0 .. Len(log) /\ Len(log) \in Nat /\ listed \in -1 .. Len(log)
      /\ listed \in Nat /\ 0 \in 0 .. Len(log)
  BY DEF InformerInv, InformerTypes, IsLog
<1>3. HasUpTo(log', cache', listed)
  <2>1. HasUpTo(log, cache', listed)
    <3>1. \A k \in Keys : cache'[k] = VersionIn(log, k, listed)
      BY <1>1
    <3> QED BY <1>2, <3>1, ListHasUpTo
  <2> QED BY <1>1, <2>1
<1>4. /\ stream' \in [state : {"none", "connecting", "open", "failing"}, start : Nat,
                      matching : SUBSET Keys]
      /\ pc' \in {"idle", "list", "initial"}
      /\ pc' # "idle" => stream'.state = "none"
      /\ pc' = "initial" => listed = 0
      /\ stream'.state = "connecting" =>
            stream'.start \in 1 .. Len(log') + 1 /\ HasUpTo(log', cache', stream'.start - 1)
      /\ stream'.state # "open"
  BY <1>1, <1>2, <1>3, FollowsIsGood
<1>5. \A k \in Keys : VersionIn(log, k, listed) \in 0 .. listed
  BY <1>2, VersionsAreRevisions
<1>6. cache' \in [Keys -> Nat] /\ (listed = 0 => cache' = [k \in Keys |-> 0])
  BY <1>1, <1>2, <1>5
<1>7. InformerTypes'
  BY <1>1, <1>2, <1>4, <1>6 DEF InformerInv, InformerTypes
<1> QED BY <1>1, <1>3, <1>4, <1>6, <1>7 DEF InformerInv

LEMMA InitialArrivesKept == InformerInv /\ InitialArrives => InformerInv'
<1> SUFFICES ASSUME InformerInv, InitialArrives PROVE InformerInv'
  OBVIOUS
<1> DEFINE answer == [k \in Keys |-> VersionIn(log, k, listed)]
           found == {k \in Keys : answer[k] # 0}
<1>1. answer = ListAt(listed)
  BY ListIsVersions
<1>2. /\ pc = "initialed"
      /\ cache' = [k \in Keys |-> IF k \in found THEN answer[k] ELSE cache[k]]
      /\ IF found = {} THEN rv' = rv ELSE \E k \in found : rv' = answer[k]
      /\ stream' = [state |-> "connecting", start |-> listed + 1, matching |-> found] /\ pc' = "idle"
      /\ listed' = 0 /\ UNCHANGED <<log, floor, stopped, broken>>
  <2> HIDE DEF answer
  <2> QED BY <1>1 DEF InitialArrives, Opens, watchStartRevision
<1>3. /\ rv = 0 /\ cache = [k \in Keys |-> 0]
      /\ IsLog(log) /\ listed \in 0 .. Len(log) /\ Len(log) \in Nat /\ listed \in Nat
      /\ 0 \in 0 .. Len(log)
  BY <1>2 DEF InformerInv, InformerTypes, IsLog
<1>4. \A k \in Keys : answer[k] = VersionIn(log, k, listed) /\ answer[k] \in 0 .. listed
  BY <1>3, VersionsAreRevisions
<1> HIDE DEF answer
<1>5. \A k \in Keys : cache'[k] = answer[k]
  BY <1>2, <1>3
<1>6. HasUpTo(log', cache', listed)
  <2>1. \A k \in Keys : cache'[k] = VersionIn(log, k, listed)
    BY <1>4, <1>5
  <2>2. HasUpTo(log, cache', listed)
    BY <1>3, <2>1, ListHasUpTo
  <2> QED BY <1>2, <2>2
<1>7. rv' \in 0 .. listed /\ (rv' = 0 => found = {})
  <2>1. CASE found = {}
    BY <1>2, <1>3, <2>1
  <2>2. CASE found # {}
    <3>1. PICK k \in found : rv' = answer[k]
      BY <1>2, <2>2
    <3> QED BY <1>3, <1>4, <3>1
  <2> QED BY <2>1, <2>2
<1>8. HasUpTo(log', cache', rv')
  <2>1. \A k \in Keys : LastIn(log', k, Len(log')) \in 0 .. Len(log')
    BY <1>2, <1>3, LastIsLast
  <2>2. \A k \in Keys : LastIn(log', k, Len(log')) <= rv' => LastIn(log', k, Len(log')) <= listed
    BY <1>2, <1>3, <1>7, <2>1
  <2> QED BY <1>6, <2>2 DEF HasUpTo
<1>9. rv' = 0 => cache' = [k \in Keys |-> 0]
  BY <1>2, <1>3, <1>7
<1>10. cache' \in [Keys -> Nat] /\ rv' \in -1 .. Len(log')
  BY <1>2, <1>3, <1>4, <1>7
<1>11. found \in SUBSET Keys
  OBVIOUS
<1> HIDE DEF found
<1>12. /\ stream'.state = "connecting" /\ stream'.start = listed + 1
       /\ stream'.start \in 1 .. Len(log') + 1 /\ stream'.start - 1 = listed
       /\ stream' \in [state : {"none", "connecting", "open", "failing"}, start : Nat,
                       matching : SUBSET Keys]
  BY <1>2, <1>3, <1>11
<1>13. InformerTypes'
  BY <1>2, <1>3, <1>10, <1>12 DEF InformerInv, InformerTypes
<1> QED BY <1>2, <1>6, <1>8, <1>9, <1>12, <1>13 DEF InformerInv

LEMMA ConnectKept == InformerInv /\ Connect => InformerInv'
<1> SUFFICES ASSUME InformerInv, Connect PROVE InformerInv'
  OBVIOUS
<1>1. stream.state = "connecting" /\ UNCHANGED <<log, floor, stopped, broken, pc, listed>>
  BY DEF Connect
<1>2. pc = "idle" /\ IsLog(log) /\ Len(log) \in Nat
  BY <1>1 DEF InformerInv, InformerTypes, IsLog
<1>3. CASE stream.start <= floor
  <2>1. stream' = [stream EXCEPT !.state = "failing"] /\ UNCHANGED <<cache, rv>>
    BY <1>3 DEF Connect
  <2>2. stream'.state = "failing" /\ stream' \in [state : {"none", "connecting", "open", "failing"},
            start : Nat, matching : SUBSET Keys]
    BY <2>1 DEF InformerInv, InformerTypes
  <2>3. InformerTypes'
    BY <1>1, <2>1, <2>2 DEF InformerInv, InformerTypes
  <2> QED BY <1>1, <1>2, <2>1, <2>2, <2>3 DEF InformerInv
<1>4. CASE ~(stream.start <= floor)
  <2> DEFINE w == Followed(log, stream.start, Len(log),
                           [cache |-> cache, rv |-> rv, matching |-> stream.matching])
  <2>1. cache' = w.cache /\ rv' = w.rv
        /\ stream' = [stream EXCEPT !.state = "open", !.matching = w.matching]
    BY <1>4 DEF Connect, Delivers, Revision
  <2>2. /\ w.cache \in [Keys -> Nat] /\ w.matching \subseteq Keys
        /\ w.rv = IF Len(log) < stream.start THEN rv ELSE Len(log)
        /\ Len(log) < stream.start => w.cache = cache
        /\ \A n \in Int : HasUpTo(log, w.cache, n)
    <3>1. stream.start \in 1 .. Len(log) + 1 /\ HasUpTo(log, cache, stream.start - 1)
      BY <1>1 DEF InformerInv
    <3>2. cache \in [Keys -> Nat] /\ stream.matching \in SUBSET Keys
      BY DEF InformerInv, InformerTypes
    <3> HIDE DEF w
    <3>3. w = Followed(log, stream.start, Len(log),
                       [cache |-> cache, rv |-> rv, matching |-> stream.matching])
      BY DEF w
    <3> QED BY <1>2, <3>1, <3>2, <3>3, FollowingCatchesUp
  <2> HIDE DEF w
  <2>3. stream'.state = "open" /\ stream' \in [state : {"none", "connecting", "open", "failing"},
            start : Nat, matching : SUBSET Keys]
    BY <2>1, <2>2 DEF InformerInv, InformerTypes
  <2>4. rv' \in -1 .. Len(log)
    BY <1>2, <2>1, <2>2 DEF InformerInv, InformerTypes
  <2>5. rv' = 0 => cache' = [k \in Keys |-> 0]
    <3>1. stream.start \in 1 .. Len(log) + 1
      BY <1>1 DEF InformerInv
    <3>2. rv' = 0 => Len(log) < stream.start /\ rv = 0
      BY <1>2, <2>1, <2>2, <3>1
    <3> QED BY <2>1, <2>2, <3>2 DEF InformerInv
  <2>6. InformerTypes'
    BY <1>1, <2>1, <2>2, <2>3, <2>4 DEF InformerInv, InformerTypes
  <2>7. HasUpTo(log', cache', rv') /\ HasUpTo(log', cache', Len(log'))
    BY <1>1, <1>2, <2>1, <2>2, <2>4
  <2> QED BY <1>1, <1>2, <2>3, <2>5, <2>6, <2>7 DEF InformerInv
<1> QED BY <1>3, <1>4

LEMMA StreamFailsKept == InformerInv /\ StreamFails => InformerInv'
<1> SUFFICES ASSUME InformerInv, StreamFails PROVE InformerInv'
  OBVIOUS
<1>1. UNCHANGED <<log, floor, cache, stopped, listed>>
  BY DEF StreamFails
<1>2. stream' = NoStream /\ ((rv' = None /\ pc' = "list" /\ broken' = broken)
                              \/ (rv' = rv /\ pc' = pc /\ broken' = TRUE))
  BY DEF StreamFails, Follows
<1>3. stream'.state = "none" /\ stream' \in [state : {"none", "connecting", "open", "failing"},
          start : Nat, matching : SUBSET Keys]
  BY <1>2 DEF NoStream
<1>4. rv' \in -1 .. Len(log)
  BY <1>2 DEF InformerInv, InformerTypes, None, IsLog
<1>5. InformerTypes'
  BY <1>1, <1>2, <1>3, <1>4 DEF InformerInv, InformerTypes
<1> QED BY <1>1, <1>2, <1>3, <1>5 DEF InformerInv, None

LEMMA StopKept == InformerInv /\ Stop => InformerInv'
<1> SUFFICES ASSUME InformerInv, Stop PROVE InformerInv'
  OBVIOUS
<1>1. UNCHANGED <<log, floor, cache, rv, broken, pc, listed>> /\ stopped' = TRUE /\ stream' = NoStream
  BY DEF Stop
<1>2. stream'.state = "none" /\ stream' \in [state : {"none", "connecting", "open", "failing"},
          start : Nat, matching : SUBSET Keys]
  BY <1>1 DEF NoStream
<1>3. InformerTypes'
  BY <1>1, <1>2 DEF InformerInv, InformerTypes
<1> QED BY <1>1, <1>2, <1>3 DEF InformerInv

LEMMA CompactKept == InformerInv /\ Compact => InformerInv'
<1> SUFFICES ASSUME InformerInv, Compact PROVE InformerInv'
  OBVIOUS
<1>1. UNCHANGED <<log, cache, rv, stopped, broken, pc, listed, stream>> /\ floor' \in floor + 1 .. Len(log)
  BY DEF Compact, Revision
<1>2. floor' \in Nat
  BY <1>1 DEF InformerInv, InformerTypes, IsLog
<1>3. InformerTypes'
  BY <1>1, <1>2 DEF InformerInv, InformerTypes
<1> QED BY <1>1, <1>3 DEF InformerInv

LEMMA InformerKept ==
    ASSUME MatchChoices = {TRUE}
    PROVE  InformerInv /\ [Next]_vars => InformerInv'
<1> SUFFICES ASSUME InformerInv, [Next]_vars PROVE InformerInv'
  OBVIOUS
<1>1. ASSUME NEW e \in Records, Write(e) PROVE InformerInv'
  BY <1>1, WriteKept
<1>2. CASE UNCHANGED vars
  <2>1. InformerTypes'
    BY <1>2 DEF vars, InformerInv, InformerTypes
  <2> QED BY <1>2, <2>1 DEF vars, InformerInv
<1> QED
  BY <1>1, <1>2, CompactKept, StartKept, StopKept, ListAnswersKept, ListFailsKept,
     ListArrivesKept, InitialArrivesKept, ConnectKept, StreamFailsKept DEF Next, Works

LEMMA InformerInvShows == InformerInv => CacheIsSound
<1> SUFFICES ASSUME InformerInv PROVE CacheIsSound
  OBVIOUS
<1>1. IsLog(log) /\ Len(log) \in Nat /\ cache \in [Keys -> Nat]
  BY DEF InformerInv, InformerTypes, IsLog
<1>2. \A k \in Keys : ListAt(Len(log))[k] = VersionIn(log, k, Len(log))
  BY ListIsVersions
<1>3. \A k \in Keys : LastOf(k, Len(log)) = LastIn(log, k, Len(log))
  BY DEF LastOf, LastIn
<1>4. ResumingIsSound
  BY <1>2, <1>3 DEF ResumingIsSound, InformerInv, HasUpTo, Revision
<1>5. CacheIsCurrent
  <2> SUFFICES ASSUME stream.state = "open" PROVE cache = ListAt(Len(log))
    BY DEF CacheIsCurrent, Revision
  <2>1. \A k \in Keys : LastIn(log, k, Len(log)) <= Len(log)
    BY <1>1, LastIsLast
  <2>2. \A k \in Keys : cache[k] = VersionIn(log, k, Len(log))
    BY <2>1 DEF InformerInv, HasUpTo
  <2> QED BY <1>1, <2>2, ListIsVersions
<1> QED BY <1>4, <1>5 DEF CacheIsSound

(* A ListWatch without a selector (client/cache.ts): while its watch is     *)
(* open, its cache is what a list would answer, and whatever it holds may   *)
(* be built on from its resourceVersion, also after a list that was         *)
(* overtaken by writes, after a stop and start, and after a watch from "0". *)
THEOREM InformerSoundness ==
    ASSUME MatchChoices = {TRUE}
    PROVE  Spec => []CacheIsSound
<1>1. InformerInv /\ [Next]_vars => InformerInv'
  BY InformerKept
<1> QED BY <1>1, InformerStart, InformerInvShows, PTL DEF Spec

----
(* PodSource: what is on its way leads the pod manager from what it knows   *)
(* to what the mux has merged.                                              *)

PodRecords == [uid : Uids, name : PodNames, bound : BOOLEAN, spec : Nat, status : Nat,
               deleting : BOOLEAN]
OpKinds == {"REMOVE", "ADD", "UPDATE", "DELETE", "EMPTY", "RECONCILE"}
OpRecords == [op : OpKinds, pods : SUBSET PodRecords]

\* Versions of pods bound to the node, where a uid is of one name.
Named(K) ==
    /\ K \subseteq PodRecords /\ \A p \in K : p.bound
    /\ \A p, q \in K : p.uid = q.uid => p.name = q.name

\* Pods by uid, one of a name.
Holds(K, f) ==
    /\ f \in [Uids -> K \cup {NoPod}]
    /\ \A u \in Uids : f[u] # NoPod => f[u].uid = u
    /\ \A u, v \in Uids : f[u] # NoPod /\ f[v] # NoPod /\ f[u].name = f[v].name => u = v

Effect(f, e) ==
    [u \in Uids |-> IF \E p \in e.pods : p.uid = u
                    THEN IF e.op = "REMOVE" THEN NoPod ELSE CHOOSE p \in e.pods : p.uid = u
                    ELSE f[u]]

\* An operation that may be due when the pods are f.
Fits(K, f, e) ==
    /\ e.op \in OpKinds /\ e.pods \subseteq K
    /\ \A p, q \in e.pods : p.uid = q.uid => p = q
    /\ e.op = "REMOVE" => \A p \in e.pods : f[p.uid] = p
    /\ e.op = "RECONCILE" => \A p \in e.pods : f[p.uid] # NoPod /\ ~Differs(f[p.uid], p)

Ways(K, from, line, to, s) ==
    /\ s = [i \in 0 .. Len(line) |-> s[i]]
    /\ s[0] = from /\ s[Len(line)] = to
    /\ \A i \in 0 .. Len(line) : Holds(K, s[i])
    /\ \A i \in 1 .. Len(line) : Fits(K, s[i - 1], line[i]) /\ s[i] = Effect(s[i - 1], line[i])
Leads(K, from, line, to) == \E s : Ways(K, from, line, to, s)

LEMMA NoPodIsNone ==
    /\ \A K : Named(K) => NoPod \notin K
    /\ \A p \in PodRecords : p # NoPod
<1>1. \A p \in PodRecords : p.uid # 0
  BY DEF PodRecords, Uids
<1>2. NoPod.uid = 0
  BY DEF NoPod
<1>3. \A p \in PodRecords : p # NoPod
  BY <1>1, <1>2
<1> QED BY <1>3 DEF Named

LEMMA LeadsNowhere ==
    ASSUME NEW K, NEW f
    PROVE  /\ Holds(K, f) => Leads(K, f, <<>>, f)
           /\ \A g : Leads(K, f, <<>>, g) => f = g
<1>1. Len(<<>>) = 0
  OBVIOUS
<1>2. ASSUME Holds(K, f) PROVE Leads(K, f, <<>>, f)
  <2> DEFINE s == [i \in 0 .. 0 |-> f]
  <2>1. Ways(K, f, <<>>, f, s)
    BY <1>2 DEF Ways
  <2> QED BY <2>1 DEF Leads
<1>3. ASSUME NEW g, Leads(K, f, <<>>, g) PROVE f = g
  BY <1>1, <1>3 DEF Leads, Ways
<1> QED BY <1>2, <1>3

LEMMA LeadsOn ==
    ASSUME NEW K, NEW from, NEW line \in Seq(OpRecords), NEW to, Leads(K, from, line, to),
           NEW e \in OpRecords, Fits(K, to, e), Holds(K, Effect(to, e))
    PROVE  Leads(K, from, line \o <<e>>, Effect(to, e))
<1> DEFINE n == Len(line)
           long == line \o <<e>>
           f == Effect(to, e)
<1>1. PICK s : Ways(K, from, line, to, s)
  BY DEF Leads
<1>2. n \in Nat /\ Len(long) = n + 1 /\ long[n + 1] = e /\ \A i \in 1 .. n : long[i] = line[i]
  OBVIOUS
<1> DEFINE t == [i \in 0 .. n + 1 |-> IF i = n + 1 THEN f ELSE s[i]]
<1> HIDE DEF long, n, f
<1>3. t[0] = from /\ t[n] = to /\ t[n + 1] = f /\ \A i \in 0 .. n : t[i] = s[i]
  BY <1>1, <1>2 DEF Ways, n
<1>4. t = [i \in 0 .. n + 1 |-> t[i]]
  OBVIOUS
<1> HIDE DEF t
<1>5. \A i \in 0 .. n + 1 : Holds(K, t[i])
  <2>1. \A i \in 0 .. n + 1 : i \in 0 .. n \/ i = n + 1
    BY <1>2
  <2>2. \A i \in 0 .. n : Holds(K, s[i])
    BY <1>1 DEF Ways, n
  <2>3. Holds(K, f)
    BY DEF f
  <2> QED BY <1>3, <2>1, <2>2, <2>3
<1>6. ASSUME NEW i \in 1 .. n + 1 PROVE Fits(K, t[i - 1], long[i]) /\ t[i] = Effect(t[i - 1], long[i])
  <2>1. CASE i \in 1 .. n
    <3>1. i \in 0 .. n /\ i - 1 \in 0 .. n
      BY <1>2, <2>1
    <3>2. t[i] = s[i] /\ t[i - 1] = s[i - 1] /\ long[i] = line[i]
      BY <1>2, <1>3, <2>1, <3>1
    <3>3. Fits(K, s[i - 1], line[i]) /\ s[i] = Effect(s[i - 1], line[i])
      BY <1>1, <2>1 DEF Ways, n
    <3> QED BY <3>2, <3>3
  <2>2. CASE i = n + 1
    <3>1. i - 1 = n
      BY <1>2, <2>2
    <3> QED BY <1>2, <1>3, <2>2, <3>1 DEF f
  <2> QED BY <1>2, <2>1, <2>2
<1>7. Ways(K, from, long, f, t)
  BY <1>2, <1>3, <1>4, <1>5, <1>6 DEF Ways
<1> QED BY <1>7 DEF Leads, long, f

LEMMA LeadsPast ==
    ASSUME NEW K, NEW from, NEW line \in Seq(OpRecords), line # <<>>, NEW to, Leads(K, from, line, to)
    PROVE  /\ Holds(K, from) /\ Fits(K, from, Head(line)) /\ Holds(K, Effect(from, Head(line)))
           /\ Leads(K, Effect(from, Head(line)), Tail(line), to)
<1> DEFINE n == Len(line)
           rest == Tail(line)
           e == Head(line)
<1>1. PICK s : Ways(K, from, line, to, s)
  BY DEF Leads
<1>2. n \in Nat /\ n >= 1 /\ Len(rest) = n - 1 /\ line[1] = e /\ \A i \in 1 .. n - 1 : rest[i] = line[i + 1]
  OBVIOUS
<1> DEFINE t == [i \in 0 .. n - 1 |-> s[i + 1]]
<1> HIDE DEF n, rest, e
<1>3. Fits(K, from, e) /\ s[1] = Effect(from, e) /\ Holds(K, from) /\ Holds(K, s[1])
  <2>1. 1 \in 1 .. n /\ 1 - 1 = 0 /\ 0 \in 0 .. n /\ 1 \in 0 .. n
    BY <1>2
  <2> QED BY <1>1, <1>2, <2>1 DEF Ways, n
<1>4. t[0] = s[1] /\ t[n - 1] = to /\ t = [i \in 0 .. n - 1 |-> t[i]]
      /\ \A i \in 0 .. n - 1 : t[i] = s[i + 1]
  BY <1>1, <1>2 DEF Ways, n
<1> HIDE DEF t
<1>5. \A i \in 0 .. n - 1 : Holds(K, t[i])
  <2>1. \A i \in 0 .. n - 1 : i + 1 \in 0 .. n
    BY <1>2
  <2> QED BY <1>1, <1>4, <2>1 DEF Ways, n
<1>6. ASSUME NEW i \in 1 .. n - 1 PROVE Fits(K, t[i - 1], rest[i]) /\ t[i] = Effect(t[i - 1], rest[i])
  <2>1. i + 1 \in 1 .. n /\ i \in 0 .. n - 1 /\ i - 1 \in 0 .. n - 1 /\ (i - 1) + 1 = i /\ (i + 1) - 1 = i
    BY <1>2
  <2>2. t[i] = s[i + 1] /\ t[i - 1] = s[i] /\ rest[i] = line[i + 1]
    BY <1>2, <1>4, <2>1
  <2>3. Fits(K, s[(i + 1) - 1], line[i + 1]) /\ s[i + 1] = Effect(s[(i + 1) - 1], line[i + 1])
    BY <1>1, <2>1 DEF Ways, n
  <2> QED BY <2>1, <2>2, <2>3
<1>7. Ways(K, s[1], rest, to, t)
  BY <1>2, <1>4, <1>5, <1>6 DEF Ways
<1> QED BY <1>3, <1>7 DEF Leads, rest, e

LEMMA LeadsWider ==
    ASSUME NEW K, NEW J, K \subseteq J, NEW from, NEW line, NEW to, Leads(K, from, line, to)
    PROVE  Leads(J, from, line, to)
<1>1. PICK s : Ways(K, from, line, to, s)
  BY DEF Leads
<1>2. \A f : Holds(K, f) => Holds(J, f)
  BY DEF Holds
<1>3. \A f, e : Fits(K, f, e) => Fits(J, f, e)
  BY DEF Fits
<1>4. Ways(J, from, line, to, s)
  BY <1>1, <1>2, <1>3 DEF Ways
<1> QED BY <1>4 DEF Leads

\* Pods of the node, one of a name.
Pushable(K, pushed) ==
    /\ pushed \subseteq K
    /\ \A p, q \in pushed : p.name = q.name => p = q

\* What is known once the operations done of a push are.
Done(old, pushed, done) ==
    [u \in Uids |-> IF PodOf(pushed, u) = NoPod THEN NoPod
                    ELSE IF OpOf(old[u], PodOf(pushed, u)) \in done THEN PodOf(pushed, u) ELSE old[u]]

LEMMA PodOfIs ==
    ASSUME NEW K, Named(K), NEW pushed, Pushable(K, pushed)
    PROVE  /\ \A p \in pushed : p.uid \in Uids /\ p # NoPod /\ PodOf(pushed, p.uid) = p
           /\ \A u : PodOf(pushed, u) \in pushed \cup {NoPod}
           /\ \A u : PodOf(pushed, u) # NoPod => PodOf(pushed, u).uid = u
           /\ \A p, q \in pushed : p.uid = q.uid => p = q
<1>1. \A p \in pushed : p.uid \in Uids /\ p # NoPod
  BY NoPodIsNone DEF Named, Pushable, PodRecords
<1>2. \A p, q \in pushed : p.uid = q.uid => p = q
  BY DEF Named, Pushable
<1>3. ASSUME NEW p \in pushed PROVE PodOf(pushed, p.uid) = p
  BY <1>2 DEF PodOf
<1>4. ASSUME NEW u, PodOf(pushed, u) # NoPod
      PROVE  PodOf(pushed, u) \in pushed /\ PodOf(pushed, u).uid = u
  <2>1. \E p \in pushed : p.uid = u
    BY <1>4 DEF PodOf
  <2> QED BY <2>1 DEF PodOf
<1> QED BY <1>1, <1>2, <1>3, <1>4

LEMMA OpOfIs ==
    ASSUME NEW old, NEW new
    PROVE  /\ OpOf(old, new) \in {"ADD", "UPDATE", "DELETE", "RECONCILE", "NONE"}
           /\ OpOf(old, new) = "ADD" <=> old = NoPod
           /\ OpOf(old, new) = "RECONCILE" => old # NoPod /\ ~Differs(old, new)
           /\ OpOf(old, new) = "NONE" => old # NoPod /\ ~Differs(old, new) /\ old.status = new.status
<1>1. CASE old = NoPod
  BY <1>1 DEF OpOf
<1>2. CASE old # NoPod /\ Differs(old, new)
  BY <1>2 DEF OpOf
<1>3. CASE old # NoPod /\ ~Differs(old, new) /\ old.status # new.status
  BY <1>3 DEF OpOf
<1>4. CASE old # NoPod /\ ~Differs(old, new) /\ old.status = new.status
  BY <1>4 DEF OpOf
<1> QED BY <1>1, <1>2, <1>3, <1>4

\* Whatever has been done of a push, one pod of a name is known.
LEMMA DoneHolds ==
    ASSUME NEW K, Named(K), NEW old, Holds(K, old), NEW pushed, Pushable(K, pushed), NEW done
    PROVE  Holds(K, Done(old, pushed, done))
<1> DEFINE f == Done(old, pushed, done)
           new(u) == PodOf(pushed, u)
<1>1. \A u : new(u) \in pushed \cup {NoPod} /\ (new(u) # NoPod => new(u).uid = u)
  BY PodOfIs
<1>2. \A u \in Uids : f[u] = NoPod \/ (new(u) # NoPod /\ f[u] = new(u))
                      \/ (new(u) # NoPod /\ f[u] = old[u])
  BY DEF Done
<1>3. f = [u \in Uids |-> f[u]]
  BY DEF Done
<1> HIDE DEF f, new
<1>4. \A u \in Uids : f[u] \in K \cup {NoPod} /\ (f[u] # NoPod => f[u].uid = u)
  BY <1>1, <1>2 DEF Holds, Pushable
<1>5. \A u \in Uids : f[u] # NoPod => new(u) \in pushed /\ f[u].name = new(u).name
  BY <1>1, <1>2 DEF Holds, Pushable, Named
<1>6. ASSUME NEW u \in Uids, NEW v \in Uids, f[u] # NoPod, f[v] # NoPod, f[u].name = f[v].name
      PROVE  u = v
  <2>1. new(u) \in pushed /\ new(v) \in pushed /\ new(u).name = new(v).name
    BY <1>5, <1>6
  <2>2. new(u) = new(v)
    BY <2>1 DEF Pushable
  <2>3. new(u) # NoPod /\ new(v) # NoPod
    BY <2>1, PodOfIs
  <2> QED BY <1>1, <2>2, <2>3
<1>7. f \in [Uids -> K \cup {NoPod}]
  BY <1>3, <1>4
<1> QED BY <1>4, <1>6, <1>7 DEF Holds, f

\* Some operations of a push are on their way behind the line.
Sent(K, from, line, old, pushed, ops, done) ==
    /\ line \o ops \in Seq(OpRecords) /\ ops \in Seq(OpRecords)
    /\ Leads(K, from, line \o ops, Done(old, pushed, done))

\* One operation more is sent.
LEMMA SendsMore ==
    ASSUME NEW K, Named(K), NEW old, Holds(K, old), NEW pushed, Pushable(K, pushed), NEW seen,
           NEW op \in {"ADD", "UPDATE", "DELETE", "EMPTY", "RECONCILE"},
           NEW done, op \notin done, NEW next, next = done \cup {op},
           NEW from, NEW front \in Seq(OpRecords), NEW ops, Sent(K, from, front, old, pushed, ops, done)
    PROVE  Sent(K, from, front, old, pushed, ops \o Sends(old, pushed, seen, op), next)
<1> DEFINE line == front \o ops
           more == Sends(old, pushed, seen, op)
<1>a. ops \in Seq(OpRecords) /\ line \in Seq(OpRecords) /\ Leads(K, from, line, Done(old, pushed, done))
  BY DEF Sent
<1> HIDE DEF line, more
<1>b. SUFFICES /\ line \o more \in Seq(OpRecords) /\ more \in Seq(OpRecords)
               /\ Leads(K, from, line \o more, Done(old, pushed, next))
  <2> SUFFICES ASSUME line \o more \in Seq(OpRecords), more \in Seq(OpRecords),
                      Leads(K, from, line \o more, Done(old, pushed, next))
               PROVE  Sent(K, from, front, old, pushed, ops \o more, next)
    BY DEF more
  <2>1. line \o more = front \o (ops \o more)
    BY <1>a, ConcatAssociative DEF line
  <2>2. ops \o more \in Seq(OpRecords)
    BY <1>a
  <2> QED BY <2>1, <2>2 DEF Sent
<1> USE DEF more
<1> DEFINE f == Done(old, pushed, done)
           g == Done(old, pushed, next)
           due == Due(old, pushed, op)
           e == [op |-> op, pods |-> due]
<1>1. due = {p \in pushed : OpOf(old[p.uid], p) = op}
  BY DEF Due
<1>2. /\ \A p \in pushed : p.uid \in Uids /\ p # NoPod /\ PodOf(pushed, p.uid) = p
      /\ \A u : PodOf(pushed, u) \in pushed \cup {NoPod}
      /\ \A u : PodOf(pushed, u) # NoPod => PodOf(pushed, u).uid = u
      /\ \A p, q \in pushed : p.uid = q.uid => p = q
  BY PodOfIs
<1>3. \A u \in Uids : g[u] = IF PodOf(pushed, u) # NoPod /\ OpOf(old[u], PodOf(pushed, u)) = op
                             THEN PodOf(pushed, u) ELSE f[u]
  BY DEF Done
<1>4. g = [u \in Uids |-> g[u]] /\ f = [u \in Uids |-> f[u]]
  BY DEF Done
<1>5. ASSUME NEW u \in Uids
      PROVE  /\ (\E p \in due : p.uid = u) <=>
                (PodOf(pushed, u) # NoPod /\ OpOf(old[u], PodOf(pushed, u)) = op)
             /\ \A p \in due : p.uid = u => p = PodOf(pushed, u)
  BY <1>1, <1>2
<1>6. CASE Sends(old, pushed, seen, op) = <<>>
  <2>1. due = {}
    BY <1>6 DEF Sends
  <2>2. \A u \in Uids : g[u] = f[u]
    <3> HIDE DEF g, f, due
    <3> QED BY <1>3, <1>5, <2>1
  <2>3. g = f
    <3> HIDE DEF g, f
    <3> QED BY <1>4, <2>2
  <2>4. line \o <<>> = line /\ <<>> \in Seq(OpRecords)
    BY <1>a
  <2> QED BY <1>a, <1>6, <2>3, <2>4
<1>7. CASE Sends(old, pushed, seen, op) = <<e>>
  <2>1. due \subseteq K /\ due \subseteq PodRecords
    BY <1>1 DEF Pushable, Named
  <2>2. op \in OpKinds /\ op # "REMOVE"
    BY DEF OpKinds
  <2>3. e \in OpRecords
    <3> HIDE DEF due
    <3> QED BY <2>1, <2>2 DEF OpRecords
  <2>4. ASSUME op = "RECONCILE", NEW p \in due
        PROVE  f[p.uid] # NoPod /\ ~Differs(f[p.uid], p)
    <3>1. p \in pushed /\ OpOf(old[p.uid], p) = "RECONCILE"
      BY <1>1, <2>4
    <3>2. p.uid \in Uids /\ PodOf(pushed, p.uid) = p /\ p # NoPod
      BY <1>2, <3>1
    <3>3. f[p.uid] = old[p.uid]
      BY <2>4, <3>1, <3>2 DEF Done
    <3> QED BY <3>1, <3>3, OpOfIs
  <2>5. \A p, q \in due : p.uid = q.uid => p = q
    BY <1>1, <1>2
  <2>6. e.op = op /\ e.pods = due
    OBVIOUS
  <2>7. Effect(f, e) = g
    <3> HIDE DEF e, f, g, due
    <3>1. \A u \in Uids : Effect(f, e)[u] = g[u]
      <4> SUFFICES ASSUME NEW u \in Uids PROVE Effect(f, e)[u] = g[u]
        OBVIOUS
      <4>1. CASE \E p \in due : p.uid = u
        <5>1. (CHOOSE p \in due : p.uid = u) = PodOf(pushed, u)
          BY <1>5, <4>1
        <5> QED BY <1>3, <1>5, <2>2, <2>6, <4>1, <5>1 DEF Effect
      <4>2. CASE ~\E p \in due : p.uid = u
        BY <1>3, <1>5, <2>6, <4>2 DEF Effect
      <4> QED BY <4>1, <4>2
    <3>2. Effect(f, e) = [u \in Uids |-> Effect(f, e)[u]]
      BY DEF Effect
    <3> QED BY <1>4, <3>1, <3>2
  <2>8. Fits(K, f, e)
    <3> HIDE DEF e, f, g, due
    <3> QED BY <2>1, <2>2, <2>4, <2>5, <2>6 DEF Fits
  <2>9. Holds(K, g)
    BY DoneHolds
  <2> HIDE DEF e, f, g, due
  <2>10. Leads(K, from, line, f)
    BY <1>a DEF f
  <2>11. Leads(K, from, line \o <<e>>, Effect(f, e))
    BY <2>3, <2>7, <2>8, <2>9, <2>10, LeadsOn, <1>a
  <2>12. <<e>> \in Seq(OpRecords) /\ line \o <<e>> \in Seq(OpRecords)
    BY <1>a, <2>3
  <2> QED BY <1>7, <2>7, <2>11, <2>12 DEF g
<1> QED BY <1>6, <1>7 DEF Sends

\* First what is gone is removed.
LEMMA SendsRemovals ==
    ASSUME NEW K, Named(K), NEW old, Holds(K, old), NEW pushed, Pushable(K, pushed), NEW seen,
           NEW from, NEW line \in Seq(OpRecords), Leads(K, from, line, old)
    PROVE  /\ line \o Sends(old, pushed, seen, "REMOVE") \in Seq(OpRecords)
           /\ Sends(old, pushed, seen, "REMOVE") \in Seq(OpRecords)
           /\ Leads(K, from, line \o Sends(old, pushed, seen, "REMOVE"), Done(old, pushed, {}))
<1> DEFINE g == Done(old, pushed, {})
           due == Due(old, pushed, "REMOVE")
           e == [op |-> "REMOVE", pods |-> due]
<1>1. due = {old[u] : u \in {v \in Uids : old[v] # NoPod /\ PodOf(pushed, v) = NoPod}}
  BY DEF Due
<1>2. \A u \in Uids : g[u] = IF PodOf(pushed, u) = NoPod THEN NoPod ELSE old[u]
  BY DEF Done
<1>3. g = [u \in Uids |-> g[u]] /\ old = [u \in Uids |-> old[u]]
  BY DEF Done, Holds
<1> HIDE DEF g
<1>4. \A u \in Uids : (\E p \in due : p.uid = u) <=> (old[u] # NoPod /\ PodOf(pushed, u) = NoPod)
  BY <1>1 DEF Holds
<1>5. \A p \in due : p.uid \in Uids /\ old[p.uid] = p /\ p \in K
  BY <1>1 DEF Holds
<1>6. CASE Sends(old, pushed, seen, "REMOVE") = <<>>
  <2>1. due = {}
    BY <1>6 DEF Sends
  <2>2. \A u \in Uids : g[u] = old[u]
    <3> HIDE DEF due
    <3> QED BY <1>2, <1>4, <2>1
  <2>3. g = old
    BY <1>3, <2>2
  <2>4. line \o <<>> = line /\ <<>> \in Seq(OpRecords)
    OBVIOUS
  <2> QED BY <1>6, <2>3, <2>4 DEF g
<1>7. CASE Sends(old, pushed, seen, "REMOVE") = <<e>>
  <2>1. e.op = "REMOVE" /\ e.pods = due /\ "REMOVE" \in OpKinds
    BY DEF OpKinds
  <2>2. e \in OpRecords
    <3> HIDE DEF due
    <3>1. due \subseteq PodRecords
      BY <1>5 DEF Named
    <3> QED BY <2>1, <3>1 DEF OpRecords
  <2> HIDE DEF e, due
  <2>3. Effect(old, e) = g
    <3>1. \A u \in Uids : Effect(old, e)[u] = g[u]
      BY <1>2, <1>4, <2>1 DEF Effect
    <3>2. Effect(old, e) = [u \in Uids |-> Effect(old, e)[u]]
      BY DEF Effect
    <3> QED BY <1>3, <3>1, <3>2
  <2>4. Fits(K, old, e)
    <3>1. \A p, q \in due : p.uid = q.uid => p = q
      BY <1>5
    <3> QED BY <1>5, <2>1, <3>1 DEF Fits
  <2>5. Holds(K, g)
    BY DoneHolds DEF g
  <2>6. Leads(K, from, line \o <<e>>, Effect(old, e))
    BY <2>2, <2>3, <2>4, <2>5, LeadsOn
  <2>7. <<e>> \in Seq(OpRecords) /\ line \o <<e>> \in Seq(OpRecords)
    BY <2>2
  <2> QED BY <1>7, <2>3, <2>6, <2>7 DEF g
<1> QED BY <1>6, <1>7 DEF Sends

\* All operations of a push lead to the pods pushed.
LEMMA PushLeads ==
    ASSUME NEW K, Named(K), NEW old, Holds(K, old), NEW pushed, Pushable(K, pushed), NEW seen,
           NEW from, NEW line \in Seq(OpRecords), Leads(K, from, line, old)
    PROVE  /\ Operations(old, pushed, seen) \in Seq(OpRecords)
           /\ Leads(K, from, line \o Operations(old, pushed, seen), [u \in Uids |-> PodOf(pushed, u)])
<1> DEFINE Of(op) == Sends(old, pushed, seen, op)
<1>1. Sent(K, from, line, old, pushed, Of("REMOVE"), {})
  BY SendsRemovals DEF Sent
<1>2. ASSUME NEW ops, NEW done, Sent(K, from, line, old, pushed, ops, done),
             NEW op \in {"ADD", "UPDATE", "DELETE", "EMPTY", "RECONCILE"}, op \notin done
      PROVE  Sent(K, from, line, old, pushed, ops \o Of(op), done \cup {op})
  BY <1>2, SendsMore
<1> HIDE DEF Of
<1> DEFINE o1 == Of("REMOVE") \o Of("ADD")
           o2 == o1 \o Of("UPDATE")
           o3 == o2 \o Of("DELETE")
           o4 == o3 \o Of("EMPTY")
           o5 == o4 \o Of("RECONCILE")
           d1 == {} \cup {"ADD"}
           d2 == d1 \cup {"UPDATE"}
           d3 == d2 \cup {"DELETE"}
           d4 == d3 \cup {"EMPTY"}
           d5 == d4 \cup {"RECONCILE"}
<1>3. Sent(K, from, line, old, pushed, o1, d1)
  BY <1>1, <1>2
<1>4. Sent(K, from, line, old, pushed, o2, d2)
  <2> HIDE DEF o1
  <2> QED BY <1>2, <1>3
<1>5. Sent(K, from, line, old, pushed, o3, d3)
  <2> HIDE DEF o2
  <2> QED BY <1>2, <1>4
<1>6. Sent(K, from, line, old, pushed, o4, d4)
  <2> HIDE DEF o3
  <2> QED BY <1>2, <1>5
<1>7. Sent(K, from, line, old, pushed, o5, d5)
  <2> HIDE DEF o4
  <2> QED BY <1>2, <1>6
<1>8. Operations(old, pushed, seen) = o5
  BY DEF Operations, Of
<1> HIDE DEF o5
<1>9. Done(old, pushed, d5) = [u \in Uids |-> PodOf(pushed, u)]
  <2> DEFINE f == Done(old, pushed, d5)
  <2>1. f = [u \in Uids |-> f[u]]
    BY DEF Done
  <2>2. ASSUME NEW u \in Uids PROVE f[u] = PodOf(pushed, u)
    <3> DEFINE new == PodOf(pushed, u)
    <3>1. new \in pushed \cup {NoPod} /\ (new # NoPod => new.uid = u)
      BY PodOfIs
    <3>2. CASE new = NoPod
      BY <3>2 DEF Done
    <3>3. CASE new # NoPod /\ OpOf(old[u], new) \in d5
      BY <3>3 DEF Done
    <3>4. CASE new # NoPod /\ OpOf(old[u], new) \notin d5
      <4>1. f[u] = old[u]
        BY <3>4 DEF Done
      <4> HIDE DEF new, f
      <4>2. OpOf(old[u], new) = "NONE"
        BY <3>4, OpOfIs
      <4>3. old[u] # NoPod /\ ~Differs(old[u], new) /\ old[u].status = new.status
        BY <4>2, OpOfIs
      <4>4. old[u] \in K /\ new \in K /\ old[u].uid = u /\ new.uid = u
        BY <3>1, <3>4, <4>3 DEF Holds, Pushable
      <4>5. old[u].name = new.name /\ old[u].bound = TRUE /\ new.bound = TRUE
            /\ old[u] \in PodRecords /\ new \in PodRecords
        BY <4>4 DEF Named, PodRecords
      <4>6. old[u].spec = new.spec /\ old[u].deleting = new.deleting
        BY <4>3 DEF Differs
      <4>7. old[u] = new
        BY <4>3, <4>4, <4>5, <4>6 DEF PodRecords
      <4> QED BY <4>1, <4>7 DEF new
    <3> QED BY <3>2, <3>3, <3>4
  <2> HIDE DEF f
  <2> QED BY <2>1, <2>2 DEF f
<1> QED BY <1>7, <1>8, <1>9 DEF Sent

\* The first push is sent as one operation, whatever it holds.
LEMMA FirstPush ==
    ASSUME NEW K, Named(K), NEW old, \A u \in Uids : old[u] = NoPod, NEW pushed, Pushable(K, pushed)
    PROVE  \E op \in {"ADD", "EMPTY"} :
              Operations(old, pushed, FALSE) = <<[op |-> op, pods |-> pushed]>>
<1> DEFINE Of(op) == Sends(old, pushed, FALSE, op)
<1>1. \A p \in pushed : OpOf(old[p.uid], p) = "ADD"
  BY PodOfIs, OpOfIs
<1>2. Due(old, pushed, "REMOVE") = {}
  BY DEF Due
<1>3. Due(old, pushed, "ADD") = pushed
  BY <1>1 DEF Due
<1>4. \A op \in {"UPDATE", "DELETE", "EMPTY", "RECONCILE"} : Due(old, pushed, op) = {}
  BY <1>1 DEF Due
<1>5. Of("REMOVE") = <<>> /\ Of("UPDATE") = <<>> /\ Of("DELETE") = <<>> /\ Of("RECONCILE") = <<>>
  BY <1>2, <1>4 DEF Sends
<1>6. CASE pushed = {}
  <2>1. Of("ADD") = <<>> /\ Of("EMPTY") = <<[op |-> "EMPTY", pods |-> pushed]>>
    BY <1>3, <1>4, <1>6 DEF Sends
  <2> HIDE DEF Of
  <2>2. Operations(old, pushed, FALSE) = Of("EMPTY")
    <3>1. Operations(old, pushed, FALSE) = <<>> \o <<>> \o <<>> \o <<>> \o Of("EMPTY") \o <<>>
      BY <1>5, <2>1 DEF Operations, Of
    <3> DEFINE x == Of("EMPTY")
    <3>2. x \in Seq({x[1]})
      BY <2>1
    <3> HIDE DEF x
    <3>3. <<>> \o x = x /\ x \o <<>> = x /\ <<>> \o <<>> = <<>>
      BY <3>2
    <3> QED BY <3>1, <3>3 DEF x
  <2> QED BY <2>1, <2>2
<1>7. CASE pushed # {}
  <2>1. Of("ADD") = <<[op |-> "ADD", pods |-> pushed]>> /\ Of("EMPTY") = <<>>
    BY <1>3, <1>4, <1>7 DEF Sends
  <2> HIDE DEF Of
  <2>2. Operations(old, pushed, FALSE) = Of("ADD")
    <3>1. Operations(old, pushed, FALSE) = <<>> \o Of("ADD") \o <<>> \o <<>> \o <<>> \o <<>>
      BY <1>5, <2>1 DEF Operations, Of
    <3> DEFINE x == Of("ADD")
    <3>2. x \in Seq({x[1]})
      <4> DEFINE e == [op |-> "ADD", pods |-> pushed]
      <4>1. x = <<e>>
        BY <2>1
      <4> HIDE DEF e, x
      <4> QED BY <4>1
    <3> HIDE DEF x
    <3>3. <<>> \o x = x /\ x \o <<>> = x
      BY <3>2
    <3> QED BY <3>1, <3>3 DEF x
  <2> QED BY <2>1, <2>2
<1> QED BY <1>6, <1>7

----
(* PodSource: the events that the store has not taken lead it to the pods   *)
(* of the server.                                                           *)

Events == [name : PodNames, pod : PodRecords \cup {NoPod}, matches : BOOLEAN]

Taken(f, e) == IF e.matches THEN [f EXCEPT ![e.name] = e.pod] ELSE f

Trail(lg, pos, f, goal, s) ==
    /\ s[pos] = f /\ s[Len(lg)] = goal
    /\ \A i \in pos + 1 .. Len(lg) : s[i] = Taken(s[i - 1], lg[i])
Catches(lg, pos, f, goal) == \E s : Trail(lg, pos, f, goal, s)

LEMMA CaughtUp ==
    ASSUME NEW lg, NEW f
    PROVE  /\ Len(lg) \in Nat => Catches(lg, Len(lg), f, f)
           /\ \A goal : Catches(lg, Len(lg), f, goal) => f = goal
<1>1. ASSUME Len(lg) \in Nat PROVE Catches(lg, Len(lg), f, f)
  <2> DEFINE n == Len(lg)
             s == [i \in {n} |-> f]
  <2>1. s[n] = f /\ n + 1 .. n = {}
    BY <1>1
  <2>2. Trail(lg, n, f, f, s)
    BY <2>1 DEF Trail
  <2> QED BY <2>2 DEF Catches
<1>2. ASSUME NEW goal, Catches(lg, Len(lg), f, goal) PROVE f = goal
  BY <1>2 DEF Catches, Trail
<1> QED BY <1>1, <1>2

LEMMA LogGrows ==
    ASSUME NEW lg \in Seq(Events), NEW pos \in 0 .. Len(lg), NEW f, NEW goal,
           Catches(lg, pos, f, goal), NEW e \in Events
    PROVE  Catches(Append(lg, e), pos, f, Taken(goal, e))
<1> DEFINE n == Len(lg)
           long == Append(lg, e)
<1>1. PICK s : Trail(lg, pos, f, goal, s)
  BY DEF Catches
<1>2. n \in Nat /\ pos \in 0 .. n /\ Len(long) = n + 1 /\ long[n + 1] = e
      /\ \A i \in 1 .. n : long[i] = lg[i]
  OBVIOUS
<1> DEFINE t == [i \in 0 .. n + 1 |-> IF i = n + 1 THEN Taken(goal, e) ELSE s[i]]
<1> HIDE DEF long, n
<1>3. t[n + 1] = Taken(goal, e) /\ \A i \in 0 .. n : t[i] = s[i]
  BY <1>2
<1> HIDE DEF t
<1>4. ASSUME NEW i \in pos + 1 .. n + 1 PROVE t[i] = Taken(t[i - 1], long[i])
  <2>1. CASE i = n + 1
    <3>1. i - 1 = n /\ n \in 0 .. n
      BY <1>2, <2>1
    <3>2. t[i - 1] = goal
      BY <1>1, <1>3, <3>1 DEF Trail, n
    <3> QED BY <1>2, <1>3, <2>1, <3>2
  <2>2. CASE i # n + 1
    <3>1. i \in pos + 1 .. n /\ i \in 1 .. n /\ i \in 0 .. n /\ i - 1 \in 0 .. n
      BY <1>2, <2>2
    <3>2. s[i] = Taken(s[i - 1], lg[i])
      BY <1>1, <3>1 DEF Trail, n
    <3> QED BY <1>2, <1>3, <3>1, <3>2
  <2> QED BY <2>1, <2>2
<1>5. t[pos] = f
  BY <1>1, <1>2, <1>3 DEF Trail
<1>6. Trail(long, pos, f, Taken(goal, e), t)
  BY <1>2, <1>3, <1>4, <1>5 DEF Trail
<1> QED BY <1>6 DEF Catches, long

LEMMA TakesNext ==
    ASSUME NEW lg, Len(lg) \in Nat, NEW pos \in Nat, pos < Len(lg), NEW f, NEW goal,
           Catches(lg, pos, f, goal)
    PROVE  Catches(lg, pos + 1, Taken(f, lg[pos + 1]), goal)
<1>1. PICK s : Trail(lg, pos, f, goal, s)
  BY DEF Catches
<1>2. pos + 1 \in pos + 1 .. Len(lg) /\ (pos + 1) - 1 = pos
  OBVIOUS
<1>3. s[pos + 1] = Taken(f, lg[pos + 1])
  BY <1>1, <1>2 DEF Trail
<1>4. \A i \in (pos + 1) + 1 .. Len(lg) : i \in pos + 1 .. Len(lg)
  OBVIOUS
<1>5. Trail(lg, pos + 1, Taken(f, lg[pos + 1]), goal, s)
  BY <1>1, <1>3, <1>4 DEF Trail
<1> QED BY <1>5 DEF Catches

\* The events that the selector leaves out change nothing.
LEMMA SkipsOthers ==
    ASSUME NEW lg, Len(lg) \in Nat, NEW pos \in Nat, NEW j \in pos .. Len(lg), NEW f, NEW goal,
           Catches(lg, pos, f, goal), \A i \in pos + 1 .. j : ~lg[i].matches
    PROVE  Catches(lg, j, f, goal)
<1> DEFINE S == {m \in Nat : pos + m <= j => Catches(lg, pos + m, f, goal)}
<1>1. 0 \in S
  <2>1. pos + 0 = pos
    OBVIOUS
  <2> QED BY <2>1
<1>2. ASSUME NEW m \in Nat, m \in S PROVE m + 1 \in S
  <2> SUFFICES ASSUME pos + (m + 1) <= j PROVE Catches(lg, pos + (m + 1), f, goal)
    OBVIOUS
  <2> DEFINE at == pos + m
  <2>1. at \in Nat /\ at < Len(lg) /\ at + 1 \in pos + 1 .. j /\ at + 1 = pos + (m + 1) /\ at <= j
    OBVIOUS
  <2>2. Catches(lg, at, f, goal)
    BY <1>2, <2>1
  <2> HIDE DEF at
  <2>3. Catches(lg, at + 1, Taken(f, lg[at + 1]), goal)
    BY <2>1, <2>2, TakesNext
  <2>4. Taken(f, lg[at + 1]) = f
    BY <2>1 DEF Taken
  <2> QED BY <2>1, <2>3, <2>4
<1>3. j - pos \in Nat /\ pos + (j - pos) = j /\ j <= j
  OBVIOUS
<1>4. j - pos \in S
  <2> HIDE DEF S
  <2> QED BY <1>1, <1>2, <1>3, SetInduction
<1> QED BY <1>3, <1>4

----
(* PodSource: the API server.                                               *)

Servers == [pods : [PodNames -> PodRecords \cup {NoPod}], log : Seq(Events), compacted : Nat,
            created : 0 .. MaxUids, changes : Nat]

\* The log knows every pod, and knows no uid by two names.
ServerGood(sv) ==
    /\ sv \in Servers
    /\ \A n \in PodNames : sv.pods[n] # NoPod =>
          sv.pods[n].name = n /\ \E i \in 1 .. Len(sv.log) : sv.log[i].pod = sv.pods[n]
    /\ \A i \in 1 .. Len(sv.log) : sv.log[i].pod # NoPod =>
          /\ sv.log[i].pod.name = sv.log[i].name /\ sv.log[i].pod.uid <= sv.created
          /\ sv.log[i].matches => sv.log[i].pod.bound
    /\ \A i, j \in 1 .. Len(sv.log) :
          sv.log[i].pod # NoPod /\ sv.log[j].pod # NoPod /\ sv.log[i].pod.uid = sv.log[j].pod.uid
          => sv.log[i].pod.name = sv.log[j].pod.name

\* The versions of pods that were bound to the node.
KnownPods(lg) == {p \in PodRecords : p.bound /\ \E i \in 1 .. Len(lg) : lg[i].pod = p}

LEMMA KnownAreNamed ==
    ASSUME NEW sv, ServerGood(sv)
    PROVE  Named(KnownPods(sv.log))
<1>1. \A p \in KnownPods(sv.log) : p \in PodRecords /\ p.bound /\ p # NoPod
  BY NoPodIsNone DEF KnownPods
<1>2. ASSUME NEW p \in KnownPods(sv.log), NEW q \in KnownPods(sv.log), p.uid = q.uid
      PROVE  p.name = q.name
  <2>1. PICK i \in 1 .. Len(sv.log) : sv.log[i].pod = p
    BY DEF KnownPods
  <2>2. PICK j \in 1 .. Len(sv.log) : sv.log[j].pod = q
    BY DEF KnownPods
  <2> QED BY <1>1, <1>2, <2>1, <2>2 DEF ServerGood
<1> QED BY <1>1, <1>2 DEF Named

\* What was bound and what is not are told apart.
LEMMA NoPodIsUnbound == NoPod.bound = FALSE
BY DEF NoPod

\* The pod is a new one or that of the name, and keeps its node.
Succeeds(sv, n, pod, s) ==
    /\ s \in Servers /\ s.pods = sv.pods /\ s.log = sv.log /\ s.created >= sv.created
    /\ pod # NoPod =>
          /\ pod.name = n /\ pod.uid <= s.created /\ (sv.pods[n].bound => pod.bound)
          /\ \/ sv.pods[n] # NoPod /\ sv.pods[n].uid = pod.uid
             \/ \A i \in 1 .. Len(sv.log) : sv.log[i].pod # NoPod => sv.log[i].pod.uid # pod.uid
Logged(s, n, pod) ==
    [s EXCEPT !.pods[n] = pod,
              !.log = Append(@, [name |-> n, pod |-> pod, matches |-> pod.bound \/ s.pods[n].bound])]

LEMMA LogsIsGood ==
    ASSUME NEW sv, ServerGood(sv), NEW n \in PodNames, NEW pod \in PodRecords \cup {NoPod},
           NEW s, Succeeds(sv, n, pod, s), NEW w, w = Logged(s, n, pod)
    PROVE  /\ ServerGood(w)
           /\ \E e \in Events : /\ w.log = Append(sv.log, e)
                                /\ OnNode(w.pods) = Taken(OnNode(sv.pods), e)
<1> DEFINE e == [name |-> n, pod |-> pod, matches |-> pod.bound \/ s.pods[n].bound]
           lg == sv.log
           m == Len(lg)
<1>0. /\ s \in Servers /\ s.pods = sv.pods /\ s.log = sv.log /\ s.created >= sv.created
      /\ pod # NoPod =>
            /\ pod.name = n /\ pod.uid <= s.created /\ (sv.pods[n].bound => pod.bound)
            /\ \/ sv.pods[n] # NoPod /\ sv.pods[n].uid = pod.uid
               \/ \A i \in 1 .. Len(sv.log) : sv.log[i].pod # NoPod => sv.log[i].pod.uid # pod.uid
      /\ w = [s EXCEPT !.pods[n] = pod,
                       !.log = Append(@, [name |-> n, pod |-> pod,
                                          matches |-> pod.bound \/ s.pods[n].bound])]
  BY DEF Succeeds, Logged
<1>1. /\ sv.pods \in [PodNames -> PodRecords \cup {NoPod}] /\ lg \in Seq(Events)
      /\ sv.created \in 0 .. MaxUids /\ s.created \in 0 .. MaxUids
  BY <1>0 DEF ServerGood, Servers
<1>2. pod.bound \in BOOLEAN /\ \A k \in PodNames : sv.pods[k].bound \in BOOLEAN
  <2>1. \A p \in PodRecords \cup {NoPod} : p.bound \in BOOLEAN
    BY NoPodIsUnbound DEF PodRecords
  <2> QED BY <1>1, <2>1
<1>3. e \in Events /\ e.name = n /\ e.pod = pod /\ e.matches = (pod.bound \/ sv.pods[n].bound)
  BY <1>0, <1>2 DEF Events
<1> HIDE DEF e
<1>4. /\ w.pods = [sv.pods EXCEPT ![n] = pod] /\ w.log = Append(lg, e) /\ w.created = s.created
      /\ w.compacted = s.compacted /\ w.changes = s.changes
      /\ w = [pods |-> w.pods, log |-> w.log, compacted |-> w.compacted, created |-> w.created,
              changes |-> w.changes]
  BY <1>0 DEF Servers, e
<1>5. /\ Append(lg, e) \in Seq(Events) /\ Len(Append(lg, e)) = m + 1 /\ m \in Nat
      /\ Append(lg, e)[m + 1] = e /\ \A i \in 1 .. m : Append(lg, e)[i] = lg[i]
  BY <1>1, <1>3
<1>6. /\ w.log \in Seq(Events) /\ Len(w.log) = m + 1 /\ w.log[m + 1] = e
      /\ \A i \in 1 .. m : w.log[i] = sv.log[i]
  BY <1>4, <1>5
<1>7. \A i \in 1 .. m + 1 : i \in 1 .. m \/ i = m + 1
  BY <1>5
<1>8. w \in Servers
  <2>1. w.pods \in [PodNames -> PodRecords \cup {NoPod}]
    BY <1>1, <1>4
  <2>2. w.compacted \in Nat /\ w.changes \in Nat /\ w.created \in 0 .. MaxUids
    BY <1>0, <1>4 DEF Servers
  <2> QED BY <1>4, <1>6, <2>1, <2>2 DEF Servers
<1> HIDE DEF m, lg
<1>9. ASSUME NEW k \in PodNames, w.pods[k] # NoPod
      PROVE  w.pods[k].name = k /\ \E i \in 1 .. Len(w.log) : w.log[i].pod = w.pods[k]
  <2>1. CASE k = n
    <3>1. w.pods[k] = pod /\ m + 1 \in 1 .. m + 1
      BY <1>1, <1>4, <1>5, <2>1
    <3> QED BY <1>0, <1>3, <1>6, <1>9, <2>1, <3>1
  <2>2. CASE k # n
    <3>1. w.pods[k] = sv.pods[k]
      BY <1>1, <1>4, <2>2
    <3>2. PICK i \in 1 .. m : sv.log[i].pod = sv.pods[k]
      BY <1>9, <3>1 DEF ServerGood, m, lg
    <3>3. sv.pods[k].name = k
      BY <1>9, <3>1 DEF ServerGood
    <3>4. i \in 1 .. m + 1
      BY <1>5
    <3> QED BY <1>6, <3>1, <3>2, <3>3, <3>4
  <2> QED BY <2>1, <2>2
<1>10. ASSUME NEW i \in 1 .. m + 1, w.log[i].pod # NoPod
       PROVE  /\ w.log[i].pod.name = w.log[i].name /\ w.log[i].pod.uid <= w.created
              /\ w.log[i].matches => w.log[i].pod.bound
  <2>1. CASE i = m + 1
    BY <1>0, <1>2, <1>3, <1>4, <1>6, <1>10, <2>1
  <2>2. CASE i \in 1 .. m
    <3>1. w.log[i] = sv.log[i]
      BY <1>6, <2>2
    <3>2. sv.log[i].pod.name = sv.log[i].name /\ sv.log[i].pod.uid <= sv.created
          /\ (sv.log[i].matches => sv.log[i].pod.bound)
      BY <1>10, <2>2, <3>1 DEF ServerGood, m, lg
    <3>3. sv.log[i].pod.uid \in Int
      <4>1. sv.log[i] \in Events
        BY <1>1, <2>2 DEF m, lg
      <4>2. sv.log[i].pod \in PodRecords
        BY <1>10, <3>1, <4>1 DEF Events
      <4> QED BY <4>2 DEF PodRecords, Uids
    <3>4. \A a, b, c \in Int : a <= b /\ c >= b => a <= c
      OBVIOUS
    <3>5. sv.created \in Int /\ s.created \in Int
      BY <1>1
    <3>6. sv.log[i].pod.uid <= s.created
      BY <1>0, <3>2, <3>3, <3>4, <3>5
    <3> QED BY <1>4, <3>1, <3>2, <3>6
  <2> QED BY <1>7, <2>1, <2>2
<1>11. ASSUME pod # NoPod, NEW i \in 1 .. m, sv.log[i].pod # NoPod, sv.log[i].pod.uid = pod.uid
       PROVE  sv.log[i].pod.name = pod.name
  <2>1. sv.pods[n] # NoPod /\ sv.pods[n].uid = pod.uid
    BY <1>0, <1>11 DEF m, lg
  <2>2. PICK j \in 1 .. m : sv.log[j].pod = sv.pods[n]
    BY <2>1 DEF ServerGood, m, lg
  <2>3. sv.log[i].pod.name = sv.log[j].pod.name
    BY <1>11, <2>1, <2>2 DEF ServerGood, m, lg
  <2>4. sv.pods[n].name = n
    BY <2>1 DEF ServerGood
  <2> QED BY <1>0, <1>11, <2>2, <2>3, <2>4
<1>12. ASSUME NEW i \in 1 .. m + 1, NEW j \in 1 .. m + 1, w.log[i].pod # NoPod, w.log[j].pod # NoPod,
              w.log[i].pod.uid = w.log[j].pod.uid
       PROVE  w.log[i].pod.name = w.log[j].pod.name
  <2>1. CASE i \in 1 .. m /\ j \in 1 .. m
    BY <1>6, <1>12, <2>1 DEF ServerGood, m, lg
  <2>2. CASE i = m + 1 /\ j \in 1 .. m
    BY <1>3, <1>6, <1>11, <1>12, <2>2
  <2>3. CASE i \in 1 .. m /\ j = m + 1
    BY <1>3, <1>6, <1>11, <1>12, <2>3
  <2>4. CASE i = m + 1 /\ j = m + 1
    BY <2>4
  <2> QED BY <1>7, <2>1, <2>2, <2>3, <2>4
<1>13. ServerGood(w)
  BY <1>6, <1>8, <1>9, <1>10, <1>12 DEF ServerGood
<1>14. OnNode(w.pods) = Taken(OnNode(sv.pods), e)
  <2> DEFINE f == OnNode(w.pods)
             g == OnNode(sv.pods)
             h == Taken(g, e)
  <2>1. \A k \in PodNames : /\ f[k] = IF w.pods[k].bound THEN w.pods[k] ELSE NoPod
                            /\ g[k] = IF sv.pods[k].bound THEN sv.pods[k] ELSE NoPod
    BY DEF OnNode
  <2>2. f = [k \in PodNames |-> f[k]] /\ g = [k \in PodNames |-> g[k]]
    BY DEF OnNode
  <2>3. \A k \in PodNames : w.pods[k] = IF k = n THEN pod ELSE sv.pods[k]
    BY <1>1, <1>4
  <2> HIDE DEF f, g
  <2>4. h = [k \in PodNames |-> h[k]] /\ \A k \in PodNames : h[k] = IF e.matches /\ k = n THEN pod ELSE g[k]
    <3>1. CASE e.matches
      <4>1. h = [g EXCEPT ![n] = pod]
        BY <1>3, <3>1 DEF Taken
      <4> QED BY <2>2, <3>1, <4>1
    <3>2. CASE ~e.matches
      <4>1. h = g
        BY <3>2 DEF Taken
      <4> QED BY <2>2, <3>2, <4>1
    <3> QED BY <3>1, <3>2
  <2> HIDE DEF h
  <2>5. ASSUME NEW k \in PodNames PROVE f[k] = h[k]
    <3>1. CASE k # n
      BY <2>1, <2>3, <2>4, <3>1
    <3>2. CASE k = n /\ e.matches
      <4>1. pod.bound \/ pod = NoPod
        BY <1>0, <1>3, <3>2
      <4>2. f[k] = pod
        BY <2>1, <2>3, <3>2, <4>1
      <4> QED BY <2>4, <3>2, <4>2
    <3>3. CASE k = n /\ ~e.matches
      <4>1. ~pod.bound /\ ~sv.pods[n].bound
        BY <1>0, <1>2, <1>3, <3>3
      <4> QED BY <2>1, <2>3, <2>4, <3>3, <4>1
    <3> QED BY <3>1, <3>2, <3>3
  <2> QED BY <2>2, <2>4, <2>5 DEF f, h, g
<1> QED BY <1>3, <1>4, <1>13, <1>14 DEF lg

----
(* PodSource: the pod manager and the pod workers.                          *)

Managers == [byUid : [Uids -> PodRecords \cup {NoPod}], byName : [PodNames -> Nat], ready : BOOLEAN]
Tolds == [Uids -> [state : {"none", "running", "killed"}, spec : Nat, deleting : BOOLEAN]]

\* The index of names is that of the pods known.
Indexed(f, byName) ==
    \A n \in PodNames :
        /\ byName[n] # 0 => byName[n] \in Uids /\ f[byName[n]] # NoPod /\ f[byName[n]].name = n
        /\ byName[n] = 0 => \A u \in Uids : f[u] # NoPod => f[u].name # n

\* The workers run what the manager knows, as it knows it.
Runs(f, tl) ==
    \A u \in Uids : IF f[u] = NoPod THEN tl[u].state # "running"
                    ELSE tl[u] = [state |-> "running", spec |-> f[u].spec, deleting |-> f[u].deleting]

\* Until the first operation is handled it is at the head of the line.
Readies(m, tl, line, seen, first) ==
    /\ ~m.ready => \A u \in Uids : m.byUid[u] = NoPod
    /\ line # <<>> \/ m.ready => seen
    /\ seen /\ ~m.ready => /\ line # <<>> /\ Head(line).op \in {"ADD", "EMPTY"}
                           /\ \A u \in first : \E p \in Head(line).pods : p.uid = u
    /\ m.ready => \A u \in first : tl[u].state # "none"
    /\ first \subseteq Uids

PipeGood(K, m, tl, line, pods, seen, first) ==
    /\ m \in Managers /\ tl \in Tolds /\ line \in Seq(OpRecords)
    /\ Leads(K, m.byUid, line, pods)
    /\ Indexed(m.byUid, m.byName) /\ Runs(m.byUid, tl)
    /\ Readies(m, tl, line, seen, first)
    /\ ~seen => (\A u \in Uids : pods[u] = NoPod) /\ first = {}

LEMMA IndexMoves ==
    ASSUME NEW K, Named(K), NEW f, Holds(K, f), NEW byName \in [PodNames -> Nat], Indexed(f, byName),
           NEW e, Fits(K, f, e), NEW named \in [PodNames -> Nat],
           \A n \in PodNames :
               named[n] = IF \E p \in e.pods : p.name = n
                          THEN IF e.op = "REMOVE" THEN 0 ELSE (CHOOSE p \in e.pods : p.name = n).uid
                          ELSE byName[n]
    PROVE  Indexed(Effect(f, e), named)
<1> DEFINE g == Effect(f, e)
<1>1. \A p \in e.pods : p \in K /\ p.uid \in Uids /\ p # NoPod /\ p.uid # 0
  BY NoPodIsNone DEF Fits, Named, PodRecords, Uids
<1>2. \A p, q \in e.pods : p.uid = q.uid => p = q
  BY DEF Fits
<1>3. \A u \in Uids : f[u] # NoPod => f[u] \in K /\ f[u].uid = u
  BY DEF Holds
<1>4. \A u \in Uids : ~(\E p \in e.pods : p.uid = u) => g[u] = f[u]
  BY DEF Effect
<1>5. e.op = "REMOVE" => \A p \in e.pods : f[p.uid] = p /\ g[p.uid] = NoPod
  BY <1>1 DEF Effect, Fits
<1>6. e.op # "REMOVE" => \A p \in e.pods : g[p.uid] = p
  BY <1>1, <1>2 DEF Effect
<1> HIDE DEF g
<1>7. \A p, q \in K : p.uid = q.uid => p.name = q.name
  BY DEF Named
<1> SUFFICES ASSUME NEW n \in PodNames
             PROVE  /\ named[n] # 0 => named[n] \in Uids /\ g[named[n]] # NoPod /\ g[named[n]].name = n
                    /\ named[n] = 0 => \A u \in Uids : g[u] # NoPod => g[u].name # n
  BY DEF Indexed, g
<1>8. CASE (\E p \in e.pods : p.name = n) /\ e.op # "REMOVE"
  <2> DEFINE q == CHOOSE p \in e.pods : p.name = n
  <2>1. q \in e.pods /\ q.name = n
    BY <1>8
  <2>2. named[n] = q.uid
    BY <1>8
  <2> HIDE DEF q
  <2>3. g[q.uid] = q /\ q # NoPod /\ q.uid \in Uids /\ q.uid # 0
    BY <1>1, <1>6, <1>8, <2>1
  <2> QED BY <2>1, <2>2, <2>3
<1>9. CASE (\E p \in e.pods : p.name = n) /\ e.op = "REMOVE"
  <2>1. PICK p \in e.pods : p.name = n
    BY <1>9
  <2>2. f[p.uid] = p /\ g[p.uid] = NoPod /\ p # NoPod /\ p.uid \in Uids
    BY <1>1, <1>5, <1>9
  <2>3. ASSUME NEW u \in Uids, g[u] # NoPod PROVE g[u].name # n
    <3>1. g[u] = f[u]
      BY <1>4, <1>5, <1>9, <2>3
    <3>2. ASSUME f[u].name = n PROVE FALSE
      <4>1. u = p.uid
        BY <2>1, <2>2, <2>3, <3>1, <3>2 DEF Holds
      <4> QED BY <2>2, <2>3, <4>1
    <3> QED BY <3>1, <3>2
  <2>4. named[n] = 0
    BY <1>9
  <2> QED BY <2>3, <2>4
<1>10. CASE ~\E p \in e.pods : p.name = n
  <2>1. named[n] = byName[n]
    BY <1>10
  <2>2. ASSUME NEW u \in Uids, f[u] # NoPod, f[u].name = n PROVE g[u] = f[u]
    <3>1. ~\E p \in e.pods : p.uid = u
      BY <1>1, <1>3, <1>7, <1>10, <2>2
    <3> QED BY <1>4, <3>1
  <2>3. ASSUME NEW u \in Uids, g[u] # NoPod, g[u].name = n PROVE f[u] # NoPod /\ f[u].name = n
    <3>1. ~\E p \in e.pods : p.uid = u
      BY <1>5, <1>6, <1>10, <2>3
    <3> QED BY <1>4, <2>3, <3>1
  <2>4. /\ byName[n] # 0 => byName[n] \in Uids /\ f[byName[n]] # NoPod /\ f[byName[n]].name = n
        /\ byName[n] = 0 => \A u \in Uids : f[u] # NoPod => f[u].name # n
    BY DEF Indexed
  <2> QED BY <2>1, <2>2, <2>3, <2>4
<1> QED BY <1>8, <1>9, <1>10

LEMMA HandleIsGood ==
    ASSUME NEW K, Named(K), NEW line, line # <<>>,
           updates # <<>>, Head(updates) = Head(line),
           PipeGood(K, manager, told, line, storage.pods, storage.seen, storage.first), HandleUpdate
    PROVE  PipeGood(K, manager', told', Tail(line), storage.pods, storage.seen, storage.first)
<1> DEFINE e == Head(line)
           f == manager.byUid
           g == Effect(f, e)
<1>1. /\ Holds(K, f) /\ Fits(K, f, e) /\ Holds(K, g) /\ Leads(K, g, Tail(line), storage.pods)
      /\ manager \in Managers /\ told \in Tolds /\ line \in Seq(OpRecords)
      /\ Indexed(f, manager.byName) /\ Runs(f, told)
  BY LeadsPast DEF PipeGood
<1>2. Readies(manager, told, line, storage.seen, storage.first) /\ storage.seen
  BY DEF PipeGood, Readies
<1>3. /\ e.op \in OpKinds /\ \A p \in e.pods : p \in K /\ p \in PodRecords /\ p.uid \in Uids /\ p # NoPod
      /\ \A p, q \in e.pods : p.uid = q.uid => p = q
  BY <1>1, NoPodIsNone DEF Fits, Named, PodRecords
<1>4. /\ manager'.byUid = g /\ manager'.ready = TRUE
      /\ \A n \in PodNames :
            manager'.byName[n] = IF \E p \in e.pods : p.name = n
                                 THEN IF e.op = "REMOVE" THEN 0 ELSE (CHOOSE p \in e.pods : p.name = n).uid
                                 ELSE manager.byName[n]
      /\ manager' = [byUid |-> manager'.byUid, byName |-> manager'.byName, ready |-> manager'.ready]
      /\ manager'.byName = [n \in PodNames |-> manager'.byName[n]]
  <2> DEFINE Turns(m) == manager' = [m EXCEPT !.ready = TRUE]
  <2>1. CASE e.op = "REMOVE"
    <3>1. manager' = [RemoveFrom(manager, e.pods) EXCEPT !.ready = TRUE]
      BY <2>1 DEF HandleUpdate
    <3> QED BY <1>1, <2>1, <3>1 DEF RemoveFrom, Effect, Managers
  <2>2. CASE e.op # "REMOVE"
    <3>1. manager' = [AddTo(manager, e.pods) EXCEPT !.ready = TRUE]
      BY <2>2 DEF HandleUpdate
    <3> QED BY <1>1, <2>2, <3>1 DEF AddTo, Effect, Managers
  <2> QED BY <2>1, <2>2
<1>5. /\ e.op \in {"ADD", "UPDATE", "DELETE", "EMPTY"} => told' = Tell(e.pods)
      /\ e.op = "REMOVE" => told' = Kill(e.pods)
      /\ e.op = "RECONCILE" => told' = told
  BY DEF HandleUpdate
<1>6. \A u \in Uids : g[u] = IF \E p \in e.pods : p.uid = u
                             THEN IF e.op = "REMOVE" THEN NoPod ELSE CHOOSE p \in e.pods : p.uid = u
                             ELSE f[u]
  BY DEF Effect
<1>7. \A u \in Uids, p \in e.pods : p.uid = u => (CHOOSE q \in e.pods : q.uid = u) = p
  BY <1>3
<1> HIDE DEF e, f, g
<1>8. manager' \in Managers
  <2>1. g \in [Uids -> PodRecords \cup {NoPod}]
    BY <1>1 DEF Holds, Named
  <2>2. manager'.byName \in [PodNames -> Nat]
    <3>1. ASSUME NEW n \in PodNames PROVE manager'.byName[n] \in Nat
      <4>1. manager.byName[n] \in Nat
        BY <1>1 DEF Managers
      <4>2. \A p \in e.pods : p.uid \in Nat
        BY <1>3 DEF Uids
      <4> QED BY <1>4, <4>1, <4>2
    <3> QED BY <1>4, <3>1
  <2> QED BY <1>4, <2>1, <2>2 DEF Managers
<1>9. Indexed(manager'.byUid, manager'.byName)
  <2>1. manager.byName \in [PodNames -> Nat] /\ manager'.byName \in [PodNames -> Nat]
    BY <1>1, <1>8 DEF Managers
  <2> DEFINE was == manager.byName
             now == manager'.byName
  <2>2. \A n \in PodNames :
           now[n] = IF \E p \in e.pods : p.name = n
                    THEN IF e.op = "REMOVE" THEN 0 ELSE (CHOOSE p \in e.pods : p.name = n).uid
                    ELSE was[n]
    BY <1>4
  <2>3. was \in [PodNames -> Nat] /\ now \in [PodNames -> Nat] /\ Indexed(f, was)
    BY <1>1, <2>1
  <2>4. Holds(K, f) /\ Fits(K, f, e) /\ manager'.byUid = Effect(f, e)
    BY <1>1, <1>4 DEF g
  <2> HIDE DEF was, now
  <2>5. Indexed(Effect(f, e), now)
    BY <2>2, <2>3, <2>4, IndexMoves
  <2> QED BY <2>4, <2>5 DEF now
<1>10. \A u \in Uids :
          told'[u] = IF ~\E p \in e.pods : p.uid = u THEN told[u]
                     ELSE IF e.op = "RECONCILE" THEN told[u]
                     ELSE IF e.op = "REMOVE"
                     THEN IF manager.ready THEN [told[u] EXCEPT !.state = "killed"] ELSE told[u]
                     ELSE LET pod == CHOOSE p \in e.pods : p.uid = u
                          IN  [state |-> "running", spec |-> pod.spec, deleting |-> pod.deleting]
  <2>1. CASE e.op \in {"ADD", "UPDATE", "DELETE", "EMPTY"}
    BY <1>5, <2>1 DEF Tell
  <2>2. CASE e.op = "REMOVE"
    BY <1>2, <1>5, <2>2 DEF Kill, SeenAllSources
  <2>3. CASE e.op = "RECONCILE"
    BY <1>5, <2>3
  <2> QED BY <1>3, <2>1, <2>2, <2>3 DEF OpKinds
<1>11. told' = [u \in Uids |-> told'[u]]
  <2>1. told = [u \in Uids |-> told[u]]
    BY <1>1 DEF Tolds
  <2>2. CASE e.op \in {"ADD", "UPDATE", "DELETE", "EMPTY"}
    BY <1>5, <2>2 DEF Tell
  <2>3. CASE e.op = "REMOVE"
    BY <1>5, <2>3 DEF Kill
  <2>4. CASE e.op = "RECONCILE"
    BY <1>5, <2>1, <2>4
  <2> QED BY <1>3, <2>2, <2>3, <2>4 DEF OpKinds
<1>12. ASSUME NEW u \in Uids
       PROVE  /\ told'[u] \in [state : {"none", "running", "killed"}, spec : Nat, deleting : BOOLEAN]
              /\ told[u].state # "none" => told'[u].state # "none"
  <2>1. told[u] \in [state : {"none", "running", "killed"}, spec : Nat, deleting : BOOLEAN]
    BY <1>1 DEF Tolds
  <2>2. CASE ~\E p \in e.pods : p.uid = u
    BY <1>10, <2>1, <2>2
  <2>3. CASE \E p \in e.pods : p.uid = u
    <3>1. PICK p \in e.pods : p.uid = u
      BY <2>3
    <3>2. (CHOOSE q \in e.pods : q.uid = u) = p /\ p.spec \in Nat /\ p.deleting \in BOOLEAN
      BY <1>3, <1>7, <3>1 DEF PodRecords
    <3>3. \/ told'[u] = told[u] \/ told'[u] = [told[u] EXCEPT !.state = "killed"]
          \/ told'[u] = [state |-> "running", spec |-> p.spec, deleting |-> p.deleting]
      BY <1>10, <2>3, <3>2
    <3> QED BY <2>1, <3>2, <3>3
  <2> QED BY <2>2, <2>3
<1>13. told' \in Tolds
  BY <1>11, <1>12 DEF Tolds
<1>14. Runs(manager'.byUid, told')
  <2> SUFFICES ASSUME NEW u \in Uids
               PROVE  IF g[u] = NoPod THEN told'[u].state # "running"
                      ELSE told'[u] = [state |-> "running", spec |-> g[u].spec, deleting |-> g[u].deleting]
    BY <1>4 DEF Runs
  <2>1. IF f[u] = NoPod THEN told[u].state # "running"
        ELSE told[u] = [state |-> "running", spec |-> f[u].spec, deleting |-> f[u].deleting]
    BY <1>1 DEF Runs
  <2>2. CASE ~\E p \in e.pods : p.uid = u
    BY <1>6, <1>10, <2>1, <2>2
  <2>3. CASE \E p \in e.pods : p.uid = u
    <3>1. PICK p \in e.pods : p.uid = u
      BY <2>3
    <3>2. (CHOOSE q \in e.pods : q.uid = u) = p /\ p # NoPod
      BY <1>3, <1>7, <3>1
    <3>3. CASE e.op = "REMOVE"
      <4>1. g[u] = NoPod /\ f[u] = p
        BY <1>1, <1>6, <2>3, <3>1, <3>3 DEF Fits
      <4>2. manager.ready
        BY <1>2, <3>2, <4>1 DEF Readies, f
      <4>3. told'[u] = [told[u] EXCEPT !.state = "killed"]
        BY <1>10, <2>3, <3>3, <4>2
      <4>4. told[u] \in [state : {"none", "running", "killed"}, spec : Nat, deleting : BOOLEAN]
        BY <1>1 DEF Tolds
      <4> QED BY <4>1, <4>3, <4>4
    <3>4. CASE e.op = "RECONCILE"
      <4>1. g[u] = p /\ told'[u] = told[u]
        BY <1>6, <1>10, <2>3, <3>2, <3>4
      <4>2. f[u] # NoPod /\ ~Differs(f[u], p)
        BY <1>1, <3>1, <3>4 DEF Fits
      <4>3. f[u].spec = p.spec /\ f[u].deleting = p.deleting
        BY <4>2 DEF Differs
      <4> QED BY <2>1, <3>2, <4>1, <4>2, <4>3
    <3>5. CASE e.op # "REMOVE" /\ e.op # "RECONCILE"
      <4>1. g[u] = p /\ told'[u] = [state |-> "running", spec |-> p.spec, deleting |-> p.deleting]
        BY <1>6, <1>10, <2>3, <3>2, <3>5
      <4> QED BY <3>2, <4>1
    <3> QED BY <3>3, <3>4, <3>5
  <2> QED BY <2>2, <2>3
<1>15. \A u \in storage.first : told'[u].state # "none"
  <2> SUFFICES ASSUME NEW u \in storage.first PROVE told'[u].state # "none"
    OBVIOUS
  <2>1. u \in Uids
    BY <1>2 DEF Readies
  <2>2. CASE manager.ready
    BY <1>2, <1>12, <2>1, <2>2 DEF Readies
  <2>3. CASE ~manager.ready
    <3>1. e.op \in {"ADD", "EMPTY"} /\ \E p \in e.pods : p.uid = u
      BY <1>2, <2>3 DEF Readies, e
    <3>2. e.op # "RECONCILE" /\ e.op # "REMOVE"
      BY <3>1
    <3>3. PICK p \in e.pods : p.uid = u
      BY <3>1
    <3>4. (CHOOSE q \in e.pods : q.uid = u) = p
      BY <1>7, <2>1, <3>3
    <3>5. told'[u] = [state |-> "running", spec |-> p.spec, deleting |-> p.deleting]
      BY <1>10, <2>1, <3>2, <3>3, <3>4
    <3> QED BY <3>5
  <2> QED BY <2>2, <2>3
<1>16. Readies(manager', told', Tail(line), storage.seen, storage.first)
  BY <1>2, <1>4, <1>15 DEF Readies
<1>17. Tail(line) \in Seq(OpRecords)
  BY <1>1
<1> QED BY <1>1, <1>2, <1>4, <1>8, <1>9, <1>13, <1>14, <1>16, <1>17 DEF PipeGood

\* Every change of the pods is the next event of the log.
LEMMA ServerMoves ==
    ASSUME MaxUids \in Nat, ServerGood(server), NEW n \in PodNames,
           CreatePod(n) \/ BindPod(n) \/ ChangePod(n) \/ RemovePod(n)
    PROVE  /\ ServerGood(server')
           /\ \E e \in Events : /\ server'.log = Append(server.log, e)
                                /\ OnNode(server'.pods) = Taken(OnNode(server.pods), e)
           /\ UNCHANGED <<reflector, store, storage, updates, manager, told>>
<1> DEFINE old == server.pods[n]
<1>1. /\ server \in Servers /\ server.pods \in [PodNames -> PodRecords \cup {NoPod}]
      /\ server.created \in 0 .. MaxUids /\ server.changes \in Nat
      /\ old \in PodRecords \cup {NoPod}
  BY DEF ServerGood, Servers
<1>2. ASSUME old # NoPod PROVE old \in PodRecords /\ old.name = n /\ old.uid <= server.created
  <2>1. PICK i \in 1 .. Len(server.log) : server.log[i].pod = old
    BY <1>2 DEF ServerGood
  <2> QED BY <1>1, <1>2, <2>1 DEF ServerGood
<1>3. ASSUME NEW pod \in PodRecords \cup {NoPod}, NEW s, Succeeds(server, n, pod, s), Logs(n, pod, s)
      PROVE  /\ ServerGood(server')
             /\ \E e \in Events : /\ server'.log = Append(server.log, e)
                                  /\ OnNode(server'.pods) = Taken(OnNode(server.pods), e)
             /\ UNCHANGED <<reflector, store, storage, updates, manager, told>>
  <2>1. server' = Logged(s, n, pod) /\ UNCHANGED <<reflector, store, storage, updates, manager, told>>
    BY <1>3 DEF Logs, Logged
  <2> QED BY <1>3, <2>1, LogsIsGood
<1> HIDE DEF old
<1>4. server.created \in Int /\ server.created >= server.created
  BY <1>1
<1>5. CASE CreatePod(n)
  <2> DEFINE u == server.created + 1
             pod == [uid |-> u, name |-> n, bound |-> FALSE, spec |-> 0, status |-> 0, deleting |-> FALSE]
             s == [server EXCEPT !.created = @ + 1]
  <2>1. old = NoPod /\ server.created < MaxUids /\ Logs(n, pod, s)
    BY <1>5 DEF CreatePod, old
  <2>2. u \in Uids /\ u \in 0 .. MaxUids /\ u >= server.created
    BY <1>1, <2>1 DEF Uids
  <2>3. s \in Servers /\ s.pods = server.pods /\ s.log = server.log /\ s.created = u
    BY <1>1, <2>2 DEF Servers
  <2>4. pod \in PodRecords /\ pod.name = n /\ pod.uid = u
    BY <2>2 DEF PodRecords
  <2>5. ~server.pods[n].bound
    BY <2>1, NoPodIsUnbound DEF old
  <2>6. ASSUME NEW i \in 1 .. Len(server.log), server.log[i].pod # NoPod PROVE server.log[i].pod.uid # u
    <3>1. server.log[i].pod.uid <= server.created
      BY <2>6 DEF ServerGood
    <3> QED BY <1>4, <3>1
  <2>7. u <= u /\ s.created >= server.created
    BY <2>2, <2>3 DEF Uids
  <2> HIDE DEF pod, s
  <2>8. Succeeds(server, n, pod, s)
    BY <2>3, <2>4, <2>5, <2>6, <2>7 DEF Succeeds
  <2> QED BY <1>3, <2>1, <2>4, <2>8
<1>6. CASE BindPod(n)
  <2> DEFINE pod == [old EXCEPT !.bound = TRUE]
  <2>1. old # NoPod /\ Logs(n, pod, server)
    BY <1>6 DEF BindPod, old
  <2>2. pod \in PodRecords /\ pod.name = n /\ pod.uid = old.uid /\ pod.bound
    BY <1>2, <2>1 DEF PodRecords
  <2> HIDE DEF pod
  <2>3. Succeeds(server, n, pod, server)
    BY <1>1, <1>2, <1>4, <2>1, <2>2 DEF Succeeds, old
  <2> QED BY <1>3, <2>1, <2>2, <2>3
<1>7. CASE ChangePod(n)
  <2> DEFINE s == [server EXCEPT !.changes = @ + 1]
  <2>1. PICK pod : /\ Logs(n, pod, s) /\ old # NoPod
                   /\ \/ pod = [old EXCEPT !.spec = @ + 1]
                      \/ pod = [old EXCEPT !.status = @ + 1]
                      \/ pod = [old EXCEPT !.deleting = TRUE]
    BY <1>7 DEF ChangePod, old
  <2>2. pod \in PodRecords /\ pod.name = n /\ pod.uid = old.uid /\ pod.bound = old.bound
    <3>1. old \in PodRecords /\ old.name = n
      BY <1>2, <2>1
    <3>2. CASE pod = [old EXCEPT !.spec = @ + 1]
      BY <3>1, <3>2 DEF PodRecords
    <3>3. CASE pod = [old EXCEPT !.status = @ + 1]
      BY <3>1, <3>3 DEF PodRecords
    <3>4. CASE pod = [old EXCEPT !.deleting = TRUE]
      BY <3>1, <3>4 DEF PodRecords
    <3> QED BY <2>1, <3>2, <3>3, <3>4
  <2>3. s \in Servers /\ s.pods = server.pods /\ s.log = server.log /\ s.created = server.created
    BY <1>1 DEF Servers
  <2> HIDE DEF s
  <2>4. Succeeds(server, n, pod, s)
    BY <1>2, <1>4, <2>1, <2>2, <2>3 DEF Succeeds, old
  <2> QED BY <1>3, <2>1, <2>2, <2>4
<1>8. CASE RemovePod(n)
  <2>1. Logs(n, NoPod, server)
    BY <1>8 DEF RemovePod
  <2>2. Succeeds(server, n, NoPod, server)
    BY <1>1, <1>4 DEF Succeeds
  <2> QED BY <1>3, <2>1, <2>2
<1> QED BY <1>5, <1>6, <1>7, <1>8

----
(* PodSource: the reflector.                                                *)

\* Pods by name.
Stocks(K, f) ==
    /\ f \in [PodNames -> K \cup {NoPod}]
    /\ \A n \in PodNames : f[n] # NoPod => f[n].name = n

Reflectors == [pc : {"list", "listed", "push", "watch", "watching"}, rv : Nat,
               next : {"list", "watch", "watching"}, items : [PodNames -> PodRecords \cup {NoPod}],
               answered : Nat, pos : Nat, end : Nat, open : BOOLEAN, got : BOOLEAN, faults : Nat]

\* The store catches up from where the reflector is, whatever it is doing.
ReflectorGood(sv, r, st) ==
    /\ r \in Reflectors
    /\ r.rv <= Len(sv.log) /\ r.answered <= Len(sv.log) /\ r.pos <= Len(sv.log) /\ r.end <= Len(sv.log)
    /\ Stocks(KnownPods(sv.log), st) /\ Stocks(KnownPods(sv.log), r.items)
    /\ r.pc = "listed" => Catches(sv.log, r.answered, r.items, OnNode(sv.pods))
    /\ r.pc = "push" => /\ Catches(sv.log, r.answered, st, OnNode(sv.pods)) /\ r.next # "list"
                        /\ r.next = "watching" => r.pos = r.answered
    /\ r.pc = "watch" => Catches(sv.log, r.rv, st, OnNode(sv.pods))
    /\ r.pc = "watching" => r.pos = r.rv /\ Catches(sv.log, r.pos, st, OnNode(sv.pods))

LEMMA OnNodeStocks ==
    ASSUME NEW sv, ServerGood(sv)
    PROVE  Stocks(KnownPods(sv.log), OnNode(sv.pods))
<1> DEFINE f == OnNode(sv.pods)
           K == KnownPods(sv.log)
<1>1. f = [n \in PodNames |-> f[n]]
      /\ \A n \in PodNames : f[n] = IF sv.pods[n].bound THEN sv.pods[n] ELSE NoPod
  BY DEF OnNode
<1> HIDE DEF f
<1>2. ASSUME NEW n \in PodNames, f[n] # NoPod PROVE f[n] \in K /\ f[n].name = n
  <2>1. f[n] = sv.pods[n] /\ sv.pods[n].bound /\ sv.pods[n] # NoPod
    BY <1>1, <1>2
  <2>2. sv.pods[n] \in PodRecords
    BY <2>1 DEF ServerGood, Servers
  <2>3. sv.pods[n].name = n /\ \E i \in 1 .. Len(sv.log) : sv.log[i].pod = sv.pods[n]
    BY <2>1 DEF ServerGood
  <2> QED BY <2>1, <2>2, <2>3 DEF KnownPods
<1>3. f \in [PodNames -> K \cup {NoPod}]
  <2> HIDE DEF K
  <2> QED BY <1>1, <1>2
<1> QED BY <1>2, <1>3 DEF Stocks, f

LEMMA KnownGrows ==
    ASSUME NEW lg \in Seq(Events), NEW e \in Events
    PROVE  KnownPods(lg) \subseteq KnownPods(Append(lg, e))
<1> DEFINE long == Append(lg, e)
<1>1. \A i \in 1 .. Len(lg) : i \in 1 .. Len(long) /\ long[i] = lg[i]
  OBVIOUS
<1> HIDE DEF long
<1>2. KnownPods(lg) \subseteq KnownPods(long)
  BY <1>1 DEF KnownPods
<1> QED BY <1>2 DEF long

\* The reflector is as good when the log grows.
LEMMA ReflectorStays ==
    ASSUME NEW sv, ServerGood(sv), NEW w, NEW e \in Events, w.log = Append(sv.log, e),
           OnNode(w.pods) = Taken(OnNode(sv.pods), e), NEW r, NEW st, ReflectorGood(sv, r, st)
    PROVE  ReflectorGood(w, r, st)
<1> DEFINE lg == sv.log
           long == w.log
           goal == OnNode(sv.pods)
           next == OnNode(w.pods)
<1>1. lg \in Seq(Events) /\ Len(lg) \in Nat /\ Len(long) = Len(lg) + 1
  BY DEF ServerGood, Servers
<1>2. r.rv \in 0 .. Len(lg) /\ r.answered \in 0 .. Len(lg) /\ r.pos \in 0 .. Len(lg)
      /\ r.end \in 0 .. Len(lg) /\ r \in Reflectors
  BY <1>1 DEF ReflectorGood, Reflectors
<1>3. r.rv <= Len(long) /\ r.answered <= Len(long) /\ r.pos <= Len(long) /\ r.end <= Len(long)
  BY <1>1, <1>2
<1>4. ASSUME NEW pos \in 0 .. Len(lg), NEW f, Catches(lg, pos, f, goal)
      PROVE  Catches(long, pos, f, next)
  <2>1. Catches(Append(lg, e), pos, f, Taken(goal, e))
    BY <1>1, <1>4, LogGrows
  <2> QED BY <2>1
<1>5. \A f : Stocks(KnownPods(lg), f) => Stocks(KnownPods(long), f)
  <2>1. KnownPods(lg) \subseteq KnownPods(long)
    BY <1>1, KnownGrows
  <2> QED BY <2>1 DEF Stocks
<1> QED BY <1>2, <1>3, <1>4, <1>5 DEF ReflectorGood

\* The event taken is the next one that the selector lets through.
LEMMA TakenEvent ==
    ASSUME ServerGood(server), ReflectorGood(server, reflector, store), TakeEvent
    PROVE  \E i \in 1 .. Len(server.log) :
              /\ reflector.pos < i /\ server.log[i].matches
              /\ \A j \in reflector.pos + 1 .. i - 1 : ~server.log[j].matches
              /\ store' = Taken(store, server.log[i])
              /\ reflector' = [reflector EXCEPT !.got = TRUE, !.pos = i, !.answered = i,
                                                !.pc = "push", !.next = "watching"]
              /\ UNCHANGED <<server, storage, updates, manager, told>>
<1>1. reflector.pos \in Nat /\ reflector.end \in Nat /\ reflector.end <= Len(server.log)
      /\ Len(server.log) \in Nat /\ reflector \in Reflectors
  BY DEF ReflectorGood, Reflectors, ServerGood, Servers
<1>2. PICK upTo \in Nat : Received = Unread(upTo) /\ upTo <= Len(server.log)
  BY <1>1 DEF Received, Latest
<1>3. Received \in SUBSET Nat /\ Received # {}
  BY <1>1, <1>2 DEF Unread, TakeEvent
<1>4. \E k \in Received : \A j \in Received : k <= j
  BY <1>3, LeastElement
<1> DEFINE i == CHOOSE k \in Received : \A j \in Received : k <= j
<1>5. i \in Received /\ \A j \in Received : i <= j
  BY <1>4
<1>6. /\ store' = Stored(store, server.log[i])
      /\ reflector' = [[reflector EXCEPT !.got = TRUE, !.pos = i, !.answered = i]
                          EXCEPT !.pc = "push", !.next = "watching"]
      /\ UNCHANGED <<server, storage, updates, manager, told>>
  BY DEF TakeEvent, Pushes, Reflects
<1> HIDE DEF i
<1>7. i \in reflector.pos + 1 .. upTo /\ server.log[i].matches
  BY <1>2, <1>5 DEF Unread
<1>8. i \in 1 .. Len(server.log) /\ reflector.pos < i
  BY <1>1, <1>2, <1>7
<1>9. ASSUME NEW j \in reflector.pos + 1 .. i - 1, server.log[j].matches PROVE FALSE
  <2>1. j \in reflector.pos + 1 .. upTo /\ j < i
    BY <1>1, <1>2, <1>7
  <2>2. j \in Received
    BY <1>2, <1>9, <2>1 DEF Unread
  <2> QED BY <1>1, <1>5, <1>8, <2>1, <2>2
<1>10. store' = Taken(store, server.log[i])
  BY <1>6, <1>7 DEF Taken, Stored
<1>11. reflector' = [reflector EXCEPT !.got = TRUE, !.pos = i, !.answered = i,
                                      !.pc = "push", !.next = "watching"]
  BY <1>1, <1>6 DEF Reflectors
<1> QED BY <1>6, <1>7, <1>8, <1>9, <1>10, <1>11

\* What an event makes of the store.
LEMMA EventStocks ==
    ASSUME NEW sv, ServerGood(sv), NEW i \in 1 .. Len(sv.log), sv.log[i].matches,
           NEW f, Stocks(KnownPods(sv.log), f)
    PROVE  Stocks(KnownPods(sv.log), Taken(f, sv.log[i]))
<1> DEFINE K == KnownPods(sv.log)
           e == sv.log[i]
           g == Taken(f, e)
<1>1. e \in Events /\ e.name \in PodNames
  <2>1. sv.log \in Seq(Events)
    BY DEF ServerGood, Servers
  <2>2. e \in Events
    BY <2>1
  <2> QED BY <2>2 DEF Events
<1>2. g = [f EXCEPT ![e.name] = e.pod]
  BY DEF Taken
<1>3. e.pod # NoPod => e.pod \in K /\ e.pod.name = e.name
  <2>1. e.pod \in PodRecords \cup {NoPod}
    BY <1>1 DEF Events
  <2>2. e.pod # NoPod => e.pod.name = e.name /\ e.pod.bound
    BY DEF ServerGood
  <2> QED BY <2>1, <2>2 DEF KnownPods
<1> HIDE DEF K, e, g
<1>4. f \in [PodNames -> K \cup {NoPod}] /\ \A n \in PodNames : f[n] # NoPod => f[n].name = n
  BY DEF Stocks, K
<1>5. g \in [PodNames -> K \cup {NoPod}] /\ \A n \in PodNames : g[n] # NoPod => g[n].name = n
  BY <1>1, <1>2, <1>3, <1>4
<1> QED BY <1>5 DEF Stocks, K, e, g

LEMMA TakeEventIsGood ==
    ASSUME ServerGood(server), ReflectorGood(server, reflector, store), TakeEvent
    PROVE  /\ ReflectorGood(server, reflector', store') /\ reflector'.pc = "push"
           /\ UNCHANGED <<server, storage, updates, manager, told>>
<1> DEFINE lg == server.log
           goal == OnNode(server.pods)
<1>1. PICK i \in 1 .. Len(lg) :
              /\ reflector.pos < i /\ lg[i].matches
              /\ \A j \in reflector.pos + 1 .. i - 1 : ~lg[j].matches
              /\ store' = Taken(store, lg[i])
              /\ reflector' = [reflector EXCEPT !.got = TRUE, !.pos = i, !.answered = i,
                                                !.pc = "push", !.next = "watching"]
              /\ UNCHANGED <<server, storage, updates, manager, told>>
  BY TakenEvent
<1>2. reflector.pos \in Nat /\ Len(lg) \in Nat /\ reflector \in Reflectors /\ i \in Nat
  BY DEF ReflectorGood, Reflectors, ServerGood, Servers
<1>3. Catches(lg, reflector.pos, store, goal)
  BY DEF ReflectorGood, TakeEvent
<1>4. Catches(lg, i, Taken(store, lg[i]), goal)
  <2> DEFINE j == i - 1
  <2>1. j \in reflector.pos .. Len(lg) /\ j \in Nat /\ j < Len(lg) /\ j + 1 = i
    BY <1>1, <1>2
  <2>2. \A k \in reflector.pos + 1 .. j : ~lg[k].matches
    BY <1>1
  <2> HIDE DEF j, lg
  <2>3. Catches(lg, j, store, goal)
    BY <1>2, <1>3, <2>1, <2>2, SkipsOthers
  <2>4. Catches(lg, j + 1, Taken(store, lg[j + 1]), goal)
    BY <1>2, <2>1, <2>3, TakesNext
  <2> QED BY <2>1, <2>4
<1>5. Stocks(KnownPods(lg), store')
  BY <1>1, EventStocks DEF ReflectorGood
<1>6. /\ reflector' \in Reflectors /\ reflector'.pc = "push" /\ reflector'.next = "watching"
      /\ reflector'.pos = i /\ reflector'.answered = i /\ reflector'.rv = reflector.rv
      /\ reflector'.end = reflector.end /\ reflector'.items = reflector.items
  BY <1>1, <1>2 DEF Reflectors
<1>7. reflector.rv <= Len(lg) /\ reflector.end <= Len(lg) /\ i <= Len(lg)
      /\ Stocks(KnownPods(lg), reflector.items)
  BY <1>2 DEF ReflectorGood
<1>8. ReflectorGood(server, reflector', store')
  BY <1>1, <1>4, <1>5, <1>6, <1>7 DEF ReflectorGood
<1> QED BY <1>1, <1>6, <1>8

LEMMA ReflectIsGood ==
    ASSUME ServerGood(server), ReflectorGood(server, reflector, store),
           \/ ListPods \/ ReplaceStore \/ StartWatch \/ WatchEnded
           \/ ListErrs \/ WatchFails \/ EndWatch
    PROVE  /\ ReflectorGood(server, reflector', store')
           /\ reflector'.pc # "push" => store' = store /\ reflector.pc # "push"
           /\ UNCHANGED <<server, storage, updates, manager, told>>
<1> DEFINE lg == server.log
           goal == OnNode(server.pods)
           r == reflector
           s == reflector'
<1>1. r \in Reflectors /\ Len(lg) \in Nat
  BY DEF ReflectorGood, ServerGood, Servers
<1>2. /\ r.rv <= Len(lg) /\ r.answered <= Len(lg) /\ r.pos <= Len(lg) /\ r.end <= Len(lg)
      /\ Stocks(KnownPods(lg), store) /\ Stocks(KnownPods(lg), r.items)
  BY DEF ReflectorGood
<1>3. Stocks(KnownPods(lg), goal) /\ Catches(lg, Len(lg), goal, goal)
  BY <1>1, OnNodeStocks, CaughtUp
<1>4. CASE ListPods
  <2>1. /\ r.pc = "list" /\ UNCHANGED <<store, server, storage, updates, manager, told>>
        /\ s = [r EXCEPT !.pc = "listed", !.items = goal, !.answered = Len(lg)]
    BY <1>4 DEF ListPods, Reflects, Latest
  <2>2. goal \in [PodNames -> PodRecords \cup {NoPod}]
    BY <1>3 DEF Stocks, KnownPods
  <2> HIDE DEF goal, lg
  <2>3. /\ s \in Reflectors /\ s.pc = "listed" /\ s.items = goal /\ s.answered = Len(lg)
        /\ s.rv = r.rv /\ s.pos = r.pos /\ s.end = r.end
    BY <1>1, <2>1, <2>2 DEF Reflectors
  <2>4. Len(lg) <= Len(lg)
    BY <1>1
  <2> QED BY <1>2, <1>3, <2>1, <2>3, <2>4 DEF ReflectorGood, lg, goal
<1>5. CASE ReplaceStore
  <2>1. /\ r.pc = "listed" /\ UNCHANGED <<server, storage, updates, manager, told>>
        /\ s = [r EXCEPT !.pc = "push", !.next = "watch"] /\ store' = r.items
    BY <1>5 DEF ReplaceStore, Pushes, Reflects
  <2>2. /\ s \in Reflectors /\ s.pc = "push" /\ s.next = "watch" /\ s.items = r.items
        /\ s.answered = r.answered /\ s.rv = r.rv /\ s.pos = r.pos /\ s.end = r.end
    BY <1>1, <2>1 DEF Reflectors
  <2>3. Catches(lg, r.answered, r.items, goal)
    BY <2>1 DEF ReflectorGood
  <2> QED BY <1>2, <2>1, <2>2, <2>3 DEF ReflectorGood
<1>6. ASSUME r.pc \in {"list", "watch", "watching"}, s.pc = "list", s \in Reflectors, s.rv = r.rv,
             s.answered = r.answered, s.pos = r.pos, s.end = r.end, s.items = r.items, store' = store,
             UNCHANGED <<server, storage, updates, manager, told>>
      PROVE  /\ ReflectorGood(server, reflector', store')
             /\ reflector'.pc # "push" => store' = store /\ reflector.pc # "push"
             /\ UNCHANGED <<server, storage, updates, manager, told>>
  BY <1>2, <1>6 DEF ReflectorGood
<1>7. CASE StartWatch
  <2>1. r.pc = "watch" /\ Catches(lg, r.rv, store, goal)
    BY <1>7 DEF StartWatch, ReflectorGood
  <2>2. UNCHANGED <<store, server, storage, updates, manager, told>>
    BY <1>7 DEF StartWatch, Reflects
  <2>3. CASE s = [r EXCEPT !.pc = "watching", !.open = TRUE, !.got = FALSE, !.pos = r.rv]
    <3>1. /\ s \in Reflectors /\ s.pc = "watching" /\ s.rv = r.rv /\ s.pos = r.rv
          /\ s.answered = r.answered /\ s.end = r.end /\ s.items = r.items
      BY <1>1, <2>3 DEF Reflectors
    <3> QED BY <1>2, <2>1, <2>2, <3>1 DEF ReflectorGood
  <2>4. CASE s = [r EXCEPT !.pc = "list", !.open = FALSE]
    <3>1. /\ s \in Reflectors /\ s.pc = "list" /\ s.rv = r.rv /\ s.pos = r.pos
          /\ s.answered = r.answered /\ s.end = r.end /\ s.items = r.items
      BY <1>1, <2>4 DEF Reflectors
    <3> QED BY <1>6, <2>1, <2>2, <3>1
  <2> QED BY <1>7, <2>3, <2>4 DEF StartWatch, Reflects, Again
<1>8. CASE WatchEnded
  <2>1. r.pc = "watching" /\ r.pos = r.rv /\ Catches(lg, r.pos, store, goal)
    BY <1>8 DEF WatchEnded, ReflectorGood
  <2>2. UNCHANGED <<store, server, storage, updates, manager, told>>
    BY <1>8 DEF WatchEnded, Reflects
  <2>3. CASE s = [r EXCEPT !.pc = "watch"]
    <3>1. /\ s \in Reflectors /\ s.pc = "watch" /\ s.rv = r.rv /\ s.pos = r.pos
          /\ s.answered = r.answered /\ s.end = r.end /\ s.items = r.items
      BY <1>1, <2>3 DEF Reflectors
    <3> QED BY <1>2, <2>1, <2>2, <3>1 DEF ReflectorGood
  <2>4. CASE s = [r EXCEPT !.pc = "list", !.open = FALSE]
    <3>1. /\ s \in Reflectors /\ s.pc = "list" /\ s.rv = r.rv /\ s.pos = r.pos
          /\ s.answered = r.answered /\ s.end = r.end /\ s.items = r.items
      BY <1>1, <2>4 DEF Reflectors
    <3> QED BY <1>6, <2>1, <2>2, <3>1
  <2> QED BY <1>8, <2>3, <2>4 DEF WatchEnded, Reflects, Again
<1>9. CASE ListErrs
  <2>1. /\ r.pc = "list" /\ s = [r EXCEPT !.faults = @ + 1]
        /\ UNCHANGED <<store, server, storage, updates, manager, told>>
    BY <1>9 DEF ListErrs, Reflects
  <2>2. /\ s \in Reflectors /\ s.pc = "list" /\ s.rv = r.rv /\ s.pos = r.pos
        /\ s.answered = r.answered /\ s.end = r.end /\ s.items = r.items
    BY <1>1, <2>1 DEF Reflectors
  <2> QED BY <1>6, <2>1, <2>2
<1>10. CASE WatchFails
  <2> DEFINE q == [r EXCEPT !.faults = @ + 1]
  <2>1. /\ r.pc = "watch" /\ s = [q EXCEPT !.pc = "list", !.open = FALSE]
        /\ UNCHANGED <<store, server, storage, updates, manager, told>>
    BY <1>10 DEF WatchFails, Reflects, Again
  <2>2. /\ s \in Reflectors /\ s.pc = "list" /\ s.rv = r.rv /\ s.pos = r.pos
        /\ s.answered = r.answered /\ s.end = r.end /\ s.items = r.items
    <3>1. /\ q \in Reflectors /\ q.rv = r.rv /\ q.pos = r.pos /\ q.answered = r.answered
          /\ q.end = r.end /\ q.items = r.items
      BY <1>1 DEF Reflectors
    <3> HIDE DEF q
    <3> QED BY <2>1, <3>1 DEF Reflectors
  <2> QED BY <1>6, <2>1, <2>2
<1>11. CASE EndWatch
  <2>1. PICK end \in r.pos .. Len(lg) : s = [r EXCEPT !.open = FALSE, !.faults = @ + 1, !.end = end]
    BY <1>11 DEF EndWatch, Reflects, Latest
  <2>2. UNCHANGED <<store, server, storage, updates, manager, told>>
    BY <1>11 DEF EndWatch, Reflects
  <2>3. end \in Nat /\ end <= Len(lg)
    BY <1>1 DEF Reflectors
  <2>4. /\ s \in Reflectors /\ s.pc = r.pc /\ s.next = r.next /\ s.rv = r.rv /\ s.pos = r.pos
        /\ s.answered = r.answered /\ s.end = end /\ s.items = r.items
    <3> DEFINE faults == r.faults + 1
    <3>1. faults \in Nat
      BY <1>1 DEF Reflectors
    <3>2. s = [r EXCEPT !.open = FALSE, !.faults = faults, !.end = end]
      BY <2>1
    <3> HIDE DEF faults
    <3> QED BY <1>1, <2>3, <3>1, <3>2 DEF Reflectors
  <2> QED BY <1>2, <2>2, <2>3, <2>4 DEF ReflectorGood
<1> QED BY <1>4, <1>5, <1>7, <1>8, <1>9, <1>10, <1>11

----
(* PodSource: the whole of it.                                              *)

\* The pods of the store, as the mux keeps them.
Pushed(pushed) == [u \in Uids |-> PodOf(pushed, u)]
ByUid(st) == Pushed(Pods(st))
UidsOf(pushed) == {p.uid : p \in pushed}

LEMMA StockIsPushable ==
    ASSUME NEW K, Named(K), NEW st, Stocks(K, st)
    PROVE  Pushable(K, Pods(st))
<1>1. \A p \in Pods(st) : p # NoPod /\ p \in K /\ st[p.name] = p
  BY DEF Pods, Stocks
<1> QED BY <1>1 DEF Pushable

LEMMA StockIsKnown ==
    ASSUME NEW K, Named(K), NEW st, Stocks(K, st)
    PROVE  /\ Pods(ByUid(st)) = Pods(st)
           /\ \A byName : Indexed(ByUid(st), byName) => \A n \in PodNames : byName[n] = st[n].uid
<1> DEFINE f == ByUid(st)
           pushed == Pods(st)
<1>1. /\ \A p \in pushed : p.uid \in Uids /\ p # NoPod /\ PodOf(pushed, p.uid) = p
      /\ \A u : PodOf(pushed, u) \in pushed \cup {NoPod}
      /\ \A u : PodOf(pushed, u) # NoPod => PodOf(pushed, u).uid = u
  BY StockIsPushable, PodOfIs
<1>2. DOMAIN f = Uids /\ \A u \in Uids : f[u] = PodOf(pushed, u)
  BY DEF ByUid, Pushed
<1>3. /\ \A p \in pushed : p.name \in PodNames /\ st[p.name] = p
      /\ \A n \in PodNames : st[n] # NoPod => st[n] \in pushed /\ st[n].name = n
  BY DEF Pods, Stocks, Named, PodRecords
<1> HIDE DEF f, pushed
<1>4. Pods(f) = pushed
  <2>1. ASSUME NEW p \in Pods(f) PROVE p \in pushed
    <3>1. PICK u \in Uids : p = f[u]
      BY <1>2 DEF Pods
    <3>2. p # NoPod
      BY DEF Pods
    <3> QED BY <1>1, <1>2, <3>1, <3>2
  <2>2. ASSUME NEW p \in pushed PROVE p \in Pods(f)
    <3>1. p.uid \in DOMAIN f /\ f[p.uid] = p /\ p # NoPod
      BY <1>1, <1>2
    <3> QED BY <3>1 DEF Pods
  <2> QED BY <2>1, <2>2
<1>5. ASSUME NEW byName, Indexed(f, byName), NEW n \in PodNames PROVE byName[n] = st[n].uid
  <2>1. CASE byName[n] # 0
    <3> DEFINE p == f[byName[n]]
    <3>1. byName[n] \in Uids /\ p # NoPod /\ p.name = n
      BY <1>5, <2>1 DEF Indexed
    <3>2. p \in pushed /\ p.uid = byName[n]
      BY <1>1, <1>2, <3>1
    <3>3. st[n] = p
      BY <1>3, <3>1, <3>2
    <3> QED BY <3>2, <3>3
  <2>2. CASE byName[n] = 0
    <3>1. CASE st[n] = NoPod
      BY <2>2, <3>1 DEF NoPod
    <3>2. CASE st[n] # NoPod
      <4> DEFINE p == st[n]
      <4>1. p \in pushed /\ p.name = n
        BY <1>3, <3>2
      <4>2. p.uid \in Uids /\ f[p.uid] = p /\ p # NoPod
        BY <1>1, <1>2, <4>1
      <4> HIDE DEF p
      <4>3. FALSE
        BY <1>5, <2>2, <4>1, <4>2 DEF Indexed
      <4> QED BY <4>3
    <3> QED BY <3>1, <3>2
  <2> QED BY <2>1, <2>2
<1> QED BY <1>4, <1>5 DEF f, pushed

LEMMA LeadsHold ==
    ASSUME NEW K, NEW from, NEW line, Len(line) \in Nat, NEW to, Leads(K, from, line, to)
    PROVE  Holds(K, from) /\ Holds(K, to)
<1>1. PICK s : Ways(K, from, line, to, s)
  BY DEF Leads
<1>2. 0 \in 0 .. Len(line) /\ Len(line) \in 0 .. Len(line)
  OBVIOUS
<1> QED BY <1>1, <1>2 DEF Ways

\* What Merged keeps of a push.
Merges(pods, seen, first, pushed, more, now, on, noted) ==
    /\ seen \in BOOLEAN /\ on = TRUE
    /\ more = Operations(pods, pushed, seen)
    /\ noted = IF seen THEN first ELSE UidsOf(pushed)
    /\ now = Pushed(pushed)

\* What a push adds to the line.
LEMMA PushIsGood ==
    ASSUME NEW K, Named(K), NEW m, NEW tl, NEW line, NEW pods, NEW seen, NEW first,
           PipeGood(K, m, tl, line, pods, seen, first), NEW pushed, Pushable(K, pushed),
           NEW more, NEW noted, NEW now, NEW on, Merges(pods, seen, first, pushed, more, now, on, noted)
    PROVE  /\ PipeGood(K, m, tl, line \o more, now, on, noted)
           /\ more \in Seq(OpRecords) /\ noted \subseteq Uids
<1>0. /\ seen \in BOOLEAN /\ on = TRUE
      /\ more = Operations(pods, pushed, seen)
      /\ seen => noted = first
      /\ ~seen => noted = UidsOf(pushed)
      /\ now = Pushed(pushed)
  BY DEF Merges
<1>1. /\ m \in Managers /\ tl \in Tolds /\ line \in Seq(OpRecords)
      /\ Leads(K, m.byUid, line, pods) /\ Indexed(m.byUid, m.byName) /\ Runs(m.byUid, tl)
      /\ Readies(m, tl, line, seen, first)
  BY DEF PipeGood
<1>2. ~seen => \A u \in Uids : pods[u] = NoPod
  BY DEF PipeGood
<1>3. Holds(K, pods)
  <2>1. Len(line) \in Nat
    BY <1>1
  <2> QED BY <1>1, <2>1, LeadsHold
<1>4. /\ more \in Seq(OpRecords)
      /\ Leads(K, m.byUid, line \o more, now)
  BY <1>0, <1>1, <1>3, PushLeads DEF Pushed
<1>5. noted \subseteq Uids
  <2>1. \A p \in pushed : p.uid \in Uids
    BY PodOfIs
  <2> QED BY <1>0, <1>1, <2>1 DEF Readies, UidsOf
<1>6. Readies(m, tl, line \o more, TRUE, noted)
  <2>1. CASE seen
    <3>1. ASSUME line # <<>> PROVE Head(line \o more) = Head(line) /\ line \o more # <<>>
      BY <1>1, <1>4, <3>1
    <3>2. ~m.ready => line # <<>> /\ \A u \in Uids : m.byUid[u] = NoPod
      BY <1>1, <2>1 DEF Readies
    <3>3. ~m.ready => /\ Head(line).op \in {"ADD", "EMPTY"}
                      /\ \A u \in first : \E p \in Head(line).pods : p.uid = u
      BY <1>1, <2>1 DEF Readies
    <3>4. m.ready => \A u \in first : tl[u].state # "none"
      BY <1>1 DEF Readies
    <3>5. noted = first
      BY <1>0, <2>1
    <3> DEFINE long == line \o more
    <3>6. ~m.ready => long # <<>> /\ Head(long) = Head(line)
      BY <3>1, <3>2
    <3> HIDE DEF long
    <3>7. Readies(m, tl, long, TRUE, first)
      BY <1>5, <3>2, <3>3, <3>4, <3>5, <3>6 DEF Readies
    <3> QED BY <3>5, <3>7 DEF long
  <2>2. CASE ~seen
    <3>1. line = <<>> /\ ~m.ready
      BY <1>1, <2>2 DEF Readies
    <3>2. PICK op \in {"ADD", "EMPTY"} : more = <<[op |-> op, pods |-> pushed]>>
      BY <1>0, <1>2, <2>2, FirstPush
    <3> DEFINE e == [op |-> op, pods |-> pushed]
    <3>3. e.op \in {"ADD", "EMPTY"} /\ e.pods = pushed
      OBVIOUS
    <3> HIDE DEF e
    <3>4. line \o more = <<e>>
      <4>1. <<>> \o more = more
        BY <1>4
      <4> QED BY <3>1, <3>2, <4>1 DEF e
    <3>5. Head(<<e>>) = e /\ <<e>> # <<>>
      OBVIOUS
    <3>6. \A u \in noted : \E p \in pushed : p.uid = u
      BY <1>0, <2>2 DEF UidsOf
    <3>7. \A u \in Uids : m.byUid[u] = NoPod
      BY <1>1, <3>1 DEF Readies
    <3> QED BY <1>5, <3>1, <3>3, <3>4, <3>5, <3>6, <3>7 DEF Readies
  <2> QED BY <1>0, <2>1, <2>2
<1> QED
  <2> DEFINE long == line \o more
  <2>1. long \in Seq(OpRecords)
    BY <1>1, <1>4
  <2>2. Leads(K, m.byUid, long, now) /\ Readies(m, tl, long, TRUE, noted)
    BY <1>4, <1>6
  <2> HIDE DEF long
  <2>3. PipeGood(K, m, tl, long, now, on, noted)
    BY <1>0, <1>1, <2>1, <2>2 DEF PipeGood
  <2> QED BY <1>4, <1>5, <2>3 DEF long

Storages == [pods : [Uids -> PodRecords \cup {NoPod}], seen : BOOLEAN, ops : Seq(OpRecords),
             first : SUBSET Uids]

SourceInv ==
    /\ ServerGood(server)
    /\ ReflectorGood(server, reflector, store)
    /\ storage \in Storages /\ updates \in Seq(OpRecords)
    /\ reflector.pc # "push" => storage.pods = ByUid(store)
    /\ PipeGood(KnownPods(server.log), manager, told, updates \o storage.ops,
                storage.pods, storage.seen, storage.first)

LEMMA SourceStarts ==
    ASSUME MaxUids \in Nat, SourceInit
    PROVE  SourceInv
<1> DEFINE none == [u \in Uids |-> NoPod]
           names == [n \in PodNames |-> 0]
           idle == [u \in Uids |-> [state |-> "none", spec |-> 0, deleting |-> FALSE]]
           K == KnownPods(<<>>)
<1>1. /\ server = [pods |-> NoPods, log |-> <<>>, compacted |-> 0, created |-> 0, changes |-> 0]
      /\ reflector = [pc |-> "list", rv |-> 0, next |-> "list", items |-> NoPods, answered |-> 0,
                      pos |-> 0, end |-> 0, open |-> FALSE, got |-> FALSE, faults |-> 0]
      /\ store = NoPods /\ storage = [pods |-> none, seen |-> FALSE, ops |-> <<>>, first |-> {}]
      /\ updates = <<>> /\ manager = [byUid |-> none, byName |-> names, ready |-> FALSE]
      /\ told = idle
  BY DEF SourceInit
<1>2. Len(<<>>) = 0 /\ <<>> \in Seq(Events) /\ <<>> \in Seq(OpRecords) /\ <<>> \o <<>> = <<>>
      /\ 1 .. 0 = {} /\ 0 \in 0 .. MaxUids
  OBVIOUS
<1>3. /\ NoPods \in [PodNames -> PodRecords \cup {NoPod}] /\ NoPods \in [PodNames -> K \cup {NoPod}]
      /\ \A n \in PodNames : NoPods[n] = NoPod
  BY DEF NoPods
<1>4. /\ none \in [Uids -> PodRecords \cup {NoPod}] /\ none \in [Uids -> K \cup {NoPod}]
      /\ \A u \in Uids : none[u] = NoPod
  OBVIOUS
<1>5. ServerGood(server)
  BY <1>1, <1>2, <1>3 DEF ServerGood, Servers
<1>6. ReflectorGood(server, reflector, store)
  <2>1. reflector \in Reflectors
    BY <1>1, <1>3 DEF Reflectors
  <2>2. Stocks(K, NoPods)
    BY <1>3 DEF Stocks
  <2> HIDE DEF K
  <2>3. server.log = <<>> /\ store = NoPods /\ reflector.pc = "list" /\ reflector.items = NoPods
        /\ reflector.rv = 0 /\ reflector.answered = 0 /\ reflector.pos = 0 /\ reflector.end = 0
    BY <1>1
  <2> QED BY <1>2, <2>1, <2>2, <2>3 DEF ReflectorGood, K
<1>7. storage \in Storages
  BY <1>1, <1>2, <1>4 DEF Storages
<1>8. ByUid(NoPods) = none
  <2>1. Pods(NoPods) = {}
    BY DEF Pods, NoPods
  <2>2. \A u : PodOf({}, u) = NoPod
    BY DEF PodOf
  <2> QED BY <2>1, <2>2 DEF ByUid, Pushed
<1>9. PipeGood(K, manager, told, <<>>, none, FALSE, {})
  <2>1. manager.byUid = none /\ manager.byName = names /\ manager.ready = FALSE
    BY <1>1
  <2>2. manager \in Managers
    BY <1>1, <1>4 DEF Managers
  <2>3. idle \in Tolds /\ \A u \in Uids : idle[u].state = "none"
    BY DEF Tolds
  <2> HIDE DEF none, idle
  <2>4. Holds(K, none)
    BY <1>4 DEF Holds
  <2>5. Leads(K, none, <<>>, none)
    BY <2>4, LeadsNowhere
  <2>6. Indexed(none, names)
    BY <1>4 DEF Indexed
  <2>7. Runs(none, idle)
    BY <1>4, <2>3 DEF Runs
  <2>8. Readies(manager, idle, <<>>, FALSE, {})
    BY <1>4, <2>1 DEF Readies
  <2> HIDE DEF names, K
  <2> QED BY <1>1, <1>2, <1>4, <2>1, <2>2, <2>3, <2>5, <2>6, <2>7, <2>8 DEF PipeGood
<1> HIDE DEF none, K, names, idle
<1>10. server.log = <<>> /\ storage.pods = none /\ storage.seen = FALSE /\ storage.ops = <<>> /\ storage.first = {}
  BY <1>1
<1> QED BY <1>1, <1>2, <1>5, <1>6, <1>7, <1>8, <1>9, <1>10 DEF SourceInv, K

LEMMA ServerKeepsSource ==
    ASSUME SourceInv, NEW e \in Events, server'.log = Append(server.log, e), ServerGood(server'),
           OnNode(server'.pods) = Taken(OnNode(server.pods), e),
           UNCHANGED <<reflector, store, storage, updates, manager, told>>
    PROVE  SourceInv'
<1>1. ReflectorGood(server', reflector, store)
  BY ReflectorStays DEF SourceInv
<1>2. KnownPods(server.log) \subseteq KnownPods(server'.log)
  BY KnownGrows DEF SourceInv, ServerGood, Servers
<1>3. ASSUME NEW K, NEW J, K \subseteq J, NEW m, NEW tl, NEW line, NEW pods, NEW seen, NEW first,
             PipeGood(K, m, tl, line, pods, seen, first)
      PROVE  PipeGood(J, m, tl, line, pods, seen, first)
  <2>1. Leads(J, m.byUid, line, pods)
    BY <1>3, LeadsWider DEF PipeGood
  <2> QED BY <1>3, <2>1 DEF PipeGood
<1>4. PipeGood(KnownPods(server'.log), manager, told, updates \o storage.ops,
               storage.pods, storage.seen, storage.first)
  BY <1>2, <1>3 DEF SourceInv
<1> QED BY <1>1, <1>4 DEF SourceInv

LEMMA CompactKeepsSource ==
    ASSUME SourceInv, CompactLog
    PROVE  SourceInv'
<1>1. /\ server' = [server EXCEPT !.compacted = @ + 1]
      /\ UNCHANGED <<reflector, store, storage, updates, manager, told>>
  BY DEF CompactLog
<1>2. ServerGood(server)
  BY DEF SourceInv
<1>3. server' \in Servers /\ server'.pods = server.pods /\ server'.log = server.log
      /\ server'.created = server.created
  BY <1>1, <1>2 DEF ServerGood, Servers
<1>4. ServerGood(server')
  BY <1>2, <1>3 DEF ServerGood
<1>5. ReflectorGood(server', reflector, store)
  BY <1>3 DEF SourceInv, ReflectorGood
<1> QED BY <1>1, <1>3, <1>4, <1>5 DEF SourceInv

LEMMA PushKeepsSource ==
    ASSUME SourceInv, TakePush
    PROVE  SourceInv'
<1> DEFINE K == KnownPods(server.log)
           pushed == Pods(store)
           more == Operations(storage.pods, pushed, storage.seen)
           noted == IF storage.seen THEN storage.first ELSE {p.uid : p \in pushed}
           now == [u \in Uids |-> PodOf(pushed, u)]
           r == reflector
<1>1. /\ r.pc = "push" /\ storage.ops = <<>>
      /\ storage' = [pods |-> now, seen |-> TRUE, ops |-> more, first |-> noted]
      /\ reflector' = [r EXCEPT !.pc = r.next, !.rv = r.answered]
      /\ UNCHANGED <<server, store, updates, manager, told>>
  BY DEF TakePush, Merged
<1>2. /\ ServerGood(server) /\ ReflectorGood(server, r, store) /\ storage \in Storages
      /\ updates \in Seq(OpRecords)
      /\ PipeGood(K, manager, told, updates \o storage.ops, storage.pods, storage.seen, storage.first)
  BY DEF SourceInv
<1>3. Named(K) /\ Stocks(K, store)
  BY <1>2, KnownAreNamed DEF ReflectorGood
<1>4. Pushable(K, pushed)
  BY <1>3, StockIsPushable
<1>5. updates \o storage.ops = updates
  BY <1>1, <1>2
<1>6. storage.seen \in BOOLEAN
  BY <1>2 DEF Storages
<1>7. /\ PipeGood(K, manager, told, updates \o more, now, TRUE, noted)
      /\ more \in Seq(OpRecords) /\ noted \subseteq Uids
  <2>1. Merges(storage.pods, storage.seen, storage.first, pushed, more, now, TRUE, noted)
    BY <1>6 DEF Merges, UidsOf, Pushed
  <2>2. PipeGood(K, manager, told, updates, storage.pods, storage.seen, storage.first)
    BY <1>2, <1>5
  <2> DEFINE pods == storage.pods
             seen == storage.seen
             first == storage.first
             on == TRUE
  <2>3. /\ Merges(pods, seen, first, pushed, more, now, on, noted)
        /\ PipeGood(K, manager, told, updates, pods, seen, first)
    BY <2>1, <2>2
  <2> HIDE DEF K, pushed, more, noted, now, pods, seen, first, on
  <2>4. /\ PipeGood(K, manager, told, updates \o more, now, on, noted)
        /\ more \in Seq(OpRecords) /\ noted \subseteq Uids
    BY <1>3, <1>4, <2>3, PushIsGood
  <2> QED BY <2>4 DEF on
<1>8. now \in [Uids -> PodRecords \cup {NoPod}]
  <2>1. \A u : PodOf(pushed, u) \in pushed \cup {NoPod}
    BY <1>3, <1>4, PodOfIs
  <2>2. pushed \subseteq PodRecords
    BY <1>3, <1>4 DEF Pushable, Named
  <2> QED BY <2>1, <2>2
<1>9. now = ByUid(store)
  BY DEF ByUid, Pushed
<1> HIDE DEF now, more, noted, pushed, K
<1>10. storage' \in Storages
  BY <1>1, <1>7, <1>8 DEF Storages
<1>11. /\ storage'.pods = now /\ storage'.seen = TRUE /\ storage'.ops = more /\ storage'.first = noted
  BY <1>1
<1>12. ReflectorGood(server, reflector', store)
  <2>1. /\ r \in Reflectors /\ r.answered <= Len(server.log)
        /\ r.pos <= Len(server.log) /\ r.end <= Len(server.log)
        /\ Stocks(KnownPods(server.log), store) /\ Stocks(KnownPods(server.log), r.items)
        /\ Catches(server.log, r.answered, store, OnNode(server.pods)) /\ r.next # "list"
        /\ r.next = "watching" => r.pos = r.answered
    BY <1>1, <1>2 DEF ReflectorGood
  <2>2. /\ reflector' \in Reflectors /\ reflector'.pc = r.next /\ reflector'.rv = r.answered
        /\ reflector'.pos = r.pos /\ reflector'.end = r.end /\ reflector'.items = r.items
        /\ reflector'.answered = r.answered /\ r.next \in {"watch", "watching"}
    BY <1>1, <2>1 DEF Reflectors
  <2> QED BY <2>1, <2>2 DEF ReflectorGood
<1> QED BY <1>1, <1>2, <1>7, <1>9, <1>10, <1>11, <1>12 DEF SourceInv, K

LEMMA SendKeepsSource ==
    ASSUME SourceInv, SendUpdate
    PROVE  SourceInv'
<1> DEFINE ops == storage.ops
<1>1. /\ ops # <<>> /\ updates' = Append(updates, Head(ops)) /\ storage' = [storage EXCEPT !.ops = Tail(ops)]
      /\ UNCHANGED <<server, reflector, store, manager, told>>
  BY DEF SendUpdate
<1>2. storage \in Storages /\ ops \in Seq(OpRecords) /\ updates \in Seq(OpRecords)
  BY DEF SourceInv, Storages
<1>3. /\ storage' \in Storages /\ storage'.pods = storage.pods /\ storage'.seen = storage.seen
      /\ storage'.first = storage.first /\ storage'.ops = Tail(ops)
  <2>1. Tail(ops) \in Seq(OpRecords)
    BY <1>1, <1>2
  <2> QED BY <1>1, <1>2, <2>1 DEF Storages
<1> HIDE DEF ops
<1>4. updates' \in Seq(OpRecords) /\ updates' \o Tail(ops) = updates \o ops
  <2>1. Head(ops) \in OpRecords /\ Tail(ops) \in Seq(OpRecords)
    BY <1>1, <1>2
  <2>2. Append(updates, Head(ops)) = updates \o <<Head(ops)>> /\ <<Head(ops)>> \in Seq(OpRecords)
    BY <1>2, <2>1
  <2>3. <<Head(ops)>> \o Tail(ops) = ops
    BY <1>1, <1>2
  <2>4. (updates \o <<Head(ops)>>) \o Tail(ops) = updates \o (<<Head(ops)>> \o Tail(ops))
    BY <1>2, <2>1, <2>2, ConcatAssociative
  <2> QED BY <1>1, <1>2, <2>1, <2>2, <2>3, <2>4
<1> QED BY <1>1, <1>3, <1>4 DEF SourceInv, ops

LEMMA HandleKeepsSource ==
    ASSUME SourceInv, HandleUpdate
    PROVE  SourceInv'
<1> DEFINE line == updates \o storage.ops
           K == KnownPods(server.log)
<1>1. updates # <<>> /\ updates' = Tail(updates) /\ UNCHANGED <<server, reflector, store, storage>>
  BY DEF HandleUpdate
<1>2. updates \in Seq(OpRecords) /\ storage.ops \in Seq(OpRecords) /\ Named(K)
  BY KnownAreNamed DEF SourceInv, Storages
<1>3. /\ line # <<>> /\ Head(updates) = Head(line) /\ Tail(line) = Tail(updates) \o storage.ops
      /\ updates' \in Seq(OpRecords)
  <2> DEFINE ops == storage.ops
  <2>1. ops \in Seq(OpRecords)
    BY <1>2
  <2> HIDE DEF ops
  <2>2. updates \o ops # <<>> /\ Head(updates) = Head(updates \o ops)
    BY <1>1, <1>2, <2>1
  <2>3. Tail(updates \o ops) = Tail(updates) \o ops
    BY <1>1, <1>2, <2>1
  <2>4. Tail(updates) \in Seq(OpRecords)
    BY <1>1, <1>2
  <2> QED BY <1>1, <2>2, <2>3, <2>4 DEF ops
<1>4. PipeGood(K, manager, told, line, storage.pods, storage.seen, storage.first)
  BY DEF SourceInv
<1> HIDE DEF line, K
<1>5. PipeGood(K, manager', told', Tail(line), storage.pods, storage.seen, storage.first)
  BY <1>1, <1>2, <1>3, <1>4, HandleIsGood
<1> QED BY <1>1, <1>3, <1>5 DEF SourceInv, K

LEMMA SourceKept ==
    ASSUME MaxUids \in Nat, SourceInv, [SourceNext]_sourceVars
    PROVE  SourceInv'
<1>1. ASSUME NEW n \in PodNames, CreatePod(n) \/ BindPod(n) \/ ChangePod(n) \/ RemovePod(n)
      PROVE  SourceInv'
  BY <1>1, ServerMoves, ServerKeepsSource DEF SourceInv
<1>2. CASE CompactLog
  BY <1>2, CompactKeepsSource
<1>3. CASE TakeEvent
  BY <1>3, TakeEventIsGood DEF SourceInv
<1>4. CASE \/ ListPods \/ ReplaceStore \/ StartWatch \/ WatchEnded
           \/ ListErrs \/ WatchFails \/ EndWatch
  BY <1>4, ReflectIsGood DEF SourceInv
<1>5. CASE TakePush
  BY <1>5, PushKeepsSource
<1>6. CASE SendUpdate
  BY <1>6, SendKeepsSource
<1>7. CASE HandleUpdate
  BY <1>7, HandleKeepsSource
<1>8. CASE UNCHANGED sourceVars
  BY <1>8 DEF SourceInv, sourceVars
<1> QED BY <1>1, <1>2, <1>3, <1>4, <1>5, <1>6, <1>7, <1>8 DEF SourceNext, Reflect

LEMMA SourceIsKnown ==
    ASSUME SourceInv
    PROVE  SourceIsSound
<1> DEFINE K == KnownPods(server.log)
           f == manager.byUid
           line == updates \o storage.ops
<1>1. /\ Named(K) /\ updates \in Seq(OpRecords) /\ storage.ops \in Seq(OpRecords)
      /\ ReflectorGood(server, reflector, store)
  BY KnownAreNamed DEF SourceInv, Storages
<1>2. /\ Leads(K, f, line, storage.pods) /\ Indexed(f, manager.byName) /\ Runs(f, told)
      /\ Readies(manager, told, line, storage.seen, storage.first)
  BY DEF SourceInv, PipeGood
<1>3. RunsOneOfAName
  <2>1. Len(line) \in Nat
    BY <1>1
  <2> HIDE DEF K, f, line
  <2>2. Holds(K, f)
    BY <1>2, <2>1, LeadsHold
  <2> QED BY <2>2 DEF Holds, RunsOneOfAName, f
<1>4. ReadyMeansKnown
  BY <1>2 DEF Readies, ReadyMeansKnown, SeenAllSources
<1>5. ASSUME Quiet PROVE Current
  <2> DEFINE lg == server.log
             goal == OnNode(server.pods)
  <2>1. /\ reflector.pc = "watching" /\ updates = <<>> /\ storage.ops = <<>>
        /\ \A i \in reflector.pos + 1 .. Len(lg) : ~lg[i].matches
    BY <1>5 DEF Quiet, Unread, Latest
  <2>2. reflector.pos \in Nat /\ reflector.pos <= Len(lg) /\ Len(lg) \in Nat
        /\ Catches(lg, reflector.pos, store, goal) /\ Stocks(K, store)
    BY <1>1, <2>1 DEF ReflectorGood, Reflectors, SourceInv, ServerGood, Servers
  <2>3. store = goal
    <3> DEFINE n == Len(lg)
    <3>1. n \in reflector.pos .. Len(lg)
      BY <2>2
    <3> HIDE DEF lg
    <3>2. Catches(lg, n, store, goal)
      <4> HIDE DEF n
      <4>1. \A i \in reflector.pos + 1 .. n : ~lg[i].matches
        BY <2>1 DEF n
      <4> QED BY <2>2, <3>1, <4>1, SkipsOthers
    <3> QED BY <3>2, CaughtUp
  <2>4. line = <<>>
    BY <2>1
  <2>5. f = storage.pods
    <3>1. Leads(K, f, <<>>, storage.pods)
      BY <1>2, <2>4
    <3> HIDE DEF K, f
    <3> QED BY <3>1, LeadsNowhere
  <2>6. f = ByUid(store)
    BY <2>1, <2>5 DEF SourceInv
  <2> HIDE DEF K, f, line, lg, goal
  <2>7. Pods(f) = Pods(goal) /\ \A n \in PodNames : manager.byName[n] = goal[n].uid
    BY <1>1, <1>2, <2>2, <2>3, <2>6, StockIsKnown
  <2> QED BY <1>2, <2>7 DEF Current, Runs, f, goal
<1> QED BY <1>3, <1>4, <1>5 DEF SourceIsSound, QuietIsKnown

\* The kubelet's view of its pods: one pod of a name, none of the first list
\* forgotten, and what the API server holds when nothing is under way.
THEOREM PodSourceSoundness ==
    ASSUME MaxUids \in Nat
    PROVE  SourceSpec => []SourceIsSound
<1>1. SourceInit => SourceInv
  BY SourceStarts
<1>2. SourceInv /\ [SourceNext]_sourceVars => SourceInv'
  BY SourceKept
<1>3. SourceInv => SourceIsSound
  BY SourceIsKnown
<1> HIDE DEF SourceInv, SourceIsSound
<1> QED BY <1>1, <1>2, <1>3, PTL DEF SourceSpec

=============================================================================

-------------------------- MODULE AllocatableRange --------------------------
(***************************************************************************)
(* The index allocator behind service ports and cluster IPs: class         *)
(* AllocatableRange of src/src/cluster/storage/allocatable.ts.  Its bitmap,*)
(* cursor and count are three etcd keys, each read and written with an     *)
(* await of its own inside Etcd.withLock.                                  *)
(***************************************************************************)
EXTENDS EtcdLock, Integers, Sequences

CONSTANTS
  Size \* number of indices

ASSUME SizeAssumption == Size \in Nat \ {0}

Indices == 0..(Size - 1)
NoIndex == Size

VARIABLES
  bits,   \* the bitmap key: the indices whose bit is set
  cursor, \* the cursor key
  used,   \* the used key
  claim,  \* what each client does: its operation, step, index, and what it read
  owned   \* the indices each client was granted and has not released

rangeVars == <<bits, cursor, used, claim, owned>>
allRangeVars == <<holder, pc, listening, deleted, late, canceled, leases, age, beat,
                  bits, cursor, used, claim, owned>>

\* The awaits of each body, in order.
Body(op) ==
  CASE op = "allocate" -> <<"getCursor", "getUsed", "getBitmap", "putBitmap",
                            "putCursor", "putUsed">>
    [] op \in {"claim", "release"} -> <<"getBitmap", "getUsed", "putBitmap", "putUsed">>
    [] op = "has" -> <<"getBitmap">>

Operations == {"allocate", "claim", "release", "has"}

CallType ==
  [op : Operations, step : 1..7, outcome : {"none", "throw"},
   index : 0..Size, bits : SUBSET Indices, cursor : Indices, used : 0..Size]

RangeTypeOK ==
  /\ LockTypeOK
  /\ bits \subseteq Indices
  /\ cursor \in Indices
  /\ used \in 0..Size
  /\ claim \in [Clients -> CallType]
  /\ owned \in [Clients -> SUBSET Indices]

\* The range after create(), some indices taken before by clients that are
\* not calling now; every client is about to make one call.
Request(op, i) ==
  [op |-> op, step |-> 1, outcome |-> "none", index |-> i, bits |-> {},
   cursor |-> 0, used |-> 0]
RangeRequests ==
  {Request("allocate", NoIndex)} \cup
  {Request(op, i) : op \in Operations \ {"allocate"}, i \in Indices}

RangeInit ==
  /\ LockInit
  /\ owned \in {o \in [Clients -> SUBSET Indices] :
                  \A c, d \in Clients : c # d => o[c] \cap o[d] = {}}
  /\ bits = UNION {owned[c] : c \in Clients}
  /\ used = Cardinality(bits)
  /\ cursor \in Indices
  /\ claim \in [Clients -> RangeRequests]
  /\ \A c \in Clients : claim[c].op = "release" => claim[c].index \in owned[c]

-----------------------------------------------------------------------------
(* The bodies.                                                             *)

\* The first free index of a bitmap in the order allocate() tries them: the
\* tries before it all meet a set bit.
FirstFree(taken, from) ==
  LET at(n) == (from + n) % Size
  IN  at(Cardinality({n \in Indices : \A m \in 0..n : at(m) \in taken}))

\* The body of c is at one of its awaits.
Awaits(c, step) ==
  /\ pc[c] = "inside" /\ claim[c].outcome = "none"
  /\ claim[c].step <= Len(Body(claim[c].op))
  /\ Body(claim[c].op)[claim[c].step] = step

goesOn(read) == [read EXCEPT !.step = @ + 1]

GetCursor(c) ==
  /\ Awaits(c, "getCursor")
  /\ claim' = [claim EXCEPT ![c] = goesOn([@ EXCEPT !.cursor = cursor])]
  /\ UNCHANGED <<bits, cursor, used, owned>>

\* allocate() refuses here when the count says the range is full.
GetUsed(c) ==
  /\ Awaits(c, "getUsed")
  /\ claim' = [claim EXCEPT ![c] = goesOn(
       [@ EXCEPT !.used = used,
                 !.outcome = IF claim[c].op = "allocate" /\ used >= Size
                             THEN "throw" ELSE "none"])]
  /\ UNCHANGED <<bits, cursor, used, owned>>

\* The bitmap is read, and the index chosen by allocate(), or checked by
\* claim() and release().
GetBitmap(c) ==
  LET op == claim[c].op
      i == IF op = "allocate"
           THEN IF bits = Indices THEN NoIndex ELSE FirstFree(bits, claim[c].cursor)
           ELSE claim[c].index
      refused == CASE op = "allocate" -> i = NoIndex
                   [] op = "claim" -> i \in bits
                   [] op = "release" -> i \notin bits
                   [] op = "has" -> FALSE
  IN  /\ Awaits(c, "getBitmap")
      /\ claim' = [claim EXCEPT ![c] = goesOn(
           [@ EXCEPT !.bits = bits, !.index = i,
                     !.outcome = IF refused THEN "throw" ELSE "none"])]
      /\ UNCHANGED <<bits, cursor, used, owned>>

\* The bitmap is written back whole.
PutBitmap(c) ==
  /\ Awaits(c, "putBitmap")
  /\ bits' = IF claim[c].op = "release" THEN claim[c].bits \ {claim[c].index}
             ELSE claim[c].bits \cup {claim[c].index}
  /\ claim' = [claim EXCEPT ![c] = goesOn(@)]
  /\ UNCHANGED <<cursor, used, owned>>

PutCursor(c) ==
  /\ Awaits(c, "putCursor")
  /\ cursor' = (claim[c].index + 1) % Size
  /\ claim' = [claim EXCEPT ![c] = goesOn(@)]
  /\ UNCHANGED <<bits, used, owned>>

\* The count a call writes back.
count(c) ==
  IF claim[c].op # "release" THEN claim[c].used + 1
  ELSE IF claim[c].used > 0 THEN claim[c].used - 1 ELSE 0

\* The count is written and the call has its result.
PutUsed(c) ==
  /\ Awaits(c, "putUsed")
  /\ used' = count(c)
  /\ claim' = [claim EXCEPT ![c] = goesOn(@)]
  /\ owned' = [owned EXCEPT ![c] =
                 IF claim[c].op = "release" THEN @ \ {claim[c].index}
                 ELSE @ \cup {claim[c].index}]
  /\ UNCHANGED <<bits, cursor>>

Runs(c) ==
  \/ GetCursor(c) \/ GetUsed(c) \/ GetBitmap(c)
  \/ PutBitmap(c) \/ PutCursor(c) \/ PutUsed(c)

\* withLock's finally: the lock is released however the body ended.
Returns(c) ==
  /\ claim[c].outcome = "throw" \/ claim[c].step > Len(Body(claim[c].op))
  /\ Leave(c)

RangeNext ==
  \/ /\ \E c \in Clients : Proceeds(c) \/ Deadline(c) \/ Returns(c)
     /\ UNCHANGED rangeVars
  \/ (Timers \/ Tick) /\ UNCHANGED rangeVars
  \/ (\E c \in Clients : Runs(c)) /\ UNCHANGED lockVars

RangeSpec == RangeInit /\ [][RangeNext]_allRangeVars

-----------------------------------------------------------------------------
(* Properties.                                                             *)

\* No index belongs to two clients, although every call reads the bitmap and
\* writes it back whole across awaits.
NoIndexTwice ==
  \A c, d \in Clients : c # d => owned[c] \cap owned[d] = {}

\* Between calls the three keys agree: the bitmap holds exactly what is owned
\* and the count is its size.
KeysAgreeBetweenCalls ==
  holder = Nobody =>
    /\ bits = UNION {owned[c] : c \in Clients}
    /\ used = Cardinality(bits)

Refused(c) == pc[c] = "inside" /\ claim[c].outcome = "throw"

\* An allocation is refused only when nothing is free.
RefusedOnlyWhenFull ==
  \A c \in Clients :
    Refused(c) /\ claim[c].op = "allocate" => bits = Indices

\* What the three keys of the range and its clients' grants promise together.
RangeIsSound == RangeTypeOK /\ NoIndexTwice /\ KeysAgreeBetweenCalls /\ RefusedOnlyWhenFull
=============================================================================

------------------------------ MODULE Channel ------------------------------
(***************************************************************************)
(* The Go-like channels of src/src/go/channel.ts: class Channel with send, *)
(* receive, their non-blocking forms, close, and select over several       *)
(* channels.                                                               *)
(*                                                                         *)
(* Every method runs synchronously up to the point where it parks, so each *)
(* call is one step; a call that finds a parked partner completes the      *)
(* partner in the same step, and a select that is completed on one channel *)
(* withdraws from the others in that step too.                             *)
(*                                                                         *)
(* Every value sent is a message of its own, numbered in the order of the  *)
(* calls, so that order and loss can be told apart.                        *)
(***************************************************************************)
EXTENDS Naturals, Sequences, FiniteSets

CONSTANTS
  Channels,
  Capacity,   \* Channel.capacity of each channel
  Callers,    \* concurrent callers
  MaxMessages \* bound on the values ever offered

ASSUME ChannelAssumption == Capacity \in [Channels -> Nat] /\ MaxMessages \in Nat

Messages == 1 .. MaxMessages

VARIABLES
  net,     \* the channels and the callers parked on them
  offered, \* how many messages were offered so far
  told     \* callers that were told a channel is closed

channelVars == <<net, offered, told>>

\* values, receivers, senders, closed: the fields of Channel.  A parked
\* sender is its caller and its message.  waiting: how the caller is parked.
\* fate: what became of each message; taken: the messages received, in order.
NetType ==
  [values    : [Channels -> Seq(Messages)],
   receivers : [Channels -> Seq(Callers)],
   senders   : [Channels -> Seq(Callers \X Messages)],
   closed    : [Channels -> BOOLEAN],
   waiting   : [Callers -> {"no", "plain", "select"}],
   fate      : [Messages -> {"none", "parked", "sent", "failed", "withdrawn"}],
   taken     : [Channels -> Seq(Messages)]]

ChannelTypeOK ==
  /\ net \in NetType
  /\ \A c \in Channels : Len(net.values[c]) <= Capacity[c]
  /\ offered \in 0 .. MaxMessages
  /\ told \in [Channels -> SUBSET Callers]

ChannelInit ==
  /\ net = [values    |-> [c \in Channels |-> <<>>],
            receivers |-> [c \in Channels |-> <<>>],
            senders   |-> [c \in Channels |-> <<>>],
            closed    |-> [c \in Channels |-> FALSE],
            waiting   |-> [p \in Callers |-> "no"],
            fate      |-> [m \in Messages |-> "none"],
            taken     |-> [c \in Channels |-> <<>>]]
  /\ offered = 0
  /\ told = [c \in Channels |-> {}]

-----------------------------------------------------------------------------
(* Effects on the net.                                                     *)

entries(q) == {q[i] : i \in DOMAIN q}

\* What is left of a queue, in its order, once those in gone have left it.
without(q, gone) ==
  LET kept    == {i \in DOMAIN q : q[i] \notin gone}
      rank(i) == Cardinality({j \in kept : j <= i})
  IN  [k \in 1 .. Cardinality(kept) |-> q[CHOOSE i \in kept : rank(i) = k]]

\* The calls the callers in gone are parked in complete: settle() runs every
\* cancel of a select, which withdraws its other offers.
settle(n, gone) ==
  [n EXCEPT
    !.waiting = [p \in Callers |-> IF p \in gone THEN "no" ELSE n.waiting[p]],
    !.receivers = [c \in Channels |-> without(n.receivers[c], gone)],
    !.senders = [c \in Channels |-> without(n.senders[c], gone \X Messages)],
    !.fate = [m \in Messages |->
                IF \E p \in gone, c \in Channels : <<p, m>> \in entries(n.senders[c])
                THEN "withdrawn" ELSE n.fate[m]]]

\* The first parked receiver of c gets m.
handOver(n, c, m) ==
  settle([n EXCEPT !.receivers[c] = Tail(@), !.taken[c] = Append(@, m),
                   !.fate[m] = "sent"],
         {Head(n.receivers[c])})

push(n, c, m) == [n EXCEPT !.values[c] = Append(@, m), !.fate[m] = "sent"]

canReceive(n, c) == n.values[c] # <<>> \/ n.senders[c] # <<>> \/ n.closed[c]

canSend(n, c) ==
  ~n.closed[c] /\ (n.receivers[c] # <<>> \/ Len(n.values[c]) < Capacity[c])

\* trySend on an open channel that has a receiver or room.
trySend(n, c, m) ==
  IF n.receivers[c] # <<>> THEN handOver(n, c, m) ELSE push(n, c, m)

\* The first parked sender of c is resolved; its message goes on in `into'.
resolveSender(n, c) ==
  settle([n EXCEPT !.senders[c] = Tail(@), !.fate[Head(n.senders[c])[2]] = "sent"],
         {Head(n.senders[c])[1]})

\* Mutant: a value taken from the buffer does not let a parked sender in.
drainNobody(n, c) == n

\* drainSender: after a value left the buffer, a parked sender moves up, to a
\* parked receiver if there is one.
drainSender(n, c) ==
  IF n.closed[c] \/ n.senders[c] = <<>> THEN n
  ELSE LET m == Head(n.senders[c])[2]
       IN  IF n.receivers[c] # <<>> THEN handOver(resolveSender(n, c), c, m)
           ELSE IF Len(n.values[c]) < Capacity[c]
           THEN push(resolveSender(n, c), c, m)
           ELSE n

\* tryReceive: the buffer first, then a parked sender, then the end of a
\* closed channel (which changes nothing).
tryReceive(n, c) ==
  IF n.values[c] # <<>>
  THEN drainSender([n EXCEPT !.values[c] = Tail(@),
                             !.taken[c] = Append(@, Head(n.values[c]))], c)
  ELSE IF n.senders[c] # <<>>
  THEN [resolveSender(n, c) EXCEPT !.taken[c] = Append(@, Head(n.senders[c])[2])]
  ELSE n

\* The receive is answered with ok = false.
endsReceive(n, c) == n.closed[c] /\ n.values[c] = <<>> /\ n.senders[c] = <<>>

-----------------------------------------------------------------------------
(* Calls.                                                                  *)

Free(p) == net.waiting[p] = "no"

\* A caller offers the next message.
offer(m) == offered < MaxMessages /\ m = offered + 1 /\ offered' = m

tell(p, c) ==
  told' = IF endsReceive(net, c) THEN [told EXCEPT ![c] = @ \cup {p}] ELSE told

\* send(): trySend, or park.  On a closed channel it throws.
Send(p, c, m) ==
  /\ Free(p) /\ offer(m)
  /\ net' = IF net.closed[c] THEN [net EXCEPT !.fate[m] = "failed"]
            ELSE IF canSend(net, c) THEN trySend(net, c, m)
            ELSE [net EXCEPT !.senders[c] = Append(@, <<p, m>>),
                             !.waiting[p] = "plain", !.fate[m] = "parked"]
  /\ UNCHANGED told

\* trySend(): as send(), but a value that finds no room is refused.
TrySend(p, c, m) ==
  /\ Free(p) /\ offer(m)
  /\ net' = IF canSend(net, c) THEN trySend(net, c, m)
            ELSE [net EXCEPT !.fate[m] = "failed"]
  /\ UNCHANGED told

\* receive(): tryReceive, or park.
Receive(p, c) ==
  /\ Free(p)
  /\ net' = IF canReceive(net, c) THEN tryReceive(net, c)
            ELSE [net EXCEPT !.receivers[c] = Append(@, p), !.waiting[p] = "plain"]
  /\ tell(p, c)
  /\ UNCHANGED offered

\* tryReceive() that finds something.
TryReceive(p, c) ==
  /\ Free(p) /\ canReceive(net, c)
  /\ net' = tryReceive(net, c)
  /\ tell(p, c)
  /\ UNCHANGED offered

\* The cases of a select: receives on some channels and at most one send.
Cases ==
  UNION {{f \in [S -> {"receive", "send"}] :
            \A c, d \in S : f[c] = "send" /\ f[d] = "send" => c = d} :
         S \in (SUBSET Channels) \ {{}}}

SendCase(cases) == {c \in DOMAIN cases : cases[c] = "send"}

ReadyCases(cases) ==
  {c \in DOMAIN cases :
     IF cases[c] = "receive" THEN canReceive(net, c) ELSE canSend(net, c)}

\* Only a select with a send case offers a message.
offerOf(cases, m) ==
  IF SendCase(cases) = {} THEN m = 0 /\ UNCHANGED offered ELSE offer(m)

withdraw(n, m) == IF m = 0 THEN n ELSE [n EXCEPT !.fate[m] = "withdrawn"]

\* select with a ready case: one of them, at random, runs at once.
SelectReady(p, cases, m) ==
  /\ Free(p) /\ offerOf(cases, m)
  /\ \E c \in ReadyCases(cases) :
       IF cases[c] = "receive"
       THEN net' = withdraw(tryReceive(net, c), m) /\ tell(p, c)
       ELSE net' = trySend(net, c, m) /\ UNCHANGED told

\* select without a ready case: its default, if it has one ...
SelectDefault(p, cases, m) ==
  /\ Free(p) /\ offerOf(cases, m) /\ ReadyCases(cases) = {}
  /\ net' = withdraw(net, m)
  /\ UNCHANGED told

\* ... or it parks on every channel.
SelectParks(p, cases, m) ==
  /\ Free(p) /\ offerOf(cases, m) /\ ReadyCases(cases) = {}
  /\ net' = [net EXCEPT
       !.waiting[p] = "select",
       !.receivers = [c \in Channels |->
          IF c \in DOMAIN cases \ SendCase(cases)
          THEN Append(net.receivers[c], p) ELSE net.receivers[c]],
       !.senders = [c \in Channels |->
          IF c \in SendCase(cases)
          THEN Append(net.senders[c], <<p, m>>) ELSE net.senders[c]],
       !.fate = [x \in Messages |-> IF x = m THEN "parked" ELSE net.fate[x]]]
  /\ UNCHANGED told

\* close(): parked senders fail; parked receivers are told the end.
Close(c) ==
  LET failed == {s[2] : s \in entries(net.senders[c])}
      ended  == entries(net.receivers[c])
      n      == settle(net, {s[1] : s \in entries(net.senders[c])} \cup ended)
  IN  /\ ~net.closed[c]
      /\ net' = [n EXCEPT !.closed[c] = TRUE,
                          !.fate = [m \in Messages |->
                             IF m \in failed THEN "failed" ELSE n.fate[m]]]
      /\ told' = [told EXCEPT ![c] = @ \cup ended]
      /\ UNCHANGED offered

ChannelNext ==
  \/ \E p \in Callers, c \in Channels :
       \/ \E m \in Messages : Send(p, c, m) \/ TrySend(p, c, m)
       \/ Receive(p, c) \/ TryReceive(p, c)
  \/ \E p \in Callers, cases \in Cases, m \in 0 .. MaxMessages :
       SelectReady(p, cases, m) \/ SelectDefault(p, cases, m) \/ SelectParks(p, cases, m)
  \/ \E c \in Channels : Close(c)

ChannelSpec == ChannelInit /\ [][ChannelNext]_channelVars

-----------------------------------------------------------------------------
(* Properties.                                                             *)

\* The messages channel c has delivered, holds, and has parked at its door.
Line(c) ==
  net.taken[c] \o net.values[c] \o
  [i \in DOMAIN net.senders[c] |-> net.senders[c][i][2]]

\* Messages leave a channel in the order of the sends, through the buffer,
\* a parked sender, a parked receiver or a select, and never twice.
FirstInFirstOut ==
  \A c \in Channels : \A i, j \in DOMAIN Line(c) : i < j => Line(c)[i] < Line(c)[j]

Delivered == UNION {entries(net.taken[c] \o net.values[c]) : c \in Channels}
Parked    == {s[2] : s \in UNION {entries(net.senders[c]) : c \in Channels}}

\* A send succeeds exactly when its value was received or is buffered: a
\* caller told "sent" has not lost its value, one that failed or lost its
\* select has not leaked it.
NothingLostNothingLeaked ==
  \A m \in Messages :
    /\ net.fate[m] = "sent" <=> m \in Delivered
    /\ net.fate[m] = "parked" <=> m \in Parked

\* Nobody sleeps beside its partner: receivers are parked only on an empty
\* open channel, senders of an open channel only on a full one, and a plain
\* send is never parked on a closed one.
NobodySleepsBesideWork ==
  \A c \in Channels :
    /\ net.receivers[c] # <<>> =>
         ~net.closed[c] /\ net.values[c] = <<>> /\ net.senders[c] = <<>>
    /\ net.senders[c] # <<>> => net.closed[c] \/ Len(net.values[c]) = Capacity[c]
    /\ net.closed[c] => \A s \in entries(net.senders[c]) : net.waiting[s[1]] # "plain"

\* A select that was completed, or a call that returned, is registered
\* nowhere: no later value is handed to a caller that has gone.
OnlyWaitersAreRegistered ==
  \A c \in Channels :
    /\ \A p \in entries(net.receivers[c]) : net.waiting[p] # "no"
    /\ \A s \in entries(net.senders[c]) : net.waiting[s[1]] # "no"

\* A receiver hears the end of a channel only after its buffer was drained.
EndComesLast ==
  \A c \in Channels : told[c] # {} => net.closed[c] /\ net.values[c] = <<>>

\* Order, exactly-once delivery, no sleeper beside its partner, no offer left
\* behind by a completed select, and the end after everything else.
ChannelIsSound ==
  /\ ChannelTypeOK
  /\ FirstInFirstOut
  /\ NothingLostNothingLeaked
  /\ NobodySleepsBesideWork
  /\ OnlyWaitersAreRegistered
  /\ EndComesLast
=============================================================================

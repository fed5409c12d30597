--------------------------- MODULE KubeletProofs ---------------------------
(***************************************************************************)
(* What is proved of PodWorkers: one worker for each pod, no update lost,  *)
(* what runs is tracked, termination interrupts (WorkersAreSound), and the *)
(* record of a pod only moves on (OnlyOnward).                             *)
(*                                                                         *)
(* None of it is inductive as it stands.  IInv adds, for each pod: which   *)
(* goroutine listens to the channel (Lone), what the flags of the record   *)
(* imply of each other and of the node (Sound, Asked), what the work in a  *)
(* worker's hands says of the record it was taken from (WorkOK), and where *)
(* a pending update is remembered (Remembers).  A step touches one pod,    *)
(* and is either an update (UpdateEffect: it delivers or it keeps), a      *)
(* worker that moves (WorkerKeeps), SyncKnownPods or close().              *)
(*                                                                         *)
(* And of Pleg, for any number of pods, changes and errors and any length  *)
(* of time: a worker never syncs with a status older than its last sync,   *)
(* events never outrun the cache, and nobody waits for an answer that is   *)
(* there (PlegIsSound).                                                    *)
(*                                                                         *)
(* And of StatusManager, for any number of pods under a name and of probe  *)
(* results: a phase shown as terminal is true (TerminalIsTrue), and what   *)
(* has ended stays so (StatusSteps).                                       *)
(*                                                                         *)
(* And of Prober, for any number of instances of a container and any set   *)
(* of probes: a container is ready for its own answers (ProbesAreSound),   *)
(* and restarted for its own failures (ReplacedForItsOwn).                 *)
(***************************************************************************)
EXTENDS PodWorkers, Pleg, StatusManager, Prober, FiniteSetTheorems, WellFoundedInduction, TLAPS

\* A goroutine of the pod's worker slot exists; it has an update in hand; it is
\* inside podWorkerLoop's sync or about to complete it.
Live(ws, w) == ws[w].pc # "none"
Working(ws, w) == ws[w].pc \in InFlight \cup {"complete", "completeWork"}
Doing(ws, w) == ws[w].pc \in InFlight \cup {"complete"}

\* The grace periods a record can hold.
Graces == {0, 1, SpecGrace} \cup DeletionGraces

\* A podSyncStatus, the work that startPodSync hands out, and a worker.
StatusRec ==
  [known : {TRUE}, pending : Updates \cup {NoUpdate}, active : Updates \cup {NoUpdate},
   started : BOOLEAN, terminating : BOOLEAN, startedTerminating : BOOLEAN,
   terminated : BOOLEAN, finished : BOOLEAN, deleted : BOOLEAN, restart : BOOLEAN,
   observed : BOOLEAN, working : BOOLEAN, grace : Graces, cancel : Slots \cup {0}]

Types == {"none", "SyncPod", "TerminatingPod", "TerminatedPod"}
WorkRec == [type : Types, pod : Pods \cup {NoPod}, runtime : BOOLEAN]
WorkerRec ==
  [pc : InFlight \cup {"none", "idle", "complete", "completeWork"}, token : BOOLEAN,
   closed : BOOLEAN, cancelled : BOOLEAN, work : WorkRec]

\* One worker: before close() the one that listens to the channel.
Lone(c, ws, stop) ==
  /\ \A v, w \in Slots : Live(ws, v) /\ Live(ws, w) => v = w
  /\ \A w \in Slots : ~Live(ws, w) => ws[w] = NoWorker
  /\ IF stop THEN c = 0 /\ \A w \in Slots : Live(ws, w) => ws[w].closed
     ELSE \A w \in Slots : (Live(ws, w) <=> c = w) /\ ~ws[w].closed

\* An update without a pod is a runtime's, of a pod that must terminate.
Sensible(o, s) ==
  o # NoUpdate => /\ o.pod = NoPod => o.runtime /\ s.terminating
                  /\ o.runtime => s.observed

Sound(s, u, R, stop) ==
  /\ s.finished => s.terminated
  /\ s.terminated => s.terminating /\ s.startedTerminating
  /\ Sensible(s.pending, s) /\ Sensible(s.active, s)
  /\ u \in R /\ ~s.started => u \in Leftover
  /\ u \in R => ~s.terminated \/ stop

\* The record of a pod whose first update has been delivered.
Asked(s, desired) ==
  /\ desired = Absent => s.terminating
  /\ s.terminated /\ ~s.started => s.pending # NoUpdate /\ s.pending.pod # NoPod
  /\ s.started \/ s.observed \/ s.pending # NoUpdate

\* What a worker's work says of the record it was taken from.
WorkOK(s, r, w, u, R) ==
  LET k == r.work
  IN  /\ r.pc \in InFlight => s.cancel = w
      /\ r.pc \in InFlight /\ k.type = "SyncPod" /\ s.terminating => r.cancelled
      /\ k.type = "SyncPod" => ~s.terminated /\ k.pod # NoPod
      /\ k.type = "TerminatingPod" => s.terminating /\ ~s.terminated
      /\ k.type = "TerminatingPod" /\ r.pc # "ready" => s.startedTerminating
      /\ k.type = "TerminatedPod" => s.terminated
      /\ k.type # "none"
      /\ k.pod # NoPod => s.started
      /\ k.pod = NoPod => k.runtime
      /\ k.runtime => s.observed
      /\ r.pc = "started" => k.type = "SyncPod"
      /\ r.pc = "complete" /\ k.type = "TerminatingPod" => u \notin R

\* No update forgotten: a pending update has its token or a busy worker that
\* will look for it, and working is set exactly while there is something to do.
Remembers(s, c, ws) ==
  /\ s.pending # NoUpdate => ws[c].token \/ Working(ws, c)
  /\ s.working <=> s.pending # NoUpdate \/ \E w \in Slots : Working(ws, w)

\* A pod with a record.
Tracked(s, c, ws, desired, u, R, stop) ==
  /\ Sound(s, u, R, stop)
  /\ Asked(s, desired)
  /\ \A w \in Slots : Working(ws, w) => s.started \/ s.observed
  /\ \A w \in Slots : Doing(ws, w) => WorkOK(s, ws[w], w, u, R)
  /\ IF s.finished THEN \A w \in Slots : ~Live(ws, w)
     ELSE stop \/ (c # 0 /\ Remembers(s, c, ws))

\* All of this, for one pod; a pod without a record has no worker.
Good(s, c, ws, desired, u, R, stop) ==
  /\ s \in StatusRec \cup {Unknown} /\ c \in Slots \cup {0} /\ ws \in [Slots -> WorkerRec]
  /\ Lone(c, ws, stop)
  /\ IF s = Unknown
     THEN (\A w \in Slots : ~Live(ws, w)) /\ (u \in R => u \in Leftover \/ stop)
     ELSE Tracked(s, c, ws, desired, u, R, stop)

GoodPod(u) == Good(status[u], chan[u], worker[u], config[u], u, running, stopped)

\* The shape of the variables, and the inductive invariant.
Maps == /\ DOMAIN status = UIDs /\ status = [u \in UIDs |-> status[u]]
        /\ chan = [u \in UIDs |-> chan[u]] /\ worker = [u \in UIDs |-> worker[u]]

Plain ==
  /\ config \in [UIDs -> Pods \cup {Absent}]
  /\ queue \subseteq UIDs /\ reported \subseteq UIDs /\ running \subseteq UIDs
  /\ sourcesReady \in BOOLEAN /\ stopped \in BOOLEAN /\ events \in 0 .. MaxEvents

IInv == Maps /\ Plain /\ \A u \in UIDs : GoodPod(u)

\* What a step may do to the record of a pod.
Allowed(s, t, stop, u, R, ws) ==
  s # Unknown => IF t # Unknown THEN Onward(s, t)
                 ELSE stop \/ (u \notin R /\ \A w \in Slots : ws[w].pc \notin InFlight)

\* What every step owes every pod.
After(u) ==
  /\ GoodPod(u)'
  /\ Allowed(status[u], status'[u], stopped, u, running, worker'[u])

----
(* Values: records, pods, grace periods.                                   *)

\* A record of podSyncStatuses is never the absence of one.
LEMMA UnknownIsNot == \A s \in StatusRec : s.known /\ s # Unknown
<1> SUFFICES ASSUME NEW s \in StatusRec PROVE s.known /\ s # Unknown
  OBVIOUS
<1>1. s.known = TRUE
  BY DEF StatusRec
<1>2. Unknown.known = FALSE
  BY DEF Unknown
<1> QED BY <1>1, <1>2

\* Shorter gives a grace period, no longer than the first unless that is unset.
LEMMA ShorterFacts ==
  ASSUME NEW g \in Graces, NEW x \in Graces \cup {NoGrace}
  PROVE  Shorter(g, x) \in Graces /\ (g # 0 => Shorter(g, x) <= g)
         /\ (g = 0 => Shorter(g, x) \in {0, x})
<1>1. Graces \subseteq Nat /\ NoGrace = -1
  BY PodWorkersAssumption DEF Graces, NoGrace
<1>2. CASE x # NoGrace /\ (g = 0 \/ x < g)
  BY <1>1, <1>2 DEF Shorter
<1>3. CASE ~(x # NoGrace /\ (g = 0 \/ x < g))
  BY <1>1, <1>3 DEF Shorter
<1> QED BY <1>2, <1>3

\* A pod, a runtime's pod, no pod and an absent pod are different things.
LEMMA PodFacts == NoPod \notin Pods /\ Runtime \notin Pods /\ Absent \notin Pods /\ NoPod # Runtime
<1>1. \A p \in Pods : p.api = "pod"
  BY DEF Pods
<1>2. NoPod.api = "none" /\ Runtime.api = "runtime" /\ Absent.api = "absent"
  BY DEF NoPod, Runtime, Absent
<1> QED BY <1>1, <1>2

\* calculateEffectiveGracePeriod gives a second or more, and never more time
\* than the pod had.
LEMMA GraceFacts ==
  ASSUME NEW s \in StatusRec, NEW pod \in Pods \cup {Runtime}, NEW override \in {NoGrace, 1}
  PROVE  LET g == EffectiveGrace(s, pod, override)
         IN  /\ g \in Graces /\ g # 0
             /\ s.grace # 0 => g <= s.grace
<1>0. /\ Graces \subseteq Nat /\ SpecGrace \in Nat
      /\ 0 \in Graces /\ 1 \in Graces /\ SpecGrace \in Graces
  BY PodWorkersAssumption DEF Graces
<1>1. s.grace \in Graces
  BY DEF StatusRec
<1>2. pod.grace \in Graces \cup {NoGrace}
  <2>1. CASE pod \in Pods
    BY <2>1 DEF Pods, Graces
  <2>2. CASE pod = Runtime
    BY <2>2 DEF Runtime
  <2> QED BY <2>1, <2>2
<1> DEFINE a == Shorter(s.grace, pod.grace)
           b == Shorter(a, override)
<1>4. a \in Graces /\ (s.grace # 0 => a <= s.grace)
  BY <1>1, <1>2, ShorterFacts
<1>5. b \in Graces /\ (a # 0 => b <= a) /\ (a = 0 => b \in {0, 1})
  <2> HIDE DEF a
  <2>1. override \in Graces \cup {NoGrace}
    BY <1>0
  <2>2. b \in Graces /\ (a # 0 => b <= a) /\ (a = 0 => b \in {0, override})
    BY <1>4, <2>1, ShorterFacts
  <2>3. a = 0 /\ override = NoGrace => b = 0
    BY DEF Shorter
  <2> QED BY <2>2, <2>3
<1> HIDE DEF a, b
<1> DEFINE spec == IF pod = Runtime THEN 0 ELSE SpecGrace
           unasked == s.grace = 0 /\ pod.grace = NoGrace /\ override = NoGrace
           g == IF unasked THEN spec ELSE b
<1>6. g \in Graces /\ (s.grace # 0 => g = b)
  BY <1>0, <1>5
<1>7. EffectiveGrace(s, pod, override) = IF g < 1 THEN 1 ELSE g
  BY DEF EffectiveGrace, a, b
<1> HIDE DEF g
<1>8. ASSUME s.grace # 0 PROVE (IF g < 1 THEN 1 ELSE g) <= s.grace
  <2>1. a <= s.grace /\ (a # 0 => g <= a) /\ (a = 0 => g \in {0, 1}) /\ s.grace \in Nat /\ a \in Nat /\ g \in Nat
    BY <1>0, <1>1, <1>4, <1>5, <1>6, <1>8
  <2> QED BY <1>8, <2>1
<1>9. (IF g < 1 THEN 1 ELSE g) \in Graces /\ (IF g < 1 THEN 1 ELSE g) # 0
  BY <1>0, <1>6
<1> QED BY <1>7, <1>8, <1>9

----
(* updatePod: what an update makes of a record before it is delivered.     *)

\* t is s with more known of the pod: flags raised, the grace period shortened,
\* and what the worker owns left alone.
Advances(t, s) ==
  /\ t \in StatusRec /\ s \in StatusRec
  /\ t.pending = s.pending /\ t.active = s.active /\ t.cancel = s.cancel
  /\ (t.started <=> s.started) /\ (t.startedTerminating <=> s.startedTerminating)
  /\ (t.terminated <=> s.terminated) /\ (t.finished <=> s.finished) /\ (t.working <=> s.working)
  /\ s.terminating => t.terminating
  /\ s.observed => t.observed
  /\ s.terminating /\ s.grace # 0 => t.grace # 0 /\ t.grace <= s.grace

\* The options that UpdatePod is called with.
ValidOptions(o) ==
  /\ o \in [type : {"create", "update", "sync", "kill"}, pod : Pods \cup {NoPod},
            runtime : BOOLEAN, override : {NoGrace, 1}]
  /\ o.runtime <=> o.pod = NoPod

\* Grace periods can be compared.
LEMMA GracesAreNumbers == Graces \subseteq Nat
  BY PodWorkersAssumption DEF Graces

\* The flags that updatePod sets, and the grace period that it shortens.
LEMMA ObservedAdvances ==
  ASSUME NEW s \in StatusRec, NEW b \in BOOLEAN
  PROVE  LET t == [s EXCEPT !.observed = @ \/ b]
         IN  Advances(t, s) /\ t.grace = s.grace /\ (t.observed <=> s.observed \/ b) /\ (t.terminating <=> s.terminating)
<1> DEFINE t == [s EXCEPT !.observed = @ \/ b]
<1>1. t \in StatusRec
  BY DEF StatusRec
<1>2. (t.observed <=> s.observed \/ b) /\ (t.terminating <=> s.terminating)
  BY DEF StatusRec
<1>3. /\ t.pending = s.pending /\ t.active = s.active /\ t.cancel = s.cancel
      /\ (t.started <=> s.started) /\ (t.startedTerminating <=> s.startedTerminating)
      /\ (t.terminated <=> s.terminated) /\ (t.finished <=> s.finished) /\ (t.working <=> s.working)
  BY DEF StatusRec
<1>4. t.grace = s.grace /\ s.grace \in Nat
  BY GracesAreNumbers DEF StatusRec
<1>5. (s.observed => t.observed) /\ (s.terminating => t.terminating)
  BY Zenon, <1>2
<1>6. (t.observed <=> s.observed \/ b) /\ (t.terminating <=> s.terminating)
  BY <1>2
<1> HIDE DEF t
<1> QED BY <1>1, <1>3, <1>4, <1>5, <1>6 DEF Advances, t

\* updatePod raises terminating (deletion, a terminal phase, a kill or a pod of
\* the runtime alone), and moves nothing else.
LEMMA TerminatingAdvances ==
  ASSUME NEW s \in StatusRec, NEW b \in BOOLEAN
  PROVE  LET t == [s EXCEPT !.terminating = TRUE, !.deleted = @ \/ b]
         IN  Advances(t, s) /\ t.grace = s.grace /\ t.terminating /\ (t.observed <=> s.observed)
<1> DEFINE t == [s EXCEPT !.terminating = TRUE, !.deleted = @ \/ b]
<1>1. t \in StatusRec
  BY DEF StatusRec
<1>2. t.terminating /\ (t.observed <=> s.observed)
  BY DEF StatusRec
<1>3. /\ t.pending = s.pending /\ t.active = s.active /\ t.cancel = s.cancel
      /\ (t.started <=> s.started) /\ (t.startedTerminating <=> s.startedTerminating)
      /\ (t.terminated <=> s.terminated) /\ (t.finished <=> s.finished) /\ (t.working <=> s.working)
  BY DEF StatusRec
<1>4. t.grace = s.grace /\ s.grace \in Nat
  BY GracesAreNumbers DEF StatusRec
<1> HIDE DEF t
<1> QED BY <1>1, <1>2, <1>3, <1>4 DEF Advances, t

\* updatePod's restartRequested only adds to the record.
LEMMA RestartAdvances ==
  ASSUME NEW s \in StatusRec
  PROVE  LET t == [s EXCEPT !.restart = TRUE]
         IN  Advances(t, s) /\ t.grace = s.grace /\ (t.terminating <=> s.terminating) /\ (t.observed <=> s.observed)
<1> DEFINE t == [s EXCEPT !.restart = TRUE]
<1>1. t \in StatusRec
  BY DEF StatusRec
<1>2. (t.terminating <=> s.terminating) /\ (t.observed <=> s.observed)
  BY DEF StatusRec
<1>3. /\ t.pending = s.pending /\ t.active = s.active /\ t.cancel = s.cancel
      /\ (t.started <=> s.started) /\ (t.startedTerminating <=> s.startedTerminating)
      /\ (t.terminated <=> s.terminated) /\ (t.finished <=> s.finished) /\ (t.working <=> s.working)
  BY DEF StatusRec
<1>4. t.grace = s.grace /\ s.grace \in Nat
  BY GracesAreNumbers DEF StatusRec
<1> HIDE DEF t
<1> QED BY <1>1, <1>2, <1>3, <1>4 DEF Advances, t

\* updatePod's grace period never grows once the pod terminates.
LEMMA GraceAdvances ==
  ASSUME NEW s \in StatusRec, NEW g \in Graces, s.grace # 0 => g # 0 /\ g <= s.grace
  PROVE  Advances([s EXCEPT !.grace = g], s) /\ [s EXCEPT !.grace = g].grace = g
<1> DEFINE t == [s EXCEPT !.grace = g]
<1>1. t \in StatusRec /\ t.grace = g
  BY DEF StatusRec
<1>2. (t.observed <=> s.observed) /\ (t.terminating <=> s.terminating)
  BY DEF StatusRec
<1>3. /\ t.pending = s.pending /\ t.active = s.active /\ t.cancel = s.cancel
      /\ (t.started <=> s.started) /\ (t.startedTerminating <=> s.startedTerminating)
      /\ (t.terminated <=> s.terminated) /\ (t.finished <=> s.finished) /\ (t.working <=> s.working)
  BY DEF StatusRec
<1> HIDE DEF t
<1> QED BY <1>1, <1>2, <1>3 DEF Advances, t

\* Advancing twice is advancing.
LEMMA AdvancesOn ==
  ASSUME NEW s, NEW t, NEW v, Advances(t, s), Advances(v, t)
  PROVE  Advances(v, s)
<1>1. s.grace \in Nat /\ t.grace \in Nat /\ v.grace \in Nat
  BY GracesAreNumbers DEF Advances, StatusRec
<1> QED BY <1>1 DEF Advances

\* updatePod takes the pod of the pending or active update for an update that
\* has only a runtime pod, and leaves every other update as it is.
LEMMA ResolvedFacts ==
  ASSUME NEW s \in StatusRec, NEW o, ValidOptions(o)
  PROVE  LET r == Resolved(s, o)
         IN  /\ r.pod \in Pods \cup {NoPod} /\ r.runtime \in BOOLEAN
             /\ r.type = o.type /\ r.override = o.override
             /\ r.pod = NoPod => r.runtime
             /\ r.runtime => o.runtime
             /\ o.runtime /\ r.pod # NoPod => ~r.runtime
             /\ ~o.runtime => r = o
<1> DEFINE q(p) == [o EXCEPT !.pod = p.pod, !.runtime = FALSE]
<1>1. ASSUME NEW p \in Updates \cup {NoUpdate}, p # NoUpdate, p.pod # NoPod
      PROVE  /\ q(p).pod \in Pods /\ q(p).runtime = FALSE
             /\ q(p).type = o.type /\ q(p).override = o.override
  BY <1>1 DEF ValidOptions, Updates
<1>2. s.pending \in Updates \cup {NoUpdate} /\ s.active \in Updates \cup {NoUpdate}
  BY DEF StatusRec
<1>3. CASE ~o.runtime
  BY <1>3 DEF Resolved, ValidOptions
<1>4. CASE o.runtime /\ s.pending # NoUpdate /\ s.pending.pod # NoPod
  <2>1. Resolved(s, o) = q(s.pending)
    BY <1>4 DEF Resolved
  <2> HIDE DEF q
  <2> QED BY <1>1, <1>2, <1>4, <2>1, PodFacts
<1>5. CASE /\ o.runtime /\ ~(s.pending # NoUpdate /\ s.pending.pod # NoPod)
           /\ s.active # NoUpdate /\ s.active.pod # NoPod
  <2>1. Resolved(s, o) = q(s.active)
    BY <1>5 DEF Resolved
  <2> HIDE DEF q
  <2> QED BY <1>1, <1>2, <1>5, <2>1, PodFacts
<1>6. CASE /\ o.runtime /\ ~(s.pending # NoUpdate /\ s.pending.pod # NoPod)
           /\ ~(s.active # NoUpdate /\ s.active.pod # NoPod)
  <2>1. Resolved(s, o) = o
    BY <1>6 DEF Resolved
  <2> QED BY <1>6, <2>1 DEF ValidOptions
<1> QED BY <1>3, <1>4, <1>5, <1>6

\* What updatePod does: it keeps the record, or delivers an update to it.
DeliversTo(u, s0, opt) ==
  \E s, o, interrupts :
    /\ Deliver(u, s, o, interrupts) /\ Advances(s, s0) /\ ~s0.finished
    /\ interrupts \in BOOLEAN
    /\ o.pod \in Pods \cup {NoPod} /\ o.runtime \in BOOLEAN
    /\ o.pod = NoPod => o.runtime /\ s.terminating /\ ~s.terminated
    /\ o.runtime => s.observed
    /\ s.terminating /\ ~s0.terminating => interrupts
    /\ opt.runtime \/ opt.type = "kill" => s.terminating

\* updatePod drops the update: of a pod that finished, that terminated already,
\* or that was seen only by the runtime and is gone.
KeepsOf(u, s0, firstTime, opt) ==
  \E s : /\ Keeps(u, s) /\ Advances(s, s0)
         /\ \/ ~firstTime /\ s0.terminating
            \/ s0.finished
            \/ opt.runtime /\ s0.terminated

\* Every path through updatePod ends in one of the two.
LEMMA UpdateEffect ==
  ASSUME NEW u \in UIDs, NEW s0 \in StatusRec, NEW firstTime \in BOOLEAN,
         NEW opt, ValidOptions(opt), Update(u, s0, firstTime, opt),
         s0.terminated => s0.terminating
  PROVE  DeliversTo(u, s0, opt) \/ KeepsOf(u, s0, firstTime, opt)
<1> DEFINE s1 == [s0 EXCEPT !.observed = @ \/ opt.runtime]
           o == Resolved(s0, opt)
           pod == IF o.pod = NoPod THEN Runtime ELSE o.pod
           becomes == Becomes(s1, [o EXCEPT !.runtime = opt.runtime], pod)
           s2 == IF becomes
                 THEN [s1 EXCEPT !.terminating = TRUE,
                                 !.deleted = @ \/ opt.runtime \/ pod.deleting]
                 ELSE s1
           g == EffectiveGrace(s2, pod, o.override)
<1>1. \/ /\ ~firstTime /\ s1.terminating /\ o.type = "create"
         /\ Keeps(u, [s1 EXCEPT !.restart = TRUE])
      \/ /\ s1.finished \/ (s2.terminated /\ opt.runtime)
         /\ Keeps(u, s1)
      \/ /\ ~s1.finished /\ s2.terminating /\ ~s2.terminated
         /\ Deliver(u, [s2 EXCEPT !.grace = g], o, becomes \/ (s2.grace # 0 /\ s2.grace # g))
      \/ /\ ~s1.finished /\ ~(s2.terminated /\ opt.runtime) /\ ~(s2.terminating /\ ~s2.terminated)
         /\ Deliver(u, s2, o, becomes)
  BY Zenon DEF Update
<1>2. opt.runtime \in BOOLEAN /\ opt.type \in {"create", "update", "sync", "kill"}
  BY DEF ValidOptions
<1>3. Advances(s1, s0) /\ (s1.observed <=> s0.observed \/ opt.runtime) /\ (s1.terminating <=> s0.terminating)
  BY <1>2, ObservedAdvances
<1>4. /\ o.pod \in Pods \cup {NoPod} /\ o.runtime \in BOOLEAN
      /\ o.type = opt.type /\ o.override \in {NoGrace, 1}
      /\ o.pod = NoPod => o.runtime
      /\ o.runtime => opt.runtime
  BY ResolvedFacts DEF ValidOptions
<1>5. pod \in Pods \cup {Runtime} /\ pod.deleting \in BOOLEAN
  BY <1>4 DEF Pods, Runtime
<1> HIDE DEF s1, o, pod
<1>6. becomes \in BOOLEAN /\ (opt.runtime \/ opt.type = "kill" => becomes \/ s1.terminating)
  BY <1>4 DEF Becomes
<1>7. s1 \in StatusRec
  BY <1>3 DEF Advances
<1> HIDE DEF becomes
<1>8. /\ Advances(s2, s1) /\ (s2.observed <=> s1.observed)
      /\ becomes => s2.terminating
      /\ ~becomes => (s2.terminating <=> s1.terminating)
  <2>1. CASE becomes
    <3>1. (opt.runtime \/ pod.deleting) \in BOOLEAN
      BY <1>2, <1>5
    <3>2. s2 = [s1 EXCEPT !.terminating = TRUE, !.deleted = @ \/ (opt.runtime \/ pod.deleting)]
      BY <2>1
    <3> QED BY <1>7, <3>1, <3>2, TerminatingAdvances, <2>1
  <2>2. CASE ~becomes
    <3>1. s1.grace \in Nat
      BY <1>7, GracesAreNumbers DEF StatusRec
    <3> QED BY <1>7, <2>2, <3>1 DEF Advances
  <2> QED BY <2>1, <2>2
<1> HIDE DEF s2
<1>9. Advances(s2, s0) /\ s2 \in StatusRec
  BY <1>3, <1>8, AdvancesOn DEF Advances
<1>10. /\ (s2.terminated <=> s0.terminated) /\ (s1.finished <=> s0.finished)
       /\ s2.terminating /\ ~s0.terminating => becomes
       /\ opt.runtime \/ opt.type = "kill" => s2.terminating
       /\ opt.runtime => s2.observed
  BY <1>3, <1>6, <1>8, <1>9 DEF Advances
<1>11. CASE ~firstTime /\ s1.terminating /\ o.type = "create" /\ Keeps(u, [s1 EXCEPT !.restart = TRUE])
  <2>1. Advances([s1 EXCEPT !.restart = TRUE], s0)
    BY <1>3, <1>7, RestartAdvances, AdvancesOn
  <2> QED BY <1>3, <1>11, <2>1 DEF KeepsOf
<1>12. CASE (s1.finished \/ (s2.terminated /\ opt.runtime)) /\ Keeps(u, s1)
  BY <1>3, <1>10, <1>12 DEF KeepsOf
<1>13. CASE /\ ~s1.finished /\ s2.terminating /\ ~s2.terminated
            /\ Deliver(u, [s2 EXCEPT !.grace = g], o, becomes \/ (s2.grace # 0 /\ s2.grace # g))
  <2> DEFINE s3 == [s2 EXCEPT !.grace = g]
  <2>1. g \in Graces /\ g # 0 /\ (s2.grace # 0 => g <= s2.grace)
    BY <1>4, <1>5, <1>9, GraceFacts
  <2> HIDE DEF g
  <2>2. Advances(s3, s2)
    BY <1>9, <2>1, GraceAdvances
  <2>3. Advances(s3, s0)
    BY <1>9, <2>2, AdvancesOn
  <2>4. s3.terminating /\ ~s3.terminated /\ (opt.runtime => s3.observed)
    BY <1>10, <1>13, <2>2 DEF Advances
  <2>5. (becomes \/ (s2.grace # 0 /\ s2.grace # g)) \in BOOLEAN
    BY <1>6
  <2>6. Deliver(u, s3, o, becomes \/ (s2.grace # 0 /\ s2.grace # g))
    BY <1>13
  <2> HIDE DEF s3
  <2> QED BY <1>4, <1>10, <1>13, <2>3, <2>4, <2>5, <2>6 DEF DeliversTo
<1>14. CASE /\ ~s1.finished /\ ~(s2.terminated /\ opt.runtime) /\ ~(s2.terminating /\ ~s2.terminated)
            /\ Deliver(u, s2, o, becomes)
  BY <1>4, <1>6, <1>9, <1>10, <1>14 DEF DeliversTo
<1> QED BY <1>1, <1>11, <1>12, <1>13, <1>14

----
(* A delivered update, a first one, and a dropped one.                     *)

\* The fields of a record have their types.
LEMMA RecordFacts ==
  ASSUME NEW s \in StatusRec
  PROVE  /\ s.known = TRUE
         /\ s.pending \in Updates \cup {NoUpdate} /\ s.active \in Updates \cup {NoUpdate}
         /\ {s.started, s.terminating, s.startedTerminating, s.terminated, s.finished,
             s.observed, s.working} \subseteq BOOLEAN
         /\ s.grace \in Nat /\ s.cancel \in Slots \cup {0}
<1>1. s.grace \in Graces
  BY DEF StatusRec
<1>2. s.grace \in Nat
  BY <1>1, GracesAreNumbers
<1> QED BY <1>2 DEF StatusRec

\* The fields of a record that nothing but the two named ones is changed of.
LEMMA PendingFacts ==
  ASSUME NEW s \in StatusRec, NEW p \in Updates
  PROVE  LET t == [s EXCEPT !.pending = p, !.working = TRUE]
         IN  /\ t \in StatusRec /\ t.pending = p /\ t.working
             /\ t.active = s.active /\ t.cancel = s.cancel /\ t.grace = s.grace
             /\ (t.started <=> s.started) /\ (t.startedTerminating <=> s.startedTerminating)
             /\ (t.terminated <=> s.terminated) /\ (t.finished <=> s.finished)
             /\ (t.terminating <=> s.terminating) /\ (t.observed <=> s.observed)
<1> DEFINE t == [s EXCEPT !.pending = p, !.working = TRUE]
<1>1. t \in StatusRec
  BY DEF StatusRec
<1>2. t.pending = p /\ t.working
  BY DEF StatusRec
<1>3. /\ t.active = s.active /\ t.cancel = s.cancel /\ t.grace = s.grace
      /\ (t.started <=> s.started) /\ (t.startedTerminating <=> s.startedTerminating)
      /\ (t.terminated <=> s.terminated) /\ (t.finished <=> s.finished)
      /\ (t.terminating <=> s.terminating) /\ (t.observed <=> s.observed)
  BY DEF StatusRec
<1> QED BY <1>1, <1>2, <1>3

\* A token for the listening worker, and a cancelled context.
LEMMA TokenFacts ==
  ASSUME NEW ws \in [Slots -> WorkerRec], NEW w \in Slots
  PROVE  /\ Token(ws, w) \in [Slots -> WorkerRec]
         /\ Token(ws, w)[w].token
         /\ \A x \in Slots : x # w => Token(ws, w)[x] = ws[x]
         /\ \A x \in Slots : /\ Token(ws, w)[x].pc = ws[x].pc
                             /\ (Token(ws, w)[x].closed <=> ws[x].closed)
                             /\ (Token(ws, w)[x].cancelled <=> ws[x].cancelled)
                             /\ Token(ws, w)[x].work = ws[x].work
<1>1. w # 0
  BY DEF Slots
<1>2. Token(ws, w) = [ws EXCEPT ![w].token = TRUE]
  BY <1>1 DEF Token
<1>3. [ws EXCEPT ![w].token = TRUE] = [ws EXCEPT ![w] = [ws[w] EXCEPT !.token = TRUE]]
  OBVIOUS
<1> DEFINE r == [ws[w] EXCEPT !.token = TRUE]
<1>4. /\ r \in WorkerRec /\ r.token /\ r.pc = ws[w].pc /\ (r.closed <=> ws[w].closed)
      /\ (r.cancelled <=> ws[w].cancelled) /\ r.work = ws[w].work
  BY DEF WorkerRec
<1> HIDE DEF r
<1>5. Token(ws, w) = [ws EXCEPT ![w] = r]
  BY <1>2, <1>3 DEF r
<1> QED BY <1>4, <1>5

\* A cancelled context changes nothing else of a worker.
LEMMA CancelFacts ==
  ASSUME NEW ws \in [Slots -> WorkerRec], NEW c \in Slots \cup {0}
  PROVE  /\ Cancel(ws, c) \in [Slots -> WorkerRec]
         /\ \A x \in Slots : x # c \/ ws[x].pc \notin InFlight => Cancel(ws, c)[x] = ws[x]
         /\ c \in Slots /\ ws[c].pc \in InFlight => Cancel(ws, c)[c].cancelled
         /\ \A x \in Slots : /\ Cancel(ws, c)[x].pc = ws[x].pc
                             /\ (Cancel(ws, c)[x].closed <=> ws[x].closed)
                             /\ (Cancel(ws, c)[x].token <=> ws[x].token)
                             /\ ws[x].cancelled => Cancel(ws, c)[x].cancelled
                             /\ Cancel(ws, c)[x].work = ws[x].work
<1>1. 0 \notin Slots
  BY DEF Slots
<1>2. CASE c # 0 /\ ws[c].pc \in InFlight
  <2>1. c \in Slots
    BY <1>2
  <2>2. Cancel(ws, c) = [ws EXCEPT ![c] = [ws[c] EXCEPT !.cancelled = TRUE]]
    BY <1>2 DEF Cancel
  <2> DEFINE r == [ws[c] EXCEPT !.cancelled = TRUE]
  <2>3. /\ r \in WorkerRec /\ r.cancelled /\ r.pc = ws[c].pc /\ (r.closed <=> ws[c].closed)
        /\ (r.token <=> ws[c].token) /\ r.work = ws[c].work
    BY <2>1 DEF WorkerRec
  <2> HIDE DEF r
  <2>4. Cancel(ws, c) = [ws EXCEPT ![c] = r]
    BY <2>2 DEF r
  <2> QED BY <1>2, <2>1, <2>3, <2>4
<1>3. CASE ~(c # 0 /\ ws[c].pc \in InFlight)
  BY <1>1, <1>3 DEF Cancel
<1> QED BY <1>2, <1>3

\* The workers once an update was sent: they are where they were, one has a
\* token, and whoever syncs is cancelled if the update interrupts.
Informed(ws, n, w, k, interrupts) ==
  /\ n \in [Slots -> WorkerRec]
  /\ n[w].token
  /\ \A x \in Slots :
       /\ n[x].pc = ws[x].pc /\ (n[x].closed <=> ws[x].closed) /\ n[x].work = ws[x].work
       /\ ws[x].cancelled => n[x].cancelled
       /\ ~Live(ws, x) /\ x # w => n[x] = ws[x]
       /\ interrupts /\ x = k /\ ws[x].pc \in InFlight => n[x].cancelled

\* updatePod's send on podUpdates and its cancelFn do just that.
LEMMA SendInforms ==
  ASSUME NEW ws \in [Slots -> WorkerRec], NEW w \in Slots, NEW k \in Slots \cup {0},
         NEW interrupts \in BOOLEAN
  PROVE  Informed(ws, IF interrupts THEN Cancel(Token(ws, w), k) ELSE Token(ws, w), w, k, interrupts)
<1> DEFINE m == Token(ws, w)
           n == Cancel(m, k)
<1>1. /\ m \in [Slots -> WorkerRec] /\ m[w].token
      /\ \A x \in Slots : /\ m[x].pc = ws[x].pc /\ (m[x].closed <=> ws[x].closed)
                          /\ (m[x].cancelled <=> ws[x].cancelled) /\ m[x].work = ws[x].work
                          /\ x # w => m[x] = ws[x]
  BY TokenFacts
<1> HIDE DEF m
<1>2. /\ n \in [Slots -> WorkerRec]
      /\ \A x \in Slots : x # k \/ m[x].pc \notin InFlight => n[x] = m[x]
      /\ k \in Slots /\ m[k].pc \in InFlight => n[k].cancelled
      /\ \A x \in Slots : /\ n[x].pc = m[x].pc
                          /\ (n[x].closed <=> m[x].closed)
                          /\ (n[x].token <=> m[x].token)
                          /\ m[x].cancelled => n[x].cancelled
                          /\ n[x].work = m[x].work
  BY <1>1, CancelFacts
<1> HIDE DEF n
<1>3. \A x \in Slots : ~Live(ws, x) => m[x].pc \notin InFlight
  BY <1>1 DEF Live, InFlight
<1>4. Informed(ws, n, w, k, interrupts)
  <2>1. n[w].token
    BY <1>1, <1>2
  <2>2. ASSUME NEW x \in Slots
        PROVE  /\ n[x].pc = ws[x].pc /\ (n[x].closed <=> ws[x].closed)
               /\ n[x].work = ws[x].work
               /\ ws[x].cancelled => n[x].cancelled
    BY <1>1, <1>2
  <2>3. ASSUME NEW x \in Slots, ~Live(ws, x), x # w
        PROVE  n[x] = ws[x]
    BY <1>1, <1>2, <1>3, <2>3
  <2>4. ASSUME NEW x \in Slots, x = k, ws[x].pc \in InFlight
        PROVE  n[x].cancelled
    BY <1>1, <1>2, <2>4
  <2> QED BY <1>2, <2>1, <2>2, <2>3, <2>4 DEF Informed
<1>5. ~interrupts => Informed(ws, m, w, k, interrupts)
  <2>1. ASSUME NEW x \in Slots, ~Live(ws, x), x # w
        PROVE  m[x] = ws[x]
    BY <1>1, <2>1
  <2>2. ASSUME NEW x \in Slots
        PROVE  /\ m[x].pc = ws[x].pc /\ (m[x].closed <=> ws[x].closed)
               /\ m[x].work = ws[x].work
               /\ ws[x].cancelled => m[x].cancelled
    BY <1>1
  <2> QED BY <1>1, <2>1, <2>2 DEF Informed
<1> QED BY <1>4, <1>5 DEF m, n

\* A pod with a record is tracked.
LEMMA GoodKnown ==
  ASSUME NEW s \in StatusRec, NEW c, NEW ws, NEW d, NEW u, NEW R, NEW stop
  PROVE  Good(s, c, ws, d, u, R, stop) <=>
           /\ c \in Slots \cup {0} /\ ws \in [Slots -> WorkerRec] /\ Lone(c, ws, stop)
           /\ Tracked(s, c, ws, d, u, R, stop)
  BY UnknownIsNot DEF Good

\* A pod whose record only advances, and whose workers are where they were.
LEMMA DeliverGood ==
  ASSUME NEW s0 \in StatusRec, NEW s \in StatusRec, NEW c \in Slots, NEW ws, NEW n,
         NEW d, NEW e, NEW u, NEW R, NEW stop, ~stop, NEW p \in Updates,
         NEW interrupts \in BOOLEAN,
         Good(s0, c, ws, d, u, R, stop),
         Advances(s, s0), ~s0.finished,
         Informed(ws, n, c, s.cancel, interrupts),
         p.pod = NoPod => p.runtime /\ s.terminating /\ ~s.terminated,
         p.runtime => s.observed,
         s.terminating /\ ~s0.terminating => interrupts,
         e = Absent => s.terminating
  PROVE  Good([s EXCEPT !.pending = p, !.working = TRUE], c, n, e, u, R, stop)
<1> DEFINE t == [s EXCEPT !.pending = p, !.working = TRUE]
<1>1. /\ t \in StatusRec /\ t.pending = p /\ t.working
      /\ t.active = s.active /\ t.cancel = s.cancel /\ t.grace = s.grace
      /\ (t.started <=> s.started) /\ (t.startedTerminating <=> s.startedTerminating)
      /\ (t.terminated <=> s.terminated) /\ (t.finished <=> s.finished)
      /\ (t.terminating <=> s.terminating) /\ (t.observed <=> s.observed)
  BY PendingFacts
<1> HIDE DEF t
<1>2. /\ ws \in [Slots -> WorkerRec] /\ Lone(c, ws, stop)
      /\ Tracked(s0, c, ws, d, u, R, stop)
  BY GoodKnown
<1>3. /\ t.active = s0.active /\ t.cancel = s0.cancel
      /\ (t.started <=> s0.started) /\ (t.startedTerminating <=> s0.startedTerminating)
      /\ (t.terminated <=> s0.terminated) /\ ~t.finished
      /\ (s0.terminating => t.terminating) /\ (s0.observed => t.observed)
  BY <1>1 DEF Advances
<1>4. p # NoUpdate /\ c # 0
  <2>1. p.pod \in Pods \cup {NoPod}
    BY DEF Updates
  <2>2. NoUpdate.pod = Absent
    BY DEF NoUpdate
  <2>3. NoPod # Absent
    BY DEF NoPod, Absent
  <2> QED BY <2>1, <2>2, <2>3, PodFacts DEF Slots
<1>5. /\ n \in [Slots -> WorkerRec] /\ n[c].token
      /\ \A x \in Slots :
           /\ n[x].pc = ws[x].pc /\ (n[x].closed <=> ws[x].closed) /\ n[x].work = ws[x].work
           /\ ws[x].cancelled => n[x].cancelled
           /\ ~Live(ws, x) /\ x # c => n[x] = ws[x]
           /\ interrupts /\ x = t.cancel /\ ws[x].pc \in InFlight => n[x].cancelled
  BY <1>1 DEF Informed
<1>6. \A x \in Slots : /\ (Live(n, x) <=> Live(ws, x)) /\ (Working(n, x) <=> Working(ws, x))
                       /\ (Doing(n, x) <=> Doing(ws, x))
  BY <1>5 DEF Live, Working, Doing
<1>7. Lone(c, n, stop)
  BY <1>2, <1>5, <1>6 DEF Lone
<1>8. Sound(t, u, R, stop)
  BY <1>1, <1>2, <1>3, <1>4 DEF Tracked, Sound, Sensible
<1>9. Asked(t, e)
  BY <1>1, <1>2, <1>3, <1>4 DEF Tracked, Asked
<1>10. \A x \in Slots : Working(n, x) => t.started \/ t.observed
  BY <1>2, <1>3, <1>6 DEF Tracked
<1>11. ASSUME NEW x \in Slots, Doing(n, x)
       PROVE  WorkOK(t, n[x], x, u, R)
  <2>1. WorkOK(s0, ws[x], x, u, R)
    BY <1>2, <1>6, <1>11 DEF Tracked
  <2>2. n[x].pc \in InFlight /\ n[x].work.type = "SyncPod" /\ t.terminating => n[x].cancelled
    BY <1>1, <1>3, <1>5, <2>1 DEF WorkOK
  <2> QED BY <1>3, <1>5, <2>1, <2>2 DEF WorkOK
<1>12. Remembers(t, c, n)
  BY <1>1, <1>4, <1>5 DEF Remembers
<1>13. Tracked(t, c, n, e, u, R, stop)
  BY <1>3, <1>4, <1>8, <1>9, <1>10, <1>11, <1>12 DEF Tracked
<1> QED BY <1>1, <1>5, <1>7, <1>13, GoodKnown DEF t

\* A pod without a record: its first update makes the channel and the worker.
LEMMA FirstGood ==
  ASSUME NEW s0 \in StatusRec, NEW s \in StatusRec, NEW c, NEW ws, NEW w \in Slots, NEW n,
         NEW d, NEW e, NEW u, NEW R, NEW stop, ~stop, NEW p \in Updates,
         NEW terminal \in BOOLEAN,
         Good(Unknown, c, ws, d, u, R, stop),
         s0 = FirstStatus(terminal), terminal => u \notin R,
         Advances(s, s0),
         Informed([ws EXCEPT ![w] = [NoWorker EXCEPT !.pc = "idle"]], n, w, s.cancel, TRUE)
         \/ Informed([ws EXCEPT ![w] = [NoWorker EXCEPT !.pc = "idle"]], n, w, s.cancel, FALSE),
         p.pod = NoPod => p.runtime /\ s.terminating /\ ~s.terminated,
         p.runtime => s.observed,
         e = Absent => s.terminating
  PROVE  Good([s EXCEPT !.pending = p, !.working = TRUE], w, n, e, u, R, stop)
<1> DEFINE t == [s EXCEPT !.pending = p, !.working = TRUE]
           idle == [NoWorker EXCEPT !.pc = "idle"]
           m == [ws EXCEPT ![w] = idle]
<1>1. /\ t \in StatusRec /\ t.pending = p /\ t.working
      /\ t.active = s.active /\ t.cancel = s.cancel /\ t.grace = s.grace
      /\ (t.started <=> s.started) /\ (t.startedTerminating <=> s.startedTerminating)
      /\ (t.terminated <=> s.terminated) /\ (t.finished <=> s.finished)
      /\ (t.terminating <=> s.terminating) /\ (t.observed <=> s.observed)
  BY PendingFacts
<1> HIDE DEF t
<1>2. /\ ws \in [Slots -> WorkerRec] /\ Lone(c, ws, stop)
      /\ \A x \in Slots : ~Live(ws, x)
      /\ u \in R => u \in Leftover
  BY DEF Good
<1>3. /\ s0.active = NoUpdate /\ ~s0.finished /\ ~s0.started
      /\ s0.terminated => s0.terminating /\ s0.startedTerminating
      /\ s0.terminated => u \notin R
  BY DEF FirstStatus, FreshStatus
<1>4. /\ t.active = NoUpdate /\ ~t.finished /\ ~t.started
      /\ t.terminated => t.terminating /\ t.startedTerminating
      /\ t.terminated => u \notin R
  BY <1>1, <1>3 DEF Advances
<1>5. p # NoUpdate /\ w # 0
  <2>1. p.pod \in Pods \cup {NoPod}
    BY DEF Updates
  <2>2. NoUpdate.pod = Absent
    BY DEF NoUpdate
  <2>3. NoPod # Absent
    BY DEF NoPod, Absent
  <2> QED BY <2>1, <2>2, <2>3, PodFacts DEF Slots
<1>6. /\ idle.pc = "idle" /\ ~idle.closed /\ NoWorker.pc = "none" /\ ~NoWorker.closed
  BY DEF NoWorker
<1> HIDE DEF idle
<1>7. m[w] = idle /\ \A x \in Slots : x # w => m[x] = ws[x]
  BY <1>2
<1> HIDE DEF m
<1>8. /\ n \in [Slots -> WorkerRec] /\ n[w].token
      /\ \A x \in Slots :
           /\ n[x].pc = m[x].pc /\ (n[x].closed <=> m[x].closed)
           /\ ~Live(m, x) /\ x # w => n[x] = m[x]
  BY DEF Informed, m, idle
<1>9. \A x \in Slots : ws[x] = NoWorker
  BY <1>2 DEF Lone
<1>10. \A x \in Slots : x # w => n[x] = NoWorker
  BY <1>6, <1>7, <1>8, <1>9 DEF Live
<1>11. n[w].pc = "idle" /\ ~n[w].closed
  BY <1>6, <1>7, <1>8
<1>12. \A x \in Slots : /\ Live(n, x) <=> w = x
                        /\ ~Working(n, x) /\ ~Doing(n, x) /\ ~n[x].closed
  BY <1>6, <1>10, <1>11 DEF Live, Working, Doing, InFlight
<1>13. Lone(w, n, stop)
  BY <1>10, <1>12 DEF Lone
<1>14. Sound(t, u, R, stop)
  BY <1>1, <1>2, <1>4 DEF Sound, Sensible
<1>15. Asked(t, e)
  BY <1>1, <1>5 DEF Asked
<1>16. Remembers(t, w, n)
  BY <1>1, <1>5, <1>8 DEF Remembers
<1>17. Tracked(t, w, n, e, u, R, stop)
  BY <1>4, <1>5, <1>12, <1>14, <1>15, <1>16 DEF Tracked
<1> QED BY <1>1, <1>8, <1>13, <1>17, GoodKnown DEF t

\* An update that is dropped leaves its mark on the record of a pod that
\* terminates already.
LEMMA KeepsGood ==
  ASSUME NEW s \in StatusRec, NEW t \in StatusRec, NEW c, NEW ws, NEW d, NEW e,
         NEW u, NEW R, NEW stop, ~stop,
         Good(s, c, ws, d, u, R, stop), Advances(t, s), s.terminating
  PROVE  Good(t, c, ws, e, u, R, stop)
<1>1. /\ c \in Slots \cup {0} /\ ws \in [Slots -> WorkerRec] /\ Lone(c, ws, stop)
      /\ Tracked(s, c, ws, d, u, R, stop)
  BY GoodKnown
<1>2. /\ t.active = s.active /\ t.pending = s.pending /\ t.cancel = s.cancel
      /\ (t.started <=> s.started) /\ (t.startedTerminating <=> s.startedTerminating)
      /\ (t.terminated <=> s.terminated) /\ (t.finished <=> s.finished)
      /\ (t.working <=> s.working)
      /\ t.terminating /\ (s.observed => t.observed)
  BY DEF Advances
<1>3. Sound(t, u, R, stop)
  BY <1>1, <1>2 DEF Tracked, Sound, Sensible
<1>4. Asked(t, e)
  BY <1>1, <1>2 DEF Tracked, Asked
<1>5. \A x \in Slots : Working(ws, x) => t.started \/ t.observed
  BY <1>1, <1>2 DEF Tracked
<1>6. ASSUME NEW x \in Slots, Doing(ws, x)
      PROVE  WorkOK(t, ws[x], x, u, R)
  <2>1. WorkOK(s, ws[x], x, u, R)
    BY <1>1, <1>6 DEF Tracked
  <2> QED BY <1>2, <2>1 DEF WorkOK
<1>7. Remembers(s, c, ws) => Remembers(t, c, ws)
  BY <1>2 DEF Remembers
<1>8. Tracked(t, c, ws, e, u, R, stop)
  BY <1>1, <1>2, <1>3, <1>4, <1>5, <1>6, <1>7 DEF Tracked
<1> QED BY <1>1, <1>8, GoodKnown

Same(u) == /\ status'[u] = status[u] /\ chan'[u] = chan[u] /\ worker'[u] = worker[u]

\* Onward does not hold of just any record: what is terminated has been told.
LEMMA AdvanceIsOnward ==
  ASSUME NEW s \in StatusRec, NEW t,
         s.finished => s.terminated, s.terminated => s.terminating /\ s.startedTerminating,
         t.started <=> s.started, t.terminated <=> s.terminated, t.finished <=> s.finished,
         s.terminating => t.terminating,
         s.terminating /\ s.grace # 0 => t.grace # 0 /\ t.grace <= s.grace
  PROVE  Onward(s, t)
  BY DEF Onward

\* updatePod delivers an update to a pod that has a record.
LEMMA DeliverKeeps ==
  ASSUME NEW u \in UIDs, Maps, ~stopped, stopped' = stopped, running' = running,
         GoodPod(u), status[u] # Unknown,
         NEW opt, DeliversTo(u, status[u], opt),
         config'[u] = Absent => config[u] = Absent \/ opt.runtime \/ opt.type = "kill"
  PROVE  After(u) /\ Maps' /\ \A v \in UIDs \ {u} : Same(v)
<1> DEFINE s0 == status[u]
           ws == worker[u]
           c == chan[u]
           d == config[u]
           e == config'[u]
<1>1. PICK s, o, interrupts :
        /\ Deliver(u, s, o, interrupts) /\ Advances(s, s0) /\ ~s0.finished
        /\ interrupts \in BOOLEAN
        /\ o.pod \in Pods \cup {NoPod} /\ o.runtime \in BOOLEAN
        /\ o.pod = NoPod => o.runtime /\ s.terminating /\ ~s.terminated
        /\ o.runtime => s.observed
        /\ s.terminating /\ ~s0.terminating => interrupts
        /\ opt.runtime \/ opt.type = "kill" => s.terminating
  BY DEF DeliversTo
<1>2. Good(s0, c, ws, d, u, running, stopped)
  BY DEF GoodPod
<1>3. s0 \in StatusRec /\ s \in StatusRec
  BY <1>1, <1>2 DEF Good, Advances
<1>4. /\ Tracked(s0, c, ws, d, u, running, stopped)
      /\ ws \in [Slots -> WorkerRec] /\ c \in Slots \cup {0}
  BY <1>2, <1>3, GoodKnown
<1>5. c \in Slots /\ c # 0
  BY <1>1, <1>4 DEF Tracked
<1> DEFINE p == [pod |-> o.pod, runtime |-> o.runtime]
           t == [s EXCEPT !.pending = p, !.working = TRUE]
           sent == Token(ws, c)
           n == IF interrupts THEN Cancel(sent, s.cancel) ELSE sent
<1>6. /\ chan' = [chan EXCEPT ![u] = c]
      /\ status' = [status EXCEPT ![u] = t]
      /\ worker' = [worker EXCEPT ![u] = n]
  <2>1. PICK w \in Slots :
          /\ w = IF chan[u] # 0 THEN chan[u]
                 ELSE Min({v \in Slots : worker[u][v].pc = "none"})
          /\ chan' = [chan EXCEPT ![u] = w]
          /\ status' = [status EXCEPT ![u] =
                 [s EXCEPT !.pending = [pod |-> o.pod, runtime |-> o.runtime], !.working = TRUE]]
          /\ LET us == IF chan[u] # 0 THEN worker[u]
                       ELSE [worker[u] EXCEPT ![w] = [NoWorker EXCEPT !.pc = "idle"]]
                 to == Token(us, w)
             IN  worker' = [worker EXCEPT ![u] = IF interrupts THEN Cancel(to, s.cancel) ELSE to]
    BY Zenon, <1>1 DEF Deliver
  <2>2. w = c
    BY <1>5, <2>1
  <2> QED BY <1>5, <2>1, <2>2
<1>7. status'[u] = t /\ chan'[u] = c /\ worker'[u] = n
  BY <1>6 DEF Maps
<1>8. Maps' /\ \A v \in UIDs \ {u} : Same(v)
  <2>1. DOMAIN chan = UIDs /\ DOMAIN worker = UIDs
    BY DEF Maps
  <2> QED BY <1>6, <2>1 DEF Maps, Same
<1>9. p \in Updates /\ p.pod = o.pod /\ p.runtime = o.runtime
  BY <1>1 DEF Updates
<1>10. s.cancel \in Slots \cup {0}
  BY <1>3, RecordFacts
<1>11. Informed(ws, n, c, s.cancel, interrupts)
  BY <1>1, <1>4, <1>5, <1>10, SendInforms
<1> HIDE DEF n, p, d, e
<1>12. e = Absent => s.terminating
  BY <1>1, <1>4 DEF Tracked, Asked, Advances, d, e
<1>13. Good(t, c, n, e, u, running, stopped)
  <2>1. p.pod = NoPod => p.runtime /\ s.terminating /\ ~s.terminated
    BY <1>1, <1>9
  <2>2. p.runtime => s.observed
    BY <1>1, <1>9
  <2> QED BY <1>1, <1>2, <1>3, <1>5, <1>9, <1>11, <1>12, <2>1, <2>2, DeliverGood
<1>14. t \in StatusRec /\ Onward(s0, t)
  <2>1. /\ t \in StatusRec /\ t.grace = s.grace
        /\ (t.started <=> s.started) /\ (t.terminated <=> s.terminated)
        /\ (t.finished <=> s.finished) /\ (t.terminating <=> s.terminating)
    BY <1>3, <1>9, PendingFacts
  <2> HIDE DEF t
  <2>2. /\ (t.started <=> s0.started) /\ (t.terminated <=> s0.terminated)
        /\ (t.finished <=> s0.finished) /\ (s0.terminating => t.terminating)
        /\ (s0.terminating /\ s0.grace # 0 => t.grace # 0 /\ t.grace <= s0.grace)
    BY <1>1, <2>1 DEF Advances
  <2>3. /\ s0.finished => s0.terminated
        /\ s0.terminated => s0.terminating /\ s0.startedTerminating
    BY <1>4 DEF Tracked, Sound
  <2> QED BY <1>3, <2>1, <2>2, <2>3, AdvanceIsOnward
<1> HIDE DEF t
<1>15. GoodPod(u)'
  BY <1>7, <1>13 DEF GoodPod, e
<1>16. Allowed(status[u], status'[u], stopped, u, running, worker'[u])
  BY <1>7, <1>14, UnknownIsNot DEF Allowed
<1> QED BY <1>8, <1>15, <1>16 DEF After

\* A record that stays moves nowhere.
LEMMA OnwardSelf ==
  ASSUME NEW s \in StatusRec, s.finished => s.terminated,
         s.terminated => s.terminating /\ s.startedTerminating
  PROVE  Onward(s, s)
<1>1. s.grace \in Nat
  BY RecordFacts
<1> QED BY <1>1 DEF Onward

\* A pod that nothing happens to.
LEMMA SameKeeps ==
  ASSUME NEW u, Same(u), config'[u] = Absent => config[u] = Absent, u \in running' => u \in running,
         stopped' = stopped, GoodPod(u)
  PROVE  After(u)
<1> DEFINE s == status[u]
<1>1. Good(s, chan[u], worker[u], config[u], u, running, stopped)
  BY DEF GoodPod
<1>2. Good(s, chan[u], worker[u], config'[u], u, running', stopped)
  <2>1. CASE s = Unknown
    BY <1>1, <2>1 DEF Good
  <2>2. CASE s # Unknown
    <3>1. s \in StatusRec
      BY <1>1, <2>2 DEF Good
    <3>2. /\ chan[u] \in Slots \cup {0} /\ worker[u] \in [Slots -> WorkerRec]
          /\ Lone(chan[u], worker[u], stopped)
          /\ Tracked(s, chan[u], worker[u], config[u], u, running, stopped)
      BY <1>1, <3>1, GoodKnown
    <3>3. Sound(s, u, running', stopped) /\ Asked(s, config'[u])
      BY <3>2 DEF Tracked, Sound, Asked
    <3>4. ASSUME NEW x \in Slots, Doing(worker[u], x)
          PROVE  WorkOK(s, worker[u][x], x, u, running')
      <4>1. WorkOK(s, worker[u][x], x, u, running)
        BY <3>2, <3>4 DEF Tracked
      <4> QED BY <4>1 DEF WorkOK
    <3>5. Tracked(s, chan[u], worker[u], config'[u], u, running', stopped)
      BY <3>2, <3>3, <3>4 DEF Tracked
    <3> QED BY <3>1, <3>2, <3>5, GoodKnown
  <2> QED BY <2>1, <2>2
<1>3. GoodPod(u)'
  BY <1>2 DEF GoodPod, Same
<1>4. s # Unknown => Onward(s, s)
  <2>1. ASSUME s # Unknown PROVE s \in StatusRec /\ Sound(s, u, running, stopped)
    BY <1>1, <2>1 DEF Good, Tracked
  <2> QED BY <2>1, OnwardSelf DEF Sound
<1> QED BY <1>3, <1>4 DEF After, Allowed, Same

\* updatePod delivers the first update of a pod: the channel, the goroutine and
\* the record appear together.
LEMMA FirstKeeps ==
  ASSUME NEW u \in UIDs, Maps, ~stopped, stopped' = stopped, running' = running,
         GoodPod(u), status[u] = Unknown,
         NEW opt, NEW terminal \in BOOLEAN, terminal => u \notin running,
         DeliversTo(u, FirstStatus(terminal), opt),
         config'[u] = Absent => opt.runtime \/ opt.type = "kill"
  PROVE  After(u) /\ Maps' /\ \A v \in UIDs \ {u} : Same(v)
<1> DEFINE s0 == FirstStatus(terminal)
           ws == worker[u]
           c == chan[u]
           d == config[u]
           e == config'[u]
<1>1. PICK s, o, interrupts :
        /\ Deliver(u, s, o, interrupts) /\ Advances(s, s0) /\ ~s0.finished
        /\ interrupts \in BOOLEAN
        /\ o.pod \in Pods \cup {NoPod} /\ o.runtime \in BOOLEAN
        /\ o.pod = NoPod => o.runtime /\ s.terminating /\ ~s.terminated
        /\ o.runtime => s.observed
        /\ s.terminating /\ ~s0.terminating => interrupts
        /\ opt.runtime \/ opt.type = "kill" => s.terminating
  BY DEF DeliversTo
<1>2. Good(Unknown, c, ws, d, u, running, stopped)
  BY DEF GoodPod
<1>3. s0 \in StatusRec /\ s \in StatusRec
  BY <1>1 DEF Advances
<1>4. /\ ws \in [Slots -> WorkerRec] /\ c \in Slots \cup {0} /\ Lone(c, ws, stopped)
      /\ \A x \in Slots : ~Live(ws, x)
  BY <1>2 DEF Good
<1>5. c = 0
  BY <1>4 DEF Lone
<1> DEFINE p == [pod |-> o.pod, runtime |-> o.runtime]
           t == [s EXCEPT !.pending = p, !.working = TRUE]
<1>6. PICK w \in Slots :
        /\ w = IF chan[u] # 0 THEN chan[u]
               ELSE Min({v \in Slots : worker[u][v].pc = "none"})
        /\ chan' = [chan EXCEPT ![u] = w]
        /\ status' = [status EXCEPT ![u] =
               [s EXCEPT !.pending = [pod |-> o.pod, runtime |-> o.runtime], !.working = TRUE]]
        /\ LET us == IF chan[u] # 0 THEN worker[u]
                     ELSE [worker[u] EXCEPT ![w] = [NoWorker EXCEPT !.pc = "idle"]]
               to == Token(us, w)
           IN  worker' = [worker EXCEPT ![u] = IF interrupts THEN Cancel(to, s.cancel) ELSE to]
  BY Zenon, <1>1 DEF Deliver
<1> DEFINE m == [ws EXCEPT ![w] = [NoWorker EXCEPT !.pc = "idle"]]
           sent == Token(m, w)
           n == IF interrupts THEN Cancel(sent, s.cancel) ELSE sent
<1>7. /\ chan' = [chan EXCEPT ![u] = w]
      /\ status' = [status EXCEPT ![u] = t]
      /\ worker' = [worker EXCEPT ![u] = n]
  BY <1>5, <1>6
<1>8. status'[u] = t /\ chan'[u] = w /\ worker'[u] = n
  BY <1>7 DEF Maps
<1>9. Maps' /\ \A v \in UIDs \ {u} : Same(v)
  <2>1. DOMAIN chan = UIDs /\ DOMAIN worker = UIDs
    BY DEF Maps
  <2> QED BY <1>7, <2>1 DEF Maps, Same
<1>10. p \in Updates /\ p.pod = o.pod /\ p.runtime = o.runtime
  BY <1>1 DEF Updates
<1>11. s.cancel \in Slots \cup {0}
  BY <1>3, RecordFacts
<1>12. m \in [Slots -> WorkerRec]
  <2> DEFINE idle == [NoWorker EXCEPT !.pc = "idle"]
  <2>1. idle \in WorkerRec
    BY DEF NoWorker, WorkerRec, NoWork, WorkRec, Types, InFlight
  <2> HIDE DEF idle
  <2>2. [ws EXCEPT ![w] = idle] \in [Slots -> WorkerRec]
    BY <1>4, <2>1
  <2> QED BY <2>2 DEF idle
<1>13. Informed(m, n, w, s.cancel, interrupts)
  <2> HIDE DEF m
  <2> QED BY <1>1, <1>11, <1>12, SendInforms
<1>14. e = Absent => s.terminating
  BY <1>1
<1>15. Good(t, w, n, e, u, running, stopped)
  <2> HIDE DEF n, p, e, d, s0
  <2>1. p.pod = NoPod => p.runtime /\ s.terminating /\ ~s.terminated
    BY <1>1, <1>10
  <2>2. p.runtime => s.observed
    BY <1>1, <1>10
  <2>3. Informed(m, n, w, s.cancel, TRUE) \/ Informed(m, n, w, s.cancel, FALSE)
    BY <1>1, <1>13
  <2> QED BY <1>1, <1>2, <1>3, <1>10, <1>14, <2>1, <2>2, <2>3, FirstGood DEF s0
<1> HIDE DEF t, n
<1>16. GoodPod(u)'
  BY <1>8, <1>15 DEF GoodPod
<1> QED BY <1>9, <1>16 DEF After, Allowed

\* updatePod drops an update: the worker is not disturbed.
LEMMA KeepKeeps ==
  ASSUME NEW u \in UIDs, Maps, ~stopped, stopped' = stopped, running' = running,
         GoodPod(u), status[u] # Unknown,
         NEW s, Keeps(u, s), Advances(s, status[u]), status[u].terminating
  PROVE  After(u) /\ Maps' /\ \A v \in UIDs \ {u} : Same(v)
<1> DEFINE s0 == status[u]
           c == chan[u]
           ws == worker[u]
           d == config[u]
           e == config'[u]
<1>1. Good(s0, c, ws, d, u, running, stopped)
  BY DEF GoodPod
<1>2. s0 \in StatusRec /\ s \in StatusRec
  BY <1>1 DEF Good, Advances
<1>3. Good(s, c, ws, e, u, running, stopped)
  <2> HIDE DEF s0, c, ws, d, e
  <2> QED BY <1>1, <1>2, KeepsGood DEF s0
<1>4. status' = [status EXCEPT ![u] = s] /\ chan' = chan /\ worker' = worker
  BY DEF Keeps
<1>5. Maps' /\ (\A v \in UIDs \ {u} : Same(v)) /\ status'[u] = s
  BY <1>4 DEF Maps, Same
<1>6. GoodPod(u)'
  BY <1>3, <1>4, <1>5 DEF GoodPod
<1>7. Onward(s0, s)
  <2>1. Sound(s0, u, running, stopped)
    BY <1>1, <1>2, GoodKnown DEF Tracked
  <2> QED BY <1>2, <2>1, AdvanceIsOnward DEF Sound, Advances
<1> QED BY <1>2, <1>5, <1>6, <1>7, UnknownIsNot DEF After, Allowed

\* The record that updatePod makes for an unknown pod.
LEMMA FirstStatusFacts ==
  ASSUME NEW terminal \in BOOLEAN
  PROVE  LET s == FirstStatus(terminal)
         IN  /\ s \in StatusRec /\ ~s.finished
             /\ s.terminated => s.terminating
             /\ s.terminated <=> terminal
<1>1. FreshStatus \in StatusRec
  BY DEF FreshStatus, StatusRec, Graces, Slots
<1>2. CASE terminal
  <2>1. FirstStatus(terminal) = [FreshStatus EXCEPT !.terminating = TRUE, !.terminated = TRUE,
                                                    !.startedTerminating = TRUE]
    BY <1>2 DEF FirstStatus
  <2>2. [FreshStatus EXCEPT !.terminating = TRUE, !.terminated = TRUE,
                            !.startedTerminating = TRUE] \in StatusRec
    BY <1>1 DEF StatusRec
  <2>3. ~FreshStatus.finished
    BY DEF FreshStatus
  <2> QED BY <1>1, <1>2, <2>1, <2>2, <2>3 DEF FreshStatus
<1>3. CASE ~terminal
  BY <1>1, <1>3 DEF FirstStatus, FreshStatus
<1> QED BY <1>2, <1>3

\* updatePod: whatever is asked of a pod, its record and its worker stay sound.
LEMMA UpdatePodKeeps ==
  ASSUME NEW u \in UIDs, Maps, ~stopped, stopped' = stopped, running' = running,
         GoodPod(u), NEW opt, ValidOptions(opt), UpdatePod(u, opt),
         config'[u] = Absent => \/ config[u] = Absent /\ status[u] # Unknown
                                \/ opt.runtime \/ opt.type = "kill"
  PROVE  After(u) /\ Maps' /\ \A v \in UIDs \ {u} : Same(v)
<1>1. Good(status[u], chan[u], worker[u], config[u], u, running, stopped)
  BY DEF GoodPod
<1>2. CASE status[u] # Unknown
  <2>1. status[u] \in StatusRec /\ Sound(status[u], u, running, stopped)
    BY <1>1, <1>2 DEF Good, Tracked
  <2>2. Update(u, status[u], FALSE, opt)
    BY <2>1, RecordFacts DEF UpdatePod
  <2>3. DeliversTo(u, status[u], opt) \/ KeepsOf(u, status[u], FALSE, opt)
    BY <2>1, <2>2, UpdateEffect DEF Sound
  <2>4. CASE DeliversTo(u, status[u], opt)
    BY <1>2, <2>4, DeliverKeeps
  <2>5. CASE KeepsOf(u, status[u], FALSE, opt)
    <3>1. PICK s : Keeps(u, s) /\ Advances(s, status[u]) /\ status[u].terminating
      BY <2>1, <2>5 DEF KeepsOf, Sound
    <3> QED BY <1>2, <3>1, KeepKeeps
  <2> QED BY <2>3, <2>4, <2>5
<1>3. CASE status[u] = Unknown
  <2>1. ~status[u].known
    BY <1>3 DEF Unknown
  <2>2. PICK terminal \in BOOLEAN :
          /\ terminal => opt.pod # NoPod /\ opt.pod.terminal /\ u \notin running
          /\ Update(u, FirstStatus(terminal), TRUE, opt)
    BY Zenon, <2>1 DEF UpdatePod
  <2> DEFINE s0 == FirstStatus(terminal)
  <2>3. s0 \in StatusRec /\ ~s0.finished /\ (s0.terminated => s0.terminating) /\ (s0.terminated <=> terminal)
    BY FirstStatusFacts
  <2> HIDE DEF s0
  <2>4. DeliversTo(u, s0, opt) \/ KeepsOf(u, s0, TRUE, opt)
    BY <2>2, <2>3, UpdateEffect DEF s0
  <2>5. ~KeepsOf(u, s0, TRUE, opt)
    BY <2>2, <2>3 DEF KeepsOf, ValidOptions
  <2>6. config'[u] = Absent => opt.runtime \/ opt.type = "kill"
    BY <1>3
  <2> QED BY <1>3, <2>2, <2>4, <2>5, <2>6, FirstKeeps DEF s0
<1> QED BY <1>2, <1>3

----
(* The kubelet: every call of updatePod.                                   *)

\* The step preserves the invariant and only moves records onward.
Kept == IInv' /\ \A v \in UIDs : After(v)

\* An action that updates one pod, whose config it may change.
LEMMA UpdateKeeps ==
  ASSUME NEW u \in UIDs, IInv, Plain', ~stopped, stopped' = stopped, running' = running,
         NEW opt, ValidOptions(opt), UpdatePod(u, opt),
         \A v \in UIDs \ {u} : config'[v] = config[v],
         config'[u] = Absent => \/ config[u] = Absent /\ status[u] # Unknown
                                \/ opt.runtime \/ opt.type = "kill"
  PROVE  Kept
<1>1. After(u) /\ Maps' /\ \A v \in UIDs \ {u} : Same(v)
  BY UpdatePodKeeps DEF IInv
<1>2. ASSUME NEW v \in UIDs \ {u} PROVE After(v)
  BY <1>1, SameKeeps DEF IInv
<1>3. \A v \in UIDs : After(v)
  BY <1>1, <1>2
<1> QED BY <1>1, <1>3 DEF Kept, IInv, After

\* An action that updates no pod.
LEMMA RestKeeps ==
  ASSUME IInv, Plain', UNCHANGED <<status, chan, worker, stopped>>,
         \A v \in UIDs : config'[v] = Absent => config[v] = Absent,
         \A v \in UIDs : v \in running' => v \in running
  PROVE  Kept
<1>1. Maps' /\ \A v \in UIDs : Same(v)
  BY DEF IInv, Maps, Same
<1>2. ASSUME NEW v \in UIDs PROVE After(v)
  BY <1>1, SameKeeps DEF IInv
<1> QED BY <1>1, <1>2 DEF Kept, IInv, After

\* The kubelet's calls of UpdatePod pass valid options.
LEMMA OptionsFacts ==
  ASSUME NEW type \in {"create", "update", "sync", "kill"}, NEW pod \in Pods
  PROVE  /\ ValidOptions(Options(type, pod)) /\ Options(type, pod).type = type
         /\ ~Options(type, pod).runtime
  BY PodFacts DEF ValidOptions, Options, NoGrace

\* HandlePodCleanups kills what runs without a record through its runtime pod.
LEMMA KillFacts == ValidOptions(KillRunning) /\ KillRunning.runtime
  BY DEF ValidOptions, KillRunning

\* An event of the configuration is counted, and none comes after close().
LEMMA EventFacts ==
  ASSUME IInv, ConfigEvent
  PROVE  /\ events' \in 0 .. MaxEvents /\ sourcesReady' \in BOOLEAN
         /\ ~stopped
<1>1. events < MaxEvents /\ events' = events + 1 /\ events \in 0 .. MaxEvents
  BY DEF IInv, Plain, ConfigEvent
<1>2. events' \in 0 .. MaxEvents
  BY <1>1, PodWorkersAssumption
<1>3. sourcesReady' = TRUE /\ ~stopped
  BY DEF ConfigEvent, NextEvent
<1> QED BY <1>2, <1>3

\* handlePodAdditions.
LEMMA AdditionsKeep ==
  ASSUME IInv, NEW u \in UIDs, HandlePodAdditions(u)
  PROVE  Kept
<1>1. PICK p \in Pods : /\ config' = [config EXCEPT ![u] = p]
                        /\ UpdatePod(u, Options("create", p))
  BY DEF HandlePodAdditions
<1>2. config'[u] = p /\ \A v \in UIDs \ {u} : config'[v] = config[v]
  BY <1>1 DEF IInv, Plain
<1>3. Plain' /\ ~stopped /\ stopped' = stopped /\ running' = running
  BY <1>1, PodWorkersAssumption DEF IInv, Plain, HandlePodAdditions, ConfigEvent, NextEvent
<1> QED BY <1>1, <1>2, <1>3, OptionsFacts, UpdateKeeps, PodFacts

\* handlePodUpdates.
LEMMA UpdatesKeep ==
  ASSUME IInv, NEW u \in UIDs, HandlePodUpdates(u)
  PROVE  Kept
<1>1. PICK p \in Pods : /\ config' = [config EXCEPT ![u] = p]
                        /\ UpdatePod(u, Options("update", p))
  BY DEF HandlePodUpdates
<1>2. config'[u] = p /\ \A v \in UIDs \ {u} : config'[v] = config[v]
  BY <1>1 DEF IInv, Plain
<1>3. Plain' /\ ~stopped /\ stopped' = stopped /\ running' = running
  BY <1>1, PodWorkersAssumption DEF IInv, Plain, HandlePodUpdates, ConfigEvent, NextEvent
<1> QED BY <1>1, <1>2, <1>3, OptionsFacts, UpdateKeeps, PodFacts

\* A pod that the configuration holds is a pod.
LEMMA PresentIsPod ==
  ASSUME IInv, NEW u \in UIDs, Present(u) PROVE config[u] \in Pods
  BY DEF IInv, Plain, Present

\* HandlePodReconcile.
LEMMA ReconcileKeeps ==
  ASSUME IInv, NEW u \in UIDs, HandlePodReconcile(u)
  PROVE  Kept
<1> DEFINE p == [config[u] EXCEPT !.terminal = TRUE]
<1>1. p \in Pods
  BY PresentIsPod DEF Pods, HandlePodReconcile
<1>2. /\ config' = [config EXCEPT ![u] = p]
      /\ UpdatePod(u, Options("sync", p)) \/ UNCHANGED <<status, chan, worker>>
  BY DEF HandlePodReconcile
<1> HIDE DEF p
<1>3. config'[u] = p /\ \A v \in UIDs \ {u} : config'[v] = config[v]
  BY <1>2 DEF IInv, Plain
<1>4. Plain' /\ ~stopped /\ stopped' = stopped /\ running' = running
  <2>1. ConfigEvent /\ UNCHANGED <<queue, reported, running, stopped>>
    BY DEF HandlePodReconcile
  <2>2. config' \in [UIDs -> Pods \cup {Absent}]
    BY <1>1, <1>2 DEF IInv, Plain
  <2> QED BY <2>1, <2>2, EventFacts DEF IInv, Plain
<1>5. CASE UpdatePod(u, Options("sync", p))
  BY <1>1, <1>3, <1>4, <1>5, OptionsFacts, UpdateKeeps, PodFacts
<1>6. CASE UNCHANGED <<status, chan, worker>>
  <2>1. \A v \in UIDs : config'[v] = Absent => config[v] = Absent
    BY <1>1, <1>3, PodFacts
  <2> QED BY <1>4, <1>6, <2>1, RestKeeps
<1> QED BY <1>2, <1>5, <1>6

\* HandlePodRemoves.
LEMMA RemovesKeep ==
  ASSUME IInv, NEW u \in UIDs, HandlePodRemoves(u)
  PROVE  Kept
<1>1. config[u] \in Pods
  BY PresentIsPod DEF HandlePodRemoves
<1>2. config' = [config EXCEPT ![u] = Absent] /\ UpdatePod(u, Options("kill", config[u]))
  BY DEF HandlePodRemoves
<1>3. \A v \in UIDs \ {u} : config'[v] = config[v]
  BY <1>2 DEF IInv, Plain
<1>4. Plain' /\ ~stopped /\ stopped' = stopped /\ running' = running
  BY <1>2, PodWorkersAssumption DEF IInv, Plain, HandlePodRemoves, ConfigEvent, NextEvent
<1> QED BY <1>1, <1>2, <1>3, <1>4, OptionsFacts, UpdateKeeps

\* handlePodSyncs.
LEMMA SyncsKeep ==
  ASSUME IInv, NEW u \in UIDs, HandlePodSyncs(u) \/ SyncTick(u)
  PROVE  Kept
<1>1. Plain' /\ ~stopped /\ stopped' = stopped /\ running' = running /\ config' = config
  BY DEF IInv, Plain, HandlePodSyncs, SyncTick, NextEvent
<1>2. CASE Present(u) /\ UpdatePod(u, Options("sync", config[u]))
  BY <1>1, <1>2, PresentIsPod, OptionsFacts, UpdateKeeps DEF Present
<1>3. CASE UNCHANGED <<status, chan, worker>>
  BY <1>1, <1>3, RestKeeps
<1> QED BY <1>2, <1>3 DEF HandlePodSyncs, SyncTick

\* HandlePodCleanups restarts what it finds wanted again, and kills what runs
\* without a record.
LEMMA DeliverCleanupKeeps ==
  ASSUME IInv, NEW u \in UIDs, DeliverCleanup(u)
  PROVE  Kept
<1>1. Plain' /\ ~stopped /\ stopped' = stopped /\ running' = running /\ config' = config
  BY DEF IInv, Plain, DeliverCleanup
<1>2. \/ Present(u) /\ UpdatePod(u, Options("create", config[u]))
      \/ UpdatePod(u, KillRunning)
      \/ Present(u) /\ UpdatePod(u, Options("kill", config[u]))
      \/ UNCHANGED <<status, chan, worker>>
  BY DEF DeliverCleanup, Creates
<1>3. CASE Present(u) /\ UpdatePod(u, Options("create", config[u]))
  BY <1>1, <1>3, PresentIsPod, OptionsFacts, UpdateKeeps DEF Present
<1>4. CASE UpdatePod(u, KillRunning)
  BY <1>1, <1>4, KillFacts, UpdateKeeps
<1>5. CASE Present(u) /\ UpdatePod(u, Options("kill", config[u]))
  BY <1>1, <1>5, PresentIsPod, OptionsFacts, UpdateKeeps DEF Present
<1>6. CASE UNCHANGED <<status, chan, worker>>
  BY <1>1, <1>6, RestKeeps
<1> QED BY <1>2, <1>3, <1>4, <1>5, <1>6

\* Steps that reach no pod worker.
LEMMA RestsKeep ==
  ASSUME IInv, NoPods \/ ListRuntimePods \/ ListFails \/ CleanupDone
  PROVE  Kept
<1>1. UNCHANGED <<config, running, status, chan, worker, stopped, queue>>
  BY DEF NoPods, ListRuntimePods, ListFails, CleanupDone
<1>2. reported' \subseteq reported
  BY DEF NoPods, ListRuntimePods, ListFails, CleanupDone
<1>3. ConfigEvent \/ (events' = events /\ sourcesReady' = sourcesReady)
  BY DEF NoPods, ListRuntimePods, ListFails, CleanupDone
<1>4. events' \in 0 .. MaxEvents /\ sourcesReady' \in BOOLEAN
  BY <1>3, EventFacts DEF IInv, Plain
<1>5. Plain'
  BY <1>1, <1>2, <1>4 DEF IInv, Plain
<1> QED BY <1>1, <1>5, RestKeeps

----
(* A worker: the places of podWorkerLoop, and the completions.             *)

\* A live worker has a record, and is the only one of its pod.
LEMMA LiveFacts ==
  ASSUME IInv, NEW u \in UIDs, NEW w \in Slots, worker[u][w].pc # "none"
  PROVE  /\ status[u] \in StatusRec /\ status[u] # Unknown /\ status[u].known
         /\ worker[u] \in [Slots -> WorkerRec]
         /\ Good(status[u], chan[u], worker[u], config[u], u, running, stopped)
         /\ Lone(chan[u], worker[u], stopped)
         /\ Tracked(status[u], chan[u], worker[u], config[u], u, running, stopped)
         /\ ~status[u].finished
         /\ IF stopped THEN chan[u] = 0 ELSE chan[u] = w
         /\ Onward(status[u], status[u])
<1>1. Good(status[u], chan[u], worker[u], config[u], u, running, stopped)
  BY DEF IInv, GoodPod
<1>2. status[u] # Unknown /\ status[u] \in StatusRec
  BY <1>1 DEF Good, Live
<1>3. /\ worker[u] \in [Slots -> WorkerRec] /\ Lone(chan[u], worker[u], stopped)
      /\ Tracked(status[u], chan[u], worker[u], config[u], u, running, stopped)
  BY <1>1, <1>2, GoodKnown
<1>4. ~status[u].finished
  BY <1>3 DEF Tracked, Live
<1>5. IF stopped THEN chan[u] = 0 ELSE chan[u] = w
  BY <1>3 DEF Lone, Live
<1>6. Sound(status[u], u, running, stopped)
  BY <1>3 DEF Tracked
<1>7. Onward(status[u], status[u])
  BY <1>2, <1>6, OnwardSelf DEF Sound
<1> QED BY <1>1, <1>2, <1>3, <1>4, <1>5, <1>7, RecordFacts

\* A step of one worker: what must hold of the record and of that worker for
\* the pod to stay sound.
LEMMA WorkerGood ==
  ASSUME NEW s \in StatusRec, NEW t \in StatusRec, NEW c, NEW ws, NEW n \in [Slots -> WorkerRec],
         NEW w \in Slots, NEW d, NEW u, NEW R, NEW Q, NEW stop,
         Good(s, c, ws, d, u, R, stop), ws[w].pc # "none",
         \A x \in Slots \ {w} : n[x] = ws[x],
         n[w].pc # "none", n[w].closed <=> ws[w].closed,
         Sound(t, u, Q, stop), Asked(t, d), ~t.finished,
         Working(n, w) => t.started \/ t.observed,
         Doing(n, w) => WorkOK(t, n[w], w, u, Q),
         ~stop => /\ t.pending # NoUpdate => n[w].token \/ Working(n, w)
                  /\ t.working <=> t.pending # NoUpdate \/ Working(n, w)
  PROVE  Good(t, c, n, d, u, Q, stop)
<1>1. /\ c \in Slots \cup {0} /\ ws \in [Slots -> WorkerRec] /\ Lone(c, ws, stop)
  BY GoodKnown
<1>2. \A x \in Slots \ {w} : ~Live(ws, x)
  BY <1>1 DEF Lone, Live
<1>3. \A x \in Slots \ {w} : ~Live(n, x) /\ ~Working(n, x) /\ ~Doing(n, x)
  BY <1>2 DEF Live, Working, Doing, InFlight
<1>4. Lone(c, n, stop)
  <2>1. \A x \in Slots : (Live(n, x) <=> Live(ws, x)) /\ (n[x].closed <=> ws[x].closed)
    BY DEF Live
  <2>2. ASSUME NEW x \in Slots, ~Live(n, x) PROVE n[x] = NoWorker
    <3>1. x # w /\ ~Live(ws, x)
      BY <2>1, <2>2 DEF Live
    <3>2. \A y \in Slots : ~Live(ws, y) => ws[y] = NoWorker
      BY <1>1 DEF Lone
    <3> QED BY <3>1, <3>2
  <2> QED BY <1>1, <2>1, <2>2 DEF Lone
<1>5. ~stop => c = w /\ c # 0
  BY <1>1 DEF Lone, Live, Slots
<1>6. ~stop => Remembers(t, c, n)
  BY <1>3, <1>5 DEF Remembers
<1>7. Tracked(t, c, n, d, u, Q, stop)
  BY <1>3, <1>5, <1>6 DEF Tracked
<1> QED BY <1>1, <1>4, <1>7, GoodKnown

\* The same for a whole step, where the other pods are left alone.
LEMMA WorkerKeeps ==
  ASSUME IInv, Plain', NEW u \in UIDs, NEW t \in StatusRec, NEW n,
         status' = [status EXCEPT ![u] = t], worker' = [worker EXCEPT ![u] = n],
         chan' = chan, stopped' = stopped, config' = config,
         \A v \in UIDs \ {u} : v \in running' <=> v \in running,
         Good(t, chan[u], n, config[u], u, running', stopped), Onward(status[u], t)
  PROVE  Kept
<1>1. Maps' /\ (\A v \in UIDs \ {u} : Same(v)) /\ status'[u] = t /\ worker'[u] = n
  <2>1. DOMAIN status = UIDs /\ DOMAIN worker = UIDs
    BY DEF IInv, Maps
  <2> QED BY <2>1 DEF IInv, Maps, Same
<1>2. GoodPod(u)'
  BY <1>1 DEF GoodPod
<1>3. After(u)
  BY <1>1, <1>2, UnknownIsNot DEF After, Allowed
<1>4. ASSUME NEW v \in UIDs \ {u} PROVE After(v)
  BY <1>1, <1>4, SameKeeps DEF IInv
<1> QED BY <1>1, <1>3, <1>4 DEF Kept, IInv, After

\* A worker that moves to another place, and nothing else of it.
LEMMA MoveFacts ==
  ASSUME NEW ws \in [Slots -> WorkerRec], NEW w \in Slots,
         NEW pc \in InFlight \cup {"complete", "completeWork"}
  PROVE  LET n == [ws EXCEPT ![w].pc = pc]
         IN  /\ n \in [Slots -> WorkerRec] /\ n[w].pc = pc
             /\ (n[w].token <=> ws[w].token) /\ (n[w].closed <=> ws[w].closed)
             /\ (n[w].cancelled <=> ws[w].cancelled) /\ n[w].work = ws[w].work
             /\ \A x \in Slots \ {w} : n[x] = ws[x]
<1> DEFINE r == [ws[w] EXCEPT !.pc = pc]
           n == [ws EXCEPT ![w] = r]
<1>1. /\ r \in WorkerRec /\ r.pc = pc /\ (r.token <=> ws[w].token)
      /\ (r.closed <=> ws[w].closed) /\ (r.cancelled <=> ws[w].cancelled)
      /\ r.work = ws[w].work
  BY DEF WorkerRec
<1>2. n = [ws EXCEPT ![w].pc = pc]
  OBVIOUS
<1> HIDE DEF r
<1>3. n \in [Slots -> WorkerRec] /\ n[w] = r /\ \A x \in Slots \ {w} : n[x] = ws[x]
  BY <1>1
<1> HIDE DEF n
<1> QED BY <1>1, <1>2, <1>3

\* The work goes on in its next place.
Fits(t, was, pc, w, u, R) ==
  \A r \in WorkerRec : r.pc = pc /\ r.work = was.work /\ (r.cancelled <=> was.cancelled)
                        => WorkOK(t, r, w, u, R)
Elsewhere(u) == \A v \in UIDs \ {u} : v \in running' <=> v \in running

\* A worker moves on; its record stays, or remembers that it was told to end.
LEMMA MoveKeeps ==
  ASSUME IInv, Plain', NEW u \in UIDs, NEW w \in Slots, NEW pc \in InFlight \cup {"complete", "completeWork"},
         Working(worker[u], w), Moves(u, w, pc), NEW t \in StatusRec,
         status' = [status EXCEPT ![u] = t],
         chan' = chan, stopped' = stopped, config' = config,
         t = status[u] \/ (t = [status[u] EXCEPT !.startedTerminating = TRUE]),
         Elsewhere(u),
         u \in running' => u \in running \/ (~t.terminated /\ t.started),
         pc # "completeWork" => Fits(t, worker[u][w], pc, w, u, running')
  PROVE  Kept
<1> DEFINE s == status[u]
           ws == worker[u]
           n == [ws EXCEPT ![w].pc = pc]
<1>1. ws[w].pc # "none"
  BY DEF Working, InFlight
<1>2. /\ s \in StatusRec /\ ws \in [Slots -> WorkerRec]
      /\ Good(s, chan[u], ws, config[u], u, running, stopped)
      /\ Tracked(s, chan[u], ws, config[u], u, running, stopped)
      /\ ~s.finished /\ Onward(s, s)
  BY <1>1, LiveFacts
<1>3. /\ t.pending = s.pending /\ t.active = s.active /\ t.grace = s.grace
      /\ (t.started <=> s.started) /\ (t.terminating <=> s.terminating)
      /\ (t.terminated <=> s.terminated) /\ (t.finished <=> s.finished)
      /\ (t.observed <=> s.observed) /\ (t.working <=> s.working)
      /\ (s.startedTerminating => t.startedTerminating)
  <2>1. CASE t = s
    BY <2>1
  <2>2. CASE t = [s EXCEPT !.startedTerminating = TRUE]
    BY <1>2, <2>2 DEF StatusRec
  <2> QED BY <2>1, <2>2
<1>4. /\ n \in [Slots -> WorkerRec] /\ n[w].pc = pc
      /\ (n[w].token <=> ws[w].token) /\ (n[w].closed <=> ws[w].closed)
      /\ (n[w].cancelled <=> ws[w].cancelled) /\ n[w].work = ws[w].work
      /\ \A x \in Slots \ {w} : n[x] = ws[x]
  BY <1>2, MoveFacts
<1>5. worker' = [worker EXCEPT ![u] = n]
  BY DEF Moves
<1> HIDE DEF n
<1>6. Sound(t, u, running', stopped) /\ Asked(t, config[u])
  BY <1>2, <1>3 DEF Tracked, Sound, Sensible, Asked
<1>7. Working(n, w) /\ n[w].pc # "none"
  BY <1>4 DEF Working, InFlight
<1>8. t.started \/ t.observed
  BY <1>2, <1>3 DEF Tracked
<1>9. Doing(n, w) => WorkOK(t, n[w], w, u, running')
  <2>1. Doing(n, w) => pc # "completeWork"
    BY <1>4 DEF Doing, InFlight
  <2>2. n[w] \in WorkerRec
    BY <1>4
  <2> QED BY <1>4, <2>1, <2>2 DEF Fits
<1>10. ~stopped => t.working
  BY <1>2, <1>3 DEF Tracked, Remembers
<1>11. Good(t, chan[u], n, config[u], u, running', stopped)
  BY <1>1, <1>2, <1>3, <1>4, <1>6, <1>7, <1>8, <1>9, <1>10, WorkerGood
<1>12. Onward(s, t)
  BY <1>2, <1>3 DEF Onward
<1> QED BY <1>5, <1>11, <1>12, WorkerKeeps DEF Elsewhere

\* The usual case: the record stays.
LEMMA GoesOnKeeps ==
  ASSUME IInv, Plain', NEW u \in UIDs, NEW w \in Slots, NEW pc \in InFlight \cup {"complete", "completeWork"},
         Working(worker[u], w), Moves(u, w, pc),
         UNCHANGED <<status, chan, stopped, config>>,
         Elsewhere(u),
         u \in running' => u \in running \/ (~status[u].terminated /\ status[u].started),
         pc # "completeWork" => Fits(status[u], worker[u][w], pc, w, u, running')
  PROVE  Kept
<1>1. status[u] \in StatusRec
  BY LiveFacts DEF Working, InFlight
<1>2. status' = [status EXCEPT ![u] = status[u]]
  BY DEF IInv, Maps
<1> QED BY <1>1, <1>2, MoveKeeps

\* What the invariant says of a worker inside a sync.
LEMMA DoingFacts ==
  ASSUME IInv, NEW u \in UIDs, NEW w \in Slots, worker[u][w].pc \in InFlight \cup {"complete"}
  PROVE  /\ status[u] \in StatusRec /\ Working(worker[u], w)
         /\ status[u].known /\ status[u] # Unknown
         /\ WorkOK(status[u], worker[u][w], w, u, running)
         /\ worker[u][w].work \in WorkRec
<1>1. worker[u][w].pc # "none"
  BY DEF InFlight
<1>2. /\ status[u] \in StatusRec /\ worker[u] \in [Slots -> WorkerRec] /\ status[u].known
      /\ Tracked(status[u], chan[u], worker[u], config[u], u, running, stopped)
      /\ status[u] # Unknown
  BY <1>1, LiveFacts
<1>3. worker[u][w].work \in WorkRec
  BY <1>2 DEF WorkerRec
<1> QED BY <1>2, <1>3 DEF Working, Doing, Tracked

\* podWorkerLoop calls the sync function of its work.
LEMMA BeginKeeps ==
  ASSUME IInv, NEW u \in UIDs, NEW w \in Slots, Begin(u, w)
  PROVE  Kept
<1>1. /\ Moves(u, w, "syncing") /\ worker[u][w].pc = "ready"
      /\ UNCHANGED <<config, chan, queue, reported, running, sourcesReady, stopped, events>>
  BY DEF Begin, At
<1>2. Plain' /\ Elsewhere(u)
  BY <1>1 DEF IInv, Plain, Elsewhere
<1>3. /\ status[u] \in StatusRec /\ Working(worker[u], w) /\ status[u].known
      /\ WorkOK(status[u], worker[u][w], w, u, running)
  BY <1>1, DoingFacts DEF InFlight
<1>4. CASE Work(u, w).type = "TerminatingPod"
  <2> DEFINE t == [status[u] EXCEPT !.startedTerminating = TRUE]
  <2>1. status[u].terminating
    BY <1>3, <1>4 DEF WorkOK, Work
  <2>2. status' = [status EXCEPT ![u] = t]
    BY <1>3, <1>4, <2>1 DEF Begin, Work
  <2>3. /\ t \in StatusRec /\ t.startedTerminating /\ t.cancel = status[u].cancel
        /\ (t.started <=> status[u].started) /\ (t.terminating <=> status[u].terminating)
        /\ (t.terminated <=> status[u].terminated) /\ (t.observed <=> status[u].observed)
    BY <1>3 DEF StatusRec
  <2> HIDE DEF t
  <2>4. Fits(t, worker[u][w], "syncing", w, u, running')
    <3> SUFFICES ASSUME NEW r \in WorkerRec, r.pc = "syncing", r.work = worker[u][w].work,
                        r.cancelled <=> worker[u][w].cancelled
                 PROVE  WorkOK(t, r, w, u, running')
      BY DEF Fits
    <3> QED BY <1>1, <1>3, <2>3 DEF WorkOK, InFlight
  <2> QED BY <1>1, <1>2, <1>3, <2>2, <2>3, <2>4, MoveKeeps DEF InFlight, t
<1>5. CASE Work(u, w).type # "TerminatingPod"
  <2>1. UNCHANGED status
    BY <1>5 DEF Begin
  <2>2. Fits(status[u], worker[u][w], "syncing", w, u, running')
    <3> SUFFICES ASSUME NEW r \in WorkerRec, r.pc = "syncing", r.work = worker[u][w].work,
                        r.cancelled <=> worker[u][w].cancelled
                 PROVE  WorkOK(status[u], r, w, u, running')
      BY DEF Fits
    <3> QED BY <1>1, <1>3, <1>5 DEF WorkOK, InFlight, Work
  <2> QED BY <1>1, <1>2, <1>3, <2>1, <2>2, GoesOnKeeps DEF InFlight
<1> QED BY <1>4, <1>5

\* A sync that fails, or that leaves the pod running, goes on to completeWork.
LEMMA ReturnsToLoop ==
  ASSUME IInv, NEW u \in UIDs, NEW w \in Slots, Fails(u, w) \/ SyncPodDone(u, w)
  PROVE  Kept
<1>1. /\ Moves(u, w, "completeWork") /\ worker[u][w].pc \in InFlight
      /\ UNCHANGED <<config, status, chan, queue, reported, running, sourcesReady, stopped, events>>
  BY DEF Fails, SyncPodDone, InFlight
<1>2. Plain' /\ Elsewhere(u)
  BY <1>1 DEF IInv, Plain, Elsewhere
<1>3. Working(worker[u], w)
  BY <1>1 DEF Working
<1> QED BY <1>1, <1>2, <1>3, GoesOnKeeps

\* syncPod starts the containers, even when cancelled meanwhile.
LEMMA StartContainersKeeps ==
  ASSUME IInv, NEW u \in UIDs, NEW w \in Slots, StartContainers(u, w)
  PROVE  Kept
<1>1. /\ Moves(u, w, "started") /\ worker[u][w].pc = "syncing" /\ worker[u][w].work.type = "SyncPod"
      /\ running' = running \cup {u}
      /\ UNCHANGED <<config, status, chan, queue, reported, sourcesReady, stopped, events>>
  BY DEF StartContainers, At, Work
<1>2. Plain' /\ Elsewhere(u)
  BY <1>1 DEF IInv, Plain, Elsewhere
<1>3. /\ status[u] \in StatusRec /\ Working(worker[u], w)
      /\ WorkOK(status[u], worker[u][w], w, u, running)
  BY <1>1, DoingFacts DEF InFlight
<1>4. Fits(status[u], worker[u][w], "started", w, u, running')
  <2> SUFFICES ASSUME NEW r \in WorkerRec, r.pc = "started", r.work = worker[u][w].work,
                      r.cancelled <=> worker[u][w].cancelled
               PROVE  WorkOK(status[u], r, w, u, running')
    BY DEF Fits
  <2> QED BY <1>1, <1>3 DEF WorkOK, InFlight
<1>5. ~status[u].terminated /\ status[u].started
  BY <1>1, <1>3 DEF WorkOK
<1> QED BY <1>1, <1>2, <1>3, <1>4, <1>5, GoesOnKeeps DEF InFlight

\* A sync function that has done its work; a kill leaves nothing running.
LEMMA SyncEndsKeep ==
  ASSUME IInv, NEW u \in UIDs, NEW w \in Slots,
         SyncPodTerminal(u, w) \/ Killed(u, w) \/ SyncTerminated(u, w)
  PROVE  Kept
<1>1. /\ Moves(u, w, "complete") /\ worker[u][w].pc = "syncing"
      /\ reported' \subseteq reported \cup {u}
      /\ UNCHANGED <<config, status, chan, queue, sourcesReady, stopped, events>>
  BY DEF SyncPodTerminal, Killed, SyncTerminated, At
<1>2. /\ running' \subseteq running /\ Elsewhere(u)
      /\ worker[u][w].work.type = "TerminatingPod" => u \notin running'
  BY DEF SyncPodTerminal, Killed, SyncTerminated, Work, Elsewhere
<1>3. Plain'
  BY <1>1, <1>2 DEF IInv, Plain
<1>4. /\ status[u] \in StatusRec /\ Working(worker[u], w)
      /\ WorkOK(status[u], worker[u][w], w, u, running)
  BY <1>1, DoingFacts DEF InFlight
<1>5. Fits(status[u], worker[u][w], "complete", w, u, running')
  <2> SUFFICES ASSUME NEW r \in WorkerRec, r.pc = "complete", r.work = worker[u][w].work,
                      r.cancelled <=> worker[u][w].cancelled
               PROVE  WorkOK(status[u], r, w, u, running')
    BY DEF Fits
  <2> QED BY <1>1, <1>2, <1>4 DEF WorkOK, InFlight
<1> QED BY <1>1, <1>2, <1>3, <1>4, <1>5, GoesOnKeeps DEF InFlight

\* syncPod asks for another round, to restart all containers.
LEMMA RequestSyncKeeps ==
  ASSUME IInv, NEW u \in UIDs, NEW w \in Slots, RequestSync(u, w)
  PROVE  Kept
<1>1. /\ worker[u][w].pc = "started" /\ UpdatePod(u, Options("update", worker[u][w].work.pod))
      /\ UNCHANGED <<config, queue, reported, running, sourcesReady, stopped, events>>
  BY DEF RequestSync, At, Work
<1>2. Plain'
  BY <1>1 DEF IInv, Plain
<1>3. /\ status[u] # Unknown /\ worker[u][w].work \in WorkRec
      /\ WorkOK(status[u], worker[u][w], w, u, running)
  BY <1>1, DoingFacts DEF InFlight
<1>4. worker[u][w].work.pod \in Pods
  BY <1>1, <1>3 DEF WorkOK, WorkRec
<1>5. CASE stopped
  BY <1>1, <1>2, <1>5, RestKeeps DEF UpdatePod
<1>6. CASE ~stopped
  BY <1>1, <1>2, <1>3, <1>4, <1>6, OptionsFacts, UpdateKeeps
<1> QED BY <1>5, <1>6

\* requeueLastPodUpdate makes the active update pending again, and no more.
LEMMA RequeuedFacts ==
  ASSUME NEW s \in StatusRec
  PROVE  LET t == Requeued(s)
         IN  /\ t \in StatusRec
             /\ t.pending = IF Requeues(s) THEN s.active ELSE s.pending
             /\ t.working <=> Requeues(s) \/ s.working
             /\ t.active = s.active /\ t.cancel = s.cancel /\ t.grace = s.grace
             /\ (t.started <=> s.started) /\ (t.startedTerminating <=> s.startedTerminating)
             /\ (t.terminated <=> s.terminated) /\ (t.finished <=> s.finished)
             /\ (t.terminating <=> s.terminating) /\ (t.observed <=> s.observed)
<1>1. CASE Requeues(s)
  <2> DEFINE t == [s EXCEPT !.pending = s.active, !.working = TRUE]
  <2>1. Requeued(s) = t
    BY <1>1 DEF Requeued, Requeues
  <2>2. s.active \in Updates
    BY <1>1 DEF Requeues, StatusRec
  <2>3. /\ t \in StatusRec /\ t.pending = s.active /\ t.working
        /\ t.active = s.active /\ t.cancel = s.cancel /\ t.grace = s.grace
        /\ (t.started <=> s.started) /\ (t.startedTerminating <=> s.startedTerminating)
        /\ (t.terminated <=> s.terminated) /\ (t.finished <=> s.finished)
        /\ (t.terminating <=> s.terminating) /\ (t.observed <=> s.observed)
    BY <2>2, PendingFacts
  <2> HIDE DEF t
  <2> QED BY <1>1, <2>1, <2>3
<1>2. CASE ~Requeues(s)
  BY <1>2 DEF Requeued, Requeues
<1> QED BY <1>1, <1>2

\* A worker that goes back to its loop, perhaps with a token in its channel.
LEMMA SentFacts ==
  ASSUME NEW ws \in [Slots -> WorkerRec], NEW w \in Slots, NEW c \in {0, w}, NEW resent
  PROVE  LET m == IF resent THEN Token(ws, c) ELSE ws
         IN  /\ m \in [Slots -> WorkerRec] /\ m[w].pc = ws[w].pc
             /\ (m[w].closed <=> ws[w].closed) /\ (m[w].cancelled <=> ws[w].cancelled)
             /\ m[w].work = ws[w].work
             /\ resent /\ c = w => m[w].token
             /\ \A x \in Slots \ {w} : m[x] = ws[x]
<1>1. CASE ~resent \/ c = 0
  <2>1. w # 0
    BY DEF Slots
  <2> QED BY <1>1, <2>1 DEF Token
<1>2. CASE resent /\ c = w
  BY <1>2, TokenFacts
<1> QED BY <1>1, <1>2

\* The record after a sync that ended a phase of the pod's life.
Ended(s, t) ==
  /\ t \in StatusRec
  /\ Requeues(s) => t.pending = s.active
  /\ ~Requeues(s) => t.pending = s.pending
  /\ t.working <=> Requeues(s) \/ s.working
  /\ t.active = s.active /\ t.grace = s.grace
  /\ t.started <=> s.started
  /\ t.finished <=> s.finished
  /\ t.observed <=> s.observed
  /\ t.terminating /\ t.startedTerminating
  /\ s.terminated => t.terminated

\* A phase that ends: requeueLastPodUpdate, and the worker goes to completeWork.
LEMMA GoesKeeps ==
  ASSUME IInv, Plain', NEW u \in UIDs, NEW w \in Slots, worker[u][w].pc = "complete",
         NEW t, Ended(status[u], t),
         Goes(u, w, t, Requeues(status[u])),
         UNCHANGED <<running, stopped, config>>,
         t.terminated => status[u].terminated \/ (u \notin running /\ status[u].started)
  PROVE  Kept
<1> DEFINE s == status[u]
           ws == worker[u]
           c == chan[u]
           resent == Requeues(s)
           m == IF resent THEN Token(ws, c) ELSE ws
           n == [m EXCEPT ![w].pc = "completeWork"]
<1>1. /\ s \in StatusRec /\ ws \in [Slots -> WorkerRec]
      /\ Good(s, c, ws, config[u], u, running, stopped)
      /\ Tracked(s, c, ws, config[u], u, running, stopped)
      /\ ~s.finished /\ Onward(s, s) /\ (IF stopped THEN c = 0 ELSE c = w)
  BY LiveFacts
<1>2. c \in {0, w}
  BY <1>1
<1>3. /\ m \in [Slots -> WorkerRec] /\ m[w].pc = ws[w].pc
      /\ (m[w].closed <=> ws[w].closed) /\ (m[w].cancelled <=> ws[w].cancelled)
      /\ m[w].work = ws[w].work
      /\ \A x \in Slots \ {w} : m[x] = ws[x]
  BY <1>1, <1>2, SentFacts
<1> HIDE DEF m
<1>4. /\ n \in [Slots -> WorkerRec] /\ n[w].pc = "completeWork" /\ (n[w].closed <=> ws[w].closed)
      /\ \A x \in Slots \ {w} : n[x] = ws[x]
  BY <1>3, MoveFacts
<1>5. /\ status' = [status EXCEPT ![u] = t] /\ chan' = chan
      /\ worker' = [worker EXCEPT ![u] = n]
  BY DEF Goes, m
<1> HIDE DEF n
<1>6. Sound(t, u, running, stopped) /\ Asked(t, config[u])
  <2>1. Sound(s, u, running, stopped) /\ Asked(s, config[u])
    BY <1>1 DEF Tracked
  <2>2. Sensible(s.pending, t) /\ Sensible(s.active, t)
    BY <2>1 DEF Sound, Sensible, Ended
  <2>3. Sensible(t.pending, t) /\ Sensible(t.active, t)
    BY <2>2 DEF Ended
  <2>4. Sound(t, u, running, stopped)
    BY <2>1, <2>3 DEF Sound, Ended
  <2>5. s.pending # NoUpdate => t.pending = s.pending
    BY DEF Ended, Requeues
  <2> QED BY <2>1, <2>4, <2>5 DEF Asked, Ended
<1>7. Working(n, w) /\ ~Doing(n, w) /\ Working(ws, w)
  BY <1>4 DEF Working, Doing, InFlight
<1>8. t.started \/ t.observed
  BY <1>1, <1>7 DEF Tracked, Ended
<1>9. ~stopped => t.working
  BY <1>1, <1>7 DEF Tracked, Remembers, Ended
<1>10. Good(t, c, n, config[u], u, running, stopped)
  BY <1>1, <1>4, <1>6, <1>7, <1>8, <1>9, WorkerGood DEF Ended
<1>11. Onward(s, t)
  BY <1>1 DEF Onward, Ended
<1> QED BY <1>5, <1>10, <1>11, WorkerKeeps DEF Ended

\* completeSync.
LEMMA CompleteSyncKeeps ==
  ASSUME IInv, NEW u \in UIDs, NEW w \in Slots, CompleteSync(u, w)
  PROVE  Kept
<1> DEFINE s == status[u]
           v == [s EXCEPT !.terminating = TRUE, !.startedTerminating = TRUE]
           t == Requeued(v)
<1>1. /\ worker[u][w].pc = "complete" /\ worker[u][w].work.type = "SyncPod"
      /\ UNCHANGED <<config, queue, reported, running, sourcesReady, stopped, events>>
  BY DEF CompleteSync, At, Work
<1>2. Plain'
  BY <1>1 DEF IInv, Plain
<1>3. s \in StatusRec /\ s.known
  BY <1>1, DoingFacts
<1>4. Goes(u, w, t, Requeues(s))
  <2>1. (s.known /\ Requeues(s)) = Requeues(s)
    BY <1>3 DEF Requeues
  <2> QED BY <1>3, <2>1 DEF CompleteSync
<1>5. /\ v \in StatusRec /\ v.pending = s.pending /\ v.active = s.active /\ v.grace = s.grace
      /\ (v.started <=> s.started) /\ (v.terminated <=> s.terminated)
      /\ (v.finished <=> s.finished) /\ (v.observed <=> s.observed)
      /\ (v.working <=> s.working) /\ v.terminating /\ v.startedTerminating
  BY <1>3 DEF StatusRec
<1> HIDE DEF v
<1>6. Requeues(v) <=> Requeues(s)
  BY <1>5 DEF Requeues
<1>7. Ended(s, t) /\ (t.terminated <=> s.terminated)
  BY <1>5, <1>6, RequeuedFacts DEF Ended
<1> HIDE DEF t
<1> QED BY <1>1, <1>2, <1>4, <1>7, GoesKeeps DEF t

\* completeTerminating.
LEMMA CompleteTerminatingKeeps ==
  ASSUME IInv, NEW u \in UIDs, NEW w \in Slots, CompleteTerminating(u, w)
  PROVE  Kept
<1> DEFINE s == status[u]
           v == [s EXCEPT !.terminated = TRUE]
           t == Requeued(v)
<1>1. /\ worker[u][w].pc = "complete" /\ worker[u][w].work.type = "TerminatingPod"
      /\ ~worker[u][w].work.runtime
      /\ UNCHANGED <<config, queue, reported, running, sourcesReady, stopped, events>>
  BY DEF CompleteTerminating, At, Work
<1>2. Plain'
  BY <1>1 DEF IInv, Plain
<1>3. s \in StatusRec /\ s.known /\ WorkOK(s, worker[u][w], w, u, running)
  BY <1>1, DoingFacts
<1>4. Goes(u, w, t, Requeues(s))
  <2>1. (s.known /\ Requeues(s)) = Requeues(s)
    BY <1>3 DEF Requeues
  <2> QED BY <1>3, <2>1 DEF CompleteTerminating
<1>5. s.terminating /\ s.startedTerminating /\ u \notin running /\ s.started
  BY <1>1, <1>3 DEF WorkOK
<1>6. /\ v \in StatusRec /\ v.pending = s.pending /\ v.active = s.active /\ v.grace = s.grace
      /\ (v.started <=> s.started) /\ (v.terminating <=> s.terminating)
      /\ (v.startedTerminating <=> s.startedTerminating)
      /\ (v.finished <=> s.finished) /\ (v.observed <=> s.observed)
      /\ (v.working <=> s.working) /\ v.terminated
  BY <1>3 DEF StatusRec
<1> HIDE DEF v
<1>7. Requeues(v) <=> Requeues(s)
  BY <1>6 DEF Requeues
<1>8. Ended(s, t)
  BY <1>5, <1>6, <1>7, RequeuedFacts DEF Ended
<1> HIDE DEF t
<1> QED BY <1>1, <1>2, <1>4, <1>5, <1>8, GoesKeeps DEF t

\* No worker is a worker record.
LEMMA NoWorkerFacts ==
  /\ NoWorker \in WorkerRec /\ NoWorker.pc = "none" /\ ~NoWorker.closed
  BY DEF NoWorker, WorkerRec, NoWork, WorkRec, Types, InFlight

\* A pod whose worker is gone.
LEMMA GoneFacts ==
  ASSUME NEW ws \in [Slots -> WorkerRec], NEW w \in Slots, NEW c \in {0, w},
         \A x \in Slots \ {w} : ws[x] = NoWorker
  PROVE  LET n == [Closed(ws, c) EXCEPT ![w] = NoWorker]
         IN  n \in [Slots -> WorkerRec] /\ \A x \in Slots : n[x] = NoWorker
<1> DEFINE r == [ws[w] EXCEPT !.closed = TRUE]
<1>1. CASE c = 0
  BY <1>1, NoWorkerFacts DEF Closed
<1>2. CASE c = w
  <2>1. w # 0
    BY DEF Slots
  <2>2. Closed(ws, c) = [ws EXCEPT ![w].closed = TRUE]
    BY <1>2, <2>1 DEF Closed
  <2>3. Closed(ws, c) = [ws EXCEPT ![w] = r]
    BY <2>2
  <2> HIDE DEF r
  <2> QED BY <2>3, NoWorkerFacts
<1> QED BY <1>1, <1>2

\* A pod without a record or a worker is sound.
LEMMA GoneGood ==
  ASSUME NEW n \in [Slots -> WorkerRec], \A x \in Slots : n[x] = NoWorker,
         NEW t, NEW d, NEW u, NEW R, NEW stop,
         \/ t = Unknown /\ (u \in R => u \in Leftover \/ stop)
         \/ t \in StatusRec /\ t.finished /\ Sound(t, u, R, stop) /\ Asked(t, d)
  PROVE  Good(t, 0, n, d, u, R, stop)
<1>1. \A x \in Slots : ~Live(n, x) /\ ~Working(n, x) /\ ~Doing(n, x) /\ ~n[x].closed
  BY NoWorkerFacts DEF Live, Working, Doing, InFlight
<1>2. Lone(0, n, stop)
  BY <1>1 DEF Lone, Slots
<1>3. CASE t = Unknown /\ (u \in R => u \in Leftover \/ stop)
  BY <1>1, <1>2, <1>3 DEF Good
<1>4. CASE t \in StatusRec /\ t.finished /\ Sound(t, u, R, stop) /\ Asked(t, d)
  BY <1>1, <1>2, <1>4, GoodKnown DEF Tracked
<1> QED BY <1>3, <1>4

\* The worker returns, and the record is dropped or finished.
LEMMA ReturnsKeeps ==
  ASSUME IInv, Plain', NEW u \in UIDs, NEW w \in Slots, worker[u][w].pc = "complete",
         Returns(u, w), UNCHANGED <<running, stopped, config>>,
         NEW t, status' = [status EXCEPT ![u] = t],
         \/ t = Unknown /\ u \notin running
         \/ /\ t \in StatusRec /\ t.finished /\ Onward(status[u], t)
            /\ Sound(t, u, running, stopped) /\ Asked(t, config[u])
  PROVE  Kept
<1> DEFINE ws == worker[u]
           c == chan[u]
           n == [Closed(ws, c) EXCEPT ![w] = NoWorker]
<1>1. /\ ws \in [Slots -> WorkerRec] /\ Lone(c, ws, stopped) /\ status[u] \in StatusRec
      /\ (IF stopped THEN c = 0 ELSE c = w)
  BY LiveFacts
<1>2. \A x \in Slots \ {w} : ws[x] = NoWorker
  BY <1>1 DEF Lone, Live
<1>3. n \in [Slots -> WorkerRec] /\ \A x \in Slots : n[x] = NoWorker
  BY <1>1, <1>2, GoneFacts
<1>4. chan' = [chan EXCEPT ![u] = 0] /\ worker' = [worker EXCEPT ![u] = n]
  BY DEF Returns
<1> HIDE DEF n
<1>5. Good(t, 0, n, config[u], u, running, stopped)
  BY <1>3, GoneGood
<1>6. /\ Maps' /\ (\A v \in UIDs \ {u} : Same(v))
      /\ status'[u] = t /\ worker'[u] = n /\ chan'[u] = 0
  <2>1. DOMAIN status = UIDs /\ DOMAIN worker = UIDs /\ DOMAIN chan = UIDs
    BY DEF IInv, Maps
  <2> QED BY <1>4, <2>1 DEF IInv, Maps, Same
<1>7. GoodPod(u)'
  BY <1>5, <1>6 DEF GoodPod
<1>8. Allowed(status[u], t, stopped, u, running, n)
  <2>1. \A x \in Slots : n[x].pc \notin InFlight
    BY <1>3, NoWorkerFacts DEF InFlight
  <2> QED BY <2>1, UnknownIsNot DEF Allowed
<1>9. After(u)
  BY <1>6, <1>7, <1>8 DEF After
<1>10. ASSUME NEW v \in UIDs \ {u} PROVE After(v)
  BY <1>6, <1>10, SameKeeps DEF IInv
<1> QED BY <1>6, <1>9, <1>10 DEF Kept, IInv, After

\* completeTerminatingRuntimePod forgets the pod.
LEMMA CompleteRuntimeKeeps ==
  ASSUME IInv, NEW u \in UIDs, NEW w \in Slots, CompleteTerminatingRuntimePod(u, w)
  PROVE  Kept
<1>1. /\ worker[u][w].pc = "complete" /\ worker[u][w].work.type = "TerminatingPod"
      /\ Returns(u, w) /\ status' = [status EXCEPT ![u] = Unknown]
      /\ UNCHANGED <<config, queue, reported, running, sourcesReady, stopped, events>>
  BY DEF CompleteTerminatingRuntimePod, At, Work
<1>2. Plain'
  BY <1>1 DEF IInv, Plain
<1>3. WorkOK(status[u], worker[u][w], w, u, running)
  BY <1>1, DoingFacts
<1>4. u \notin running
  BY <1>1, <1>3 DEF WorkOK
<1> QED BY <1>1, <1>2, <1>4, ReturnsKeeps

\* completeTerminated finishes the pod and its worker.
LEMMA CompleteTerminatedKeeps ==
  ASSUME IInv, NEW u \in UIDs, NEW w \in Slots, CompleteTerminated(u, w)
  PROVE  Kept
<1> DEFINE s == status[u]
           t == [s EXCEPT !.finished = TRUE, !.working = FALSE]
<1>1. /\ worker[u][w].pc = "complete" /\ worker[u][w].work.type = "TerminatedPod"
      /\ Returns(u, w)
      /\ UNCHANGED <<config, queue, reported, running, sourcesReady, stopped, events>>
  BY DEF CompleteTerminated, At, Work
<1>2. Plain'
  BY <1>1 DEF IInv, Plain
<1>3. /\ WorkOK(s, worker[u][w], w, u, running) /\ s \in StatusRec /\ s.known
      /\ Tracked(s, chan[u], worker[u], config[u], u, running, stopped)
      /\ Onward(s, s)
  BY <1>1, DoingFacts, LiveFacts
<1>4. status' = [status EXCEPT ![u] = t]
  BY <1>3 DEF CompleteTerminated
<1>5. /\ t \in StatusRec /\ t.pending = s.pending /\ t.active = s.active /\ t.grace = s.grace
      /\ (t.started <=> s.started) /\ (t.terminating <=> s.terminating)
      /\ (t.startedTerminating <=> s.startedTerminating) /\ t.finished
      /\ (t.terminated <=> s.terminated) /\ (t.observed <=> s.observed)
  BY <1>3 DEF StatusRec
<1> HIDE DEF t
<1>6. s.terminated
  BY <1>1, <1>3 DEF WorkOK
<1>7. Sound(t, u, running, stopped) /\ Asked(t, config[u])
  BY <1>3, <1>5, <1>6 DEF Tracked, Sound, Sensible, Asked
<1>8. Onward(s, t)
  BY <1>3, <1>5, <1>6 DEF Onward
<1> QED BY <1>1, <1>2, <1>4, <1>5, <1>7, <1>8, ReturnsKeeps DEF t

----
(* completeWork, and the next startPodSync.                                *)

\* A worker that is back in its loop.
LEMMA IdleFacts ==
  ASSUME NEW ws \in [Slots -> WorkerRec], NEW w \in Slots
  PROVE  LET n == [ws EXCEPT ![w].pc = "idle", ![w].cancelled = FALSE, ![w].work = NoWork]
         IN  /\ n \in [Slots -> WorkerRec] /\ n[w].pc = "idle"
             /\ (n[w].token <=> ws[w].token) /\ (n[w].closed <=> ws[w].closed)
             /\ \A x \in Slots \ {w} : n[x] = ws[x]
<1> DEFINE r1 == [ws[w] EXCEPT !.pc = "idle"]
           r2 == [r1 EXCEPT !.cancelled = FALSE]
           r3 == [r2 EXCEPT !.work = NoWork]
<1>1. r1 \in WorkerRec /\ r1.pc = "idle" /\ (r1.token <=> ws[w].token) /\ (r1.closed <=> ws[w].closed)
  BY DEF WorkerRec
<1>2. [ws EXCEPT ![w].pc = "idle", ![w].cancelled = FALSE, ![w].work = NoWork]
        = [ws EXCEPT ![w] = r3]
  OBVIOUS
<1> HIDE DEF r1
<1>3. r2 \in WorkerRec /\ r2.pc = r1.pc /\ (r2.token <=> r1.token) /\ (r2.closed <=> r1.closed)
  BY <1>1 DEF WorkerRec
<1> HIDE DEF r2
<1>4. NoWork \in WorkRec
  BY DEF NoWork, WorkRec, Types
<1>5. r3 \in WorkerRec /\ r3.pc = r2.pc /\ (r3.token <=> r2.token) /\ (r3.closed <=> r2.closed)
  BY <1>3, <1>4 DEF WorkerRec
<1> HIDE DEF r3
<1> QED BY <1>1, <1>2, <1>3, <1>5

\* completeWork: the worker goes back to its loop, with a token if an update
\* came meanwhile.
LEMMA CompleteWorkKeeps ==
  ASSUME IInv, NEW u \in UIDs, NEW w \in Slots, CompleteWork(u, w)
  PROVE  Kept
<1> DEFINE s == status[u]
           ws == worker[u]
           c == chan[u]
           again == s.pending # NoUpdate
           m == IF again THEN Token(ws, c) ELSE ws
           n == [m EXCEPT ![w].pc = "idle", ![w].cancelled = FALSE, ![w].work = NoWork]
           t == IF again THEN s ELSE [s EXCEPT !.working = FALSE]
<1>1. /\ ws[w].pc = "completeWork" /\ queue' = queue \cup {u}
      /\ UNCHANGED <<config, chan, reported, running, sourcesReady, stopped, events>>
  BY DEF CompleteWork, At
<1>2. Plain'
  BY <1>1 DEF IInv, Plain
<1>3. /\ s \in StatusRec /\ ws \in [Slots -> WorkerRec] /\ s.known
      /\ Good(s, c, ws, config[u], u, running, stopped)
      /\ Tracked(s, c, ws, config[u], u, running, stopped)
      /\ ~s.finished /\ Onward(s, s) /\ (IF stopped THEN c = 0 ELSE c = w)
  BY <1>1, LiveFacts
<1>4. c \in {0, w}
  BY <1>3
<1>5. worker' = [worker EXCEPT ![u] = n]
  BY <1>3 DEF CompleteWork
<1>6. status' = [status EXCEPT ![u] = t]
  <2>1. CASE again
    <3>1. status' = status
      BY <1>3, <2>1 DEF CompleteWork
    <3> QED BY <2>1, <3>1 DEF IInv, Maps
  <2>2. CASE ~again
    BY <1>3, <2>2 DEF CompleteWork
  <2> QED BY <2>1, <2>2
<1> HIDE DEF again
<1>7. /\ m \in [Slots -> WorkerRec] /\ (m[w].closed <=> ws[w].closed)
      /\ \A x \in Slots \ {w} : m[x] = ws[x]
      /\ (again /\ c = w) => m[w].token
  BY <1>3, <1>4, SentFacts
<1> HIDE DEF m
<1>8. /\ n \in [Slots -> WorkerRec] /\ n[w].pc = "idle" /\ (n[w].closed <=> ws[w].closed)
      /\ \A x \in Slots \ {w} : n[x] = ws[x]
      /\ (again /\ c = w) => n[w].token
  <2>1. m \in [Slots -> WorkerRec]
    BY <1>7
  <2>2. /\ n \in [Slots -> WorkerRec] /\ n[w].pc = "idle"
        /\ (n[w].token <=> m[w].token) /\ (n[w].closed <=> m[w].closed)
        /\ \A x \in Slots \ {w} : n[x] = m[x]
    BY <2>1, IdleFacts
  <2> HIDE DEF n
  <2> QED BY <1>7, <2>2
<1> HIDE DEF n
<1>9. /\ t \in StatusRec /\ t.pending = s.pending /\ t.active = s.active /\ t.grace = s.grace
      /\ (t.started <=> s.started) /\ (t.terminating <=> s.terminating)
      /\ (t.startedTerminating <=> s.startedTerminating) /\ (t.finished <=> s.finished)
      /\ (t.terminated <=> s.terminated) /\ (t.observed <=> s.observed)
      /\ again => (t.working <=> s.working)
      /\ ~again => ~t.working
  <2>1. CASE again
    BY <1>3, <2>1
  <2>2. CASE ~again
    BY <1>3, <2>2 DEF StatusRec
  <2> QED BY <2>1, <2>2
<1> HIDE DEF t
<1>10. Sound(t, u, running, stopped) /\ Asked(t, config[u])
  BY <1>3, <1>9 DEF Tracked, Sound, Sensible, Asked
<1>11. ~Working(n, w) /\ ~Doing(n, w) /\ n[w].pc # "none"
  BY <1>8 DEF Working, Doing, InFlight
<1>12. ~stopped => /\ t.pending # NoUpdate => n[w].token
                   /\ t.working <=> t.pending # NoUpdate
  BY <1>3, <1>8, <1>9 DEF Tracked, Remembers, again
<1>13. Good(t, c, n, config[u], u, running, stopped)
  BY <1>1, <1>3, <1>8, <1>9, <1>10, <1>11, <1>12, WorkerGood
<1>14. Onward(s, t)
  BY <1>3, <1>9 DEF Onward
<1> QED BY <1>1, <1>2, <1>5, <1>6, <1>9, <1>13, <1>14, WorkerKeeps

\* A worker whose channel is closed and drained returns.
LEMMA WorkerEndsKeeps ==
  ASSUME IInv, NEW u \in UIDs, NEW w \in Slots, WorkerEnds(u, w)
  PROVE  Kept
<1> DEFINE s == status[u]
           ws == worker[u]
           n == [ws EXCEPT ![w] = NoWorker]
<1>1. /\ ws[w].pc = "idle" /\ ws[w].closed /\ worker' = [worker EXCEPT ![u][w] = NoWorker]
      /\ UNCHANGED <<config, status, chan, queue, reported, running, sourcesReady, stopped, events>>
  BY DEF WorkerEnds, At, Ends
<1>2. Plain'
  BY <1>1 DEF IInv, Plain
<1>3. /\ s \in StatusRec /\ ws \in [Slots -> WorkerRec] /\ Lone(chan[u], ws, stopped)
      /\ Tracked(s, chan[u], ws, config[u], u, running, stopped)
      /\ ~s.finished /\ Onward(s, s) /\ (IF stopped THEN chan[u] = 0 ELSE chan[u] = w)
  BY <1>1, LiveFacts
<1>4. stopped
  BY <1>1, <1>3 DEF Lone
<1>5. worker' = [worker EXCEPT ![u] = n] /\ status' = [status EXCEPT ![u] = s]
  BY <1>1 DEF IInv, Maps
<1>6. \A x \in Slots \ {w} : ws[x] = NoWorker
  BY <1>1, <1>3 DEF Lone, Live
<1>7. n \in [Slots -> WorkerRec] /\ \A x \in Slots : n[x] = NoWorker
  BY <1>3, <1>6, NoWorkerFacts
<1> HIDE DEF n
<1>8. \A x \in Slots : ~Live(n, x) /\ ~Working(n, x) /\ ~Doing(n, x)
  BY <1>7, NoWorkerFacts DEF Live, Working, Doing, InFlight
<1>9. Lone(chan[u], n, stopped)
  BY <1>3, <1>4, <1>7, <1>8 DEF Lone
<1>10. Tracked(s, chan[u], n, config[u], u, running, stopped)
  BY <1>3, <1>4, <1>8 DEF Tracked
<1>11. Good(s, chan[u], n, config[u], u, running, stopped)
  BY <1>3, <1>4, <1>7, <1>9, <1>10, GoodKnown DEF Slots
<1> QED BY <1>1, <1>2, <1>3, <1>5, <1>11, WorkerKeeps DEF Elsewhere

\* A token received.
LEMMA TakenFacts ==
  ASSUME NEW ws \in [Slots -> WorkerRec], NEW w \in Slots
  PROVE  LET n == [ws EXCEPT ![w].token = FALSE]
         IN  /\ n \in [Slots -> WorkerRec] /\ ~n[w].token
             /\ n[w].pc = ws[w].pc /\ (n[w].closed <=> ws[w].closed)
             /\ \A x \in Slots \ {w} : n[x] = ws[x]
<1> DEFINE r == [ws[w] EXCEPT !.token = FALSE]
           n == [ws EXCEPT ![w] = r]
<1>1. r \in WorkerRec /\ ~r.token /\ r.pc = ws[w].pc /\ (r.closed <=> ws[w].closed)
  BY DEF WorkerRec
<1>2. [ws EXCEPT ![w].token = FALSE] = n
  OBVIOUS
<1> HIDE DEF r
<1> QED BY <1>1, <1>2

\* A worker that has been given work.
Given(ws, w, k) == [ws EXCEPT ![w].pc = "ready", ![w].cancelled = FALSE, ![w].work = k]

\* A worker given work is ready for it.
LEMMA ReadyFacts ==
  ASSUME NEW ws \in [Slots -> WorkerRec], NEW w \in Slots, NEW k \in WorkRec
  PROVE  LET n == Given(ws, w, k)
         IN  /\ n \in [Slots -> WorkerRec] /\ n[w].pc = "ready" /\ n[w].work = k
             /\ (n[w].closed <=> ws[w].closed)
             /\ \A x \in Slots \ {w} : n[x] = ws[x]
<1> DEFINE r1 == [ws[w] EXCEPT !.pc = "ready"]
           r2 == [r1 EXCEPT !.cancelled = FALSE]
           r3 == [r2 EXCEPT !.work = k]
<1>1. r1 \in WorkerRec /\ r1.pc = "ready" /\ (r1.closed <=> ws[w].closed)
  BY DEF WorkerRec, InFlight
<1>2. Given(ws, w, k) = [ws EXCEPT ![w] = r3]
  BY DEF Given
<1> HIDE DEF r1
<1>3. r2 \in WorkerRec /\ r2.pc = r1.pc /\ (r2.closed <=> r1.closed)
  BY <1>1 DEF WorkerRec
<1> HIDE DEF r2
<1>4. r3 \in WorkerRec /\ r3.pc = r2.pc /\ r3.work = k /\ (r3.closed <=> r2.closed)
  BY <1>3 DEF WorkerRec
<1> HIDE DEF r3
<1> QED BY <1>1, <1>2, <1>3, <1>4

\* The record of a pod whose sync starts.
LEMMA StartedFacts ==
  ASSUME NEW s \in StatusRec, NEW w \in Slots, s.pending # NoUpdate,
         NEW u, NEW R, NEW stop, Sound(s, u, R, stop)
  PROVE  LET o == s.pending
             t == [s EXCEPT !.pending = NoUpdate, !.active = Merged(s, o), !.cancel = w,
                            !.started = @ \/ (o.pod # NoPod)]
         IN  /\ t \in StatusRec /\ t.pending = NoUpdate /\ t.cancel = w /\ t.grace = s.grace
             /\ t.started <=> s.started \/ o.pod # NoPod
             /\ (t.terminating <=> s.terminating)
             /\ (t.startedTerminating <=> s.startedTerminating) /\ (t.finished <=> s.finished)
             /\ (t.terminated <=> s.terminated) /\ (t.observed <=> s.observed)
             /\ (t.working <=> s.working)
             /\ Sensible(t.active, s)
<1> DEFINE o == s.pending
           a == Merged(s, o)
           started == s.started \/ o.pod # NoPod
           t1 == [s EXCEPT !.pending = NoUpdate, !.active = a, !.cancel = w]
           t == [t1 EXCEPT !.started = started]
<1>1. o \in Updates
  BY DEF StatusRec
<1>2. a \in Updates /\ Sensible(a, s)
  <2> DEFINE keeps == s.active # NoUpdate /\ s.active.pod # NoPod /\ o.runtime
  <2>1. CASE ~keeps
    <3>1. a = [o EXCEPT !.pod = o.pod]
      BY <2>1 DEF Merged
    <3>2. a = o
      BY <1>1, <3>1 DEF Updates
    <3> QED BY <1>1, <3>2 DEF Sound
  <2>2. CASE keeps
    <3>1. a = [o EXCEPT !.pod = s.active.pod]
      BY <2>2 DEF Merged
    <3>2. s.active \in Updates
      BY <2>2 DEF StatusRec
    <3>3. s.active.pod \in Pods
      BY <2>2, <3>2 DEF Updates
    <3>4. a \in Updates /\ a.pod = s.active.pod /\ a.runtime = o.runtime
      BY <1>1, <3>1, <3>3 DEF Updates
    <3>5. o.runtime => s.observed
      BY DEF Sound, Sensible
    <3> QED BY <2>2, <3>4, <3>5 DEF Sensible
  <2> QED BY <2>1, <2>2
<1> HIDE DEF a
<1>3. /\ t1 \in StatusRec /\ t1.pending = NoUpdate /\ t1.active = a /\ t1.cancel = w
      /\ t1.grace = s.grace
      /\ (t1.terminating <=> s.terminating)
      /\ (t1.startedTerminating <=> s.startedTerminating) /\ (t1.finished <=> s.finished)
      /\ (t1.terminated <=> s.terminated) /\ (t1.observed <=> s.observed)
      /\ (t1.working <=> s.working)
  BY <1>2 DEF StatusRec
<1>4. [s EXCEPT !.pending = NoUpdate, !.active = a, !.cancel = w, !.started = @ \/ (o.pod # NoPod)] = t
  OBVIOUS
<1> HIDE DEF t1
<1>5. started \in BOOLEAN
  BY DEF StatusRec
<1> HIDE DEF started
<1>6. /\ t \in StatusRec /\ t.pending = t1.pending /\ t.active = t1.active /\ t.cancel = t1.cancel
      /\ t.grace = t1.grace /\ (t.started <=> started)
      /\ (t.terminating <=> t1.terminating)
      /\ (t.startedTerminating <=> t1.startedTerminating) /\ (t.finished <=> t1.finished)
      /\ (t.terminated <=> t1.terminated) /\ (t.observed <=> t1.observed)
      /\ (t.working <=> t1.working)
  BY <1>3, <1>5 DEF StatusRec
<1> HIDE DEF t
<1>7. /\ t \in StatusRec /\ t.pending = NoUpdate /\ t.cancel = w /\ t.grace = s.grace
      /\ t.started <=> s.started \/ o.pod # NoPod
      /\ (t.terminating <=> s.terminating)
      /\ (t.startedTerminating <=> s.startedTerminating) /\ (t.finished <=> s.finished)
      /\ (t.terminated <=> s.terminated) /\ (t.observed <=> s.observed)
      /\ (t.working <=> s.working)
      /\ Sensible(t.active, s)
  BY <1>2, <1>3, <1>6 DEF started
<1> QED BY <1>4, <1>7 DEF a

\* A token without an update: nothing to do.
LEMMA NothingPends ==
  ASSUME IInv, Plain', NEW u \in UIDs, NEW w \in Slots, worker[u][w].pc = "idle",
         status[u].pending = NoUpdate,
         status' = [status EXCEPT ![u].working = FALSE],
         worker' = [worker EXCEPT ![u] = [worker[u] EXCEPT ![w].token = FALSE]],
         UNCHANGED <<chan, running, stopped, config>>
  PROVE  Kept
<1> DEFINE s == status[u]
           ws == worker[u]
           t == [s EXCEPT !.working = FALSE]
           n == [ws EXCEPT ![w].token = FALSE]
<1>1. /\ s \in StatusRec /\ ws \in [Slots -> WorkerRec]
      /\ Good(s, chan[u], ws, config[u], u, running, stopped)
      /\ Tracked(s, chan[u], ws, config[u], u, running, stopped)
      /\ ~s.finished /\ Onward(s, s)
  BY LiveFacts
<1>2. /\ t \in StatusRec /\ t.pending = NoUpdate /\ t.active = s.active /\ t.grace = s.grace
      /\ (t.started <=> s.started) /\ (t.terminating <=> s.terminating)
      /\ (t.startedTerminating <=> s.startedTerminating) /\ (t.finished <=> s.finished)
      /\ (t.terminated <=> s.terminated) /\ (t.observed <=> s.observed) /\ ~t.working
  BY <1>1 DEF StatusRec
<1>3. status' = [status EXCEPT ![u] = t]
  OBVIOUS
<1> HIDE DEF t
<1>4. /\ n \in [Slots -> WorkerRec] /\ n[w].pc = ws[w].pc /\ (n[w].closed <=> ws[w].closed)
      /\ \A x \in Slots \ {w} : n[x] = ws[x]
  BY <1>1, TakenFacts
<1>5. worker' = [worker EXCEPT ![u] = n]
  OBVIOUS
<1> HIDE DEF n
<1>6. Sound(t, u, running, stopped) /\ Asked(t, config[u])
  BY <1>1, <1>2 DEF Tracked, Sound, Sensible, Asked
<1>7. ~Working(n, w) /\ ~Doing(n, w) /\ n[w].pc # "none"
  BY <1>4 DEF Working, Doing, InFlight
<1>8. Good(t, chan[u], n, config[u], u, running, stopped)
  BY <1>1, <1>2, <1>4, <1>6, <1>7, WorkerGood
<1>9. Onward(s, t)
  BY <1>1, <1>2 DEF Onward
<1> QED BY <1>2, <1>3, <1>5, <1>8, <1>9, WorkerKeeps

\* startPodSync takes the pending update.  It always can: an update without a
\* pod is of a pod that terminates, and has not terminated before it started.
LEMMA TakesUpdate ==
  ASSUME IInv, Plain', NEW u \in UIDs, NEW w \in Slots, worker[u][w].pc = "idle",
         status[u].pending # NoUpdate, status[u].known,
         StartPodSync(u, w), UNCHANGED <<chan, running, stopped, config>>
  PROVE  Kept
<1> DEFINE s == status[u]
           ws == worker[u]
           c == chan[u]
           o == s.pending
           t == [s EXCEPT !.pending = NoUpdate, !.active = Merged(s, o), !.cancel = w,
                          !.started = @ \/ (o.pod # NoPod)]
           k == [type |-> WorkType(s), runtime |-> o.runtime, pod |-> o.pod]
           m1 == [ws EXCEPT ![w].token = FALSE]
           m2 == IF c = 0 THEN m1 ELSE [m1 EXCEPT ![c].token = FALSE]
           n == Given(m2, w, k)
           startable == s.started \/ (o.runtime /\ WorkType(s) = "TerminatingPod") \/ o.pod # NoPod
<1>1. /\ s \in StatusRec /\ ws \in [Slots -> WorkerRec]
      /\ Good(s, c, ws, config[u], u, running, stopped)
      /\ Tracked(s, c, ws, config[u], u, running, stopped)
      /\ Sound(s, u, running, stopped) /\ Asked(s, config[u])
      /\ ~s.finished /\ Onward(s, s) /\ (IF stopped THEN c = 0 ELSE c = w)
  BY LiveFacts DEF Tracked
<1>2. o \in Updates /\ (o.pod = NoPod => o.runtime /\ s.terminating) /\ (o.runtime => s.observed)
  BY <1>1 DEF StatusRec, Sound, Sensible
<1>3. startable
  BY <1>1, <1>2 DEF Asked, WorkType
<1>4. status' = [status EXCEPT ![u] = t]
  BY Zenon DEF StartPodSync
<1>5. worker' = [worker EXCEPT ![u] = n]
  <2>1. worker' = [worker EXCEPT ![u] = IF startable THEN n ELSE [m2 EXCEPT ![w] = NoWorker]]
    BY Zenon DEF StartPodSync, Given
  <2> QED BY <1>3, <2>1
<1>6. /\ t \in StatusRec /\ t.pending = NoUpdate /\ t.cancel = w /\ t.grace = s.grace
      /\ t.started <=> s.started \/ o.pod # NoPod
      /\ (t.terminating <=> s.terminating)
      /\ (t.startedTerminating <=> s.startedTerminating) /\ (t.finished <=> s.finished)
      /\ (t.terminated <=> s.terminated) /\ (t.observed <=> s.observed)
      /\ (t.working <=> s.working)
      /\ Sensible(t.active, s)
  BY <1>1, StartedFacts
<1> HIDE DEF t, startable
<1>7. k \in WorkRec /\ k.type = WorkType(s) /\ k.runtime = o.runtime /\ k.pod = o.pod
  BY <1>2 DEF WorkRec, Types, WorkType, Updates
<1>8. /\ m1 \in [Slots -> WorkerRec] /\ (m1[w].closed <=> ws[w].closed)
      /\ \A x \in Slots \ {w} : m1[x] = ws[x]
  BY <1>1, TakenFacts
<1> HIDE DEF m1
<1>9. /\ m2 \in [Slots -> WorkerRec] /\ (m2[w].closed <=> ws[w].closed)
      /\ \A x \in Slots \ {w} : m2[x] = ws[x]
  <2>1. CASE c = 0
    BY <1>8, <2>1
  <2>2. CASE c = w
    <3>1. m2 = [m1 EXCEPT ![w].token = FALSE]
      BY <2>2 DEF Slots
    <3>2. /\ m2 \in [Slots -> WorkerRec] /\ (m2[w].closed <=> m1[w].closed)
          /\ \A x \in Slots \ {w} : m2[x] = m1[x]
      BY <1>8, <3>1, TakenFacts
    <3> HIDE DEF m2
    <3> QED BY <1>8, <3>2
  <2> QED BY <1>1, <2>1, <2>2
<1> HIDE DEF m2, k
<1>10. /\ n \in [Slots -> WorkerRec] /\ n[w].pc = "ready" /\ n[w].work = k
       /\ (n[w].closed <=> m2[w].closed)
       /\ \A x \in Slots \ {w} : n[x] = m2[x]
  <2>1. m2 \in [Slots -> WorkerRec] /\ k \in WorkRec
    BY <1>7, <1>9
  <2> QED BY <2>1, ReadyFacts
<1>11. (n[w].closed <=> ws[w].closed) /\ \A x \in Slots \ {w} : n[x] = ws[x]
  BY <1>9, <1>10
<1> HIDE DEF n
<1>12. Sound(t, u, running, stopped)
  BY <1>1, <1>6 DEF Sound, Sensible
<1>13. Asked(t, config[u])
  BY <1>1, <1>2, <1>6 DEF Asked
<1>14. Working(n, w) /\ n[w].pc # "none"
  BY <1>10 DEF Working, InFlight
<1>15. t.started \/ t.observed
  BY <1>2, <1>6
<1>16. WorkOK(t, n[w], w, u, running)
  BY <1>1, <1>2, <1>6, <1>7, <1>10 DEF WorkOK, WorkType, Sound, InFlight
<1>17. ~stopped => t.working
  BY <1>1, <1>6 DEF Tracked, Remembers
<1>18. Good(t, c, n, config[u], u, running, stopped)
  BY <1>1, <1>6, <1>10, <1>11, <1>12, <1>13, <1>14, <1>15, <1>16, <1>17, WorkerGood
<1>19. Onward(s, t)
  BY <1>1, <1>6 DEF Onward
<1> QED BY <1>4, <1>5, <1>6, <1>18, <1>19, WorkerKeeps

\* A worker receives its token and calls startPodSync.
LEMMA StartPodSyncKeeps ==
  ASSUME IInv, NEW u \in UIDs, NEW w \in Slots, StartPodSync(u, w)
  PROVE  Kept
<1>1. /\ worker[u][w].pc = "idle"
      /\ UNCHANGED <<config, chan, queue, reported, running, sourcesReady, stopped, events>>
  BY DEF StartPodSync, At
<1>2. Plain'
  BY <1>1 DEF IInv, Plain
<1>3. status[u].known
  BY <1>1, LiveFacts
<1>4. CASE status[u].pending = NoUpdate
  <2>1. /\ status' = [status EXCEPT ![u].working = FALSE]
        /\ worker' = [worker EXCEPT ![u] = [worker[u] EXCEPT ![w].token = FALSE]]
    BY Zenon, <1>3, <1>4 DEF StartPodSync
  <2> QED BY <1>1, <1>2, <1>4, <2>1, NothingPends
<1>5. CASE status[u].pending # NoUpdate
  BY <1>1, <1>2, <1>3, <1>5, TakesUpdate
<1> QED BY <1>4, <1>5

\* The containers of a pod exit by themselves.
LEMMA ExitKeeps ==
  ASSUME IInv, NEW u \in UIDs, ContainersExit(u)
  PROVE  Kept
<1>1. /\ UNCHANGED <<config, status, chan, worker, queue, reported, sourcesReady, stopped, events>>
      /\ running' = running \ {u}
  BY DEF ContainersExit
<1>2. Plain'
  BY <1>1 DEF IInv, Plain
<1> QED BY <1>1, <1>2, RestKeeps

----
(* close().                                                                *)

\* close() closes the channels and cancels what runs.
LEMMA ClosedFacts ==
  ASSUME NEW ws \in [Slots -> WorkerRec], NEW c \in Slots \cup {0}
  PROVE  LET m == Closed(ws, c)
         IN  /\ m \in [Slots -> WorkerRec]
             /\ \A x \in Slots : /\ m[x].pc = ws[x].pc /\ m[x].work = ws[x].work
                                 /\ (m[x].cancelled <=> ws[x].cancelled)
                                 /\ x # c => m[x] = ws[x]
             /\ c \in Slots => m[c].closed
<1>1. CASE c = 0
  BY <1>1 DEF Closed, Slots
<1>2. CASE c \in Slots
  <2> DEFINE r == [ws[c] EXCEPT !.closed = TRUE]
             n == [ws EXCEPT ![c] = r]
  <2>1. c # 0
    BY <1>2 DEF Slots
  <2>2. Closed(ws, c) = n
    BY <2>1 DEF Closed
  <2>3. /\ r \in WorkerRec /\ r.closed /\ r.pc = ws[c].pc /\ r.work = ws[c].work
        /\ (r.cancelled <=> ws[c].cancelled)
    BY <1>2 DEF WorkerRec
  <2> HIDE DEF r
  <2>4. /\ n \in [Slots -> WorkerRec] /\ n[c] = r /\ \A x \in Slots : x # c => n[x] = ws[x]
    BY <1>2, <2>3
  <2> HIDE DEF n
  <2> QED BY <1>2, <2>2, <2>3, <2>4
<1> QED BY <1>1, <1>2

\* The workers of a pod whose channel was closed, one perhaps cancelled.
ClosedOff(ws, c, n) ==
  /\ n \in [Slots -> WorkerRec]
  /\ \A x \in Slots :
       /\ n[x].pc = ws[x].pc /\ n[x].work = ws[x].work
       /\ ws[x].cancelled => n[x].cancelled
       /\ ws[x].pc = "none" /\ x # c => n[x] = ws[x]
       /\ x = c => n[x].closed

\* close() for one pod.
LEMMA CloseGood ==
  ASSUME NEW s, NEW c, NEW ws, NEW d, NEW u, NEW R, NEW stop, ~stop, NEW after, after,
         Good(s, c, ws, d, u, R, stop), NEW n, ClosedOff(ws, c, n)
  PROVE  Good(s, 0, n, d, u, R, after)
<1>1. /\ ws \in [Slots -> WorkerRec] /\ Lone(c, ws, stop) /\ s \in StatusRec \cup {Unknown}
  BY DEF Good
<1>0. /\ n \in [Slots -> WorkerRec]
      /\ \A x \in Slots :
           /\ n[x].pc = ws[x].pc /\ n[x].work = ws[x].work
           /\ ws[x].cancelled => n[x].cancelled
           /\ ws[x].pc = "none" /\ x # c => n[x] = ws[x]
           /\ x = c => n[x].closed
  BY DEF ClosedOff
<1>2. \A x \in Slots : /\ Live(n, x) <=> Live(ws, x)
                       /\ Working(n, x) <=> Working(ws, x)
                       /\ Doing(n, x) <=> Doing(ws, x)
  BY <1>0 DEF Live, Working, Doing
<1>3. Lone(0, n, after)
  <2>1. \A v, w \in Slots : Live(n, v) /\ Live(n, w) => v = w
    BY <1>0, <1>1, <1>2 DEF Lone
  <2>2. \A x \in Slots : Live(n, x) => n[x].closed
    BY <1>0, <1>1, <1>2 DEF Lone
  <2>3. \A x \in Slots : ~Live(n, x) => n[x] = NoWorker
    BY <1>0, <1>1, <1>2 DEF Lone, Live
  <2> QED BY <1>0, <2>1, <2>2, <2>3 DEF Lone
<1>4. CASE s = Unknown
  BY <1>0, <1>2, <1>3, <1>4 DEF Good
<1>5. CASE s \in StatusRec
  <2>1. Tracked(s, c, ws, d, u, R, stop)
    BY <1>5, GoodKnown
  <2>2. ASSUME NEW x \in Slots, Doing(n, x)
        PROVE  WorkOK(s, n[x], x, u, R)
    <3>1. WorkOK(s, ws[x], x, u, R)
      BY <1>2, <2>1, <2>2 DEF Tracked
    <3> QED BY <1>0, <3>1 DEF WorkOK
  <2>3. Sound(s, u, R, after) /\ Asked(s, d)
    BY <2>1 DEF Tracked, Sound
  <2>4. Tracked(s, 0, n, d, u, R, after)
    BY <1>2, <2>1, <2>2, <2>3 DEF Tracked
  <2> QED BY <1>0, <1>3, <1>5, <2>4, GoodKnown DEF Slots
<1> QED BY <1>1, <1>4, <1>5

\* close() for all pods.
LEMMA CloseKeeps ==
  ASSUME IInv, Close
  PROVE  Kept
<1>1. /\ ~stopped /\ stopped' = TRUE
      /\ chan' = [u \in UIDs |-> 0]
      /\ worker' = [u \in UIDs |->
                      LET ws == Closed(worker[u], chan[u])
                      IN  IF status[u].known THEN Cancel(ws, status[u].cancel) ELSE ws]
      /\ UNCHANGED <<config, status, queue, reported, running, sourcesReady, events>>
  BY DEF Close
<1>2. Plain' /\ Maps'
  BY <1>1 DEF IInv, Plain, Maps
<1>3. ASSUME NEW u \in UIDs PROVE After(u)
  <2> DEFINE s == status[u]
             ws == worker[u]
             c == chan[u]
             m == Closed(ws, c)
             n == IF s.known THEN Cancel(m, s.cancel) ELSE m
  <2>1. Good(s, c, ws, config[u], u, running, stopped)
    BY DEF IInv, GoodPod
  <2>2. /\ ws \in [Slots -> WorkerRec] /\ c \in Slots \cup {0} /\ s \in StatusRec \cup {Unknown}
        /\ Lone(c, ws, stopped)
    BY <2>1 DEF Good
  <2>3. /\ m \in [Slots -> WorkerRec]
        /\ \A x \in Slots : /\ m[x].pc = ws[x].pc /\ m[x].work = ws[x].work
                            /\ (m[x].cancelled <=> ws[x].cancelled)
                            /\ x # c => m[x] = ws[x]
        /\ c \in Slots => m[c].closed
    BY <2>2, ClosedFacts
  <2> HIDE DEF m
  <2>4. worker'[u] = n /\ chan'[u] = 0
    BY <1>1 DEF m
  <2>5. ClosedOff(ws, c, n)
    <3>1. CASE s.known
      <4>1. s \in StatusRec
        BY <2>2, <3>1 DEF Unknown
      <4>2. s.cancel \in Slots \cup {0}
        BY <4>1, RecordFacts
      <4> DEFINE k == Cancel(m, s.cancel)
      <4>3. /\ k \in [Slots -> WorkerRec]
            /\ \A x \in Slots : m[x].pc \notin InFlight => k[x] = m[x]
            /\ \A x \in Slots : /\ k[x].pc = m[x].pc /\ k[x].work = m[x].work
                                /\ (k[x].closed <=> m[x].closed)
                                /\ m[x].cancelled => k[x].cancelled
        BY <2>3, <4>2, CancelFacts
      <4>4. n = k
        BY <3>1
      <4> HIDE DEF k, n
      <4> QED BY <2>3, <4>3, <4>4 DEF InFlight, ClosedOff
    <3>2. CASE ~s.known
      <4>1. n = m
        BY <3>2
      <4> HIDE DEF n
      <4> QED BY <2>3, <4>1 DEF ClosedOff
    <3> QED BY <3>1, <3>2
  <2> HIDE DEF n
  <2>6. Good(s, 0, n, config[u], u, running, stopped')
    BY <1>1, <2>1, <2>5, CloseGood
  <2>7. GoodPod(u)'
    BY <1>1, <2>4, <2>6 DEF GoodPod
  <2>8. s # Unknown => Onward(s, s)
    <3>1. ASSUME s # Unknown PROVE s \in StatusRec /\ Sound(s, u, running, stopped)
      BY <2>1, <3>1 DEF Good, Tracked
    <3> QED BY <3>1, OnwardSelf DEF Sound
  <2>9. status'[u] = s
    BY <1>1
  <2> QED BY <2>7, <2>8, <2>9 DEF After, Allowed
<1> QED BY <1>2, <1>3 DEF Kept, IInv, After

\* close() returns once every worker has, and forgets the records.
LEMMA ClosesKeeps ==
  ASSUME IInv, Closes
  PROVE  Kept
<1>1. /\ stopped /\ \A u \in UIDs, w \in Slots : worker[u][w].pc = "none"
      /\ status' = [u \in UIDs |-> Unknown]
      /\ UNCHANGED <<config, chan, worker, queue, reported, running, sourcesReady, stopped, events>>
  BY DEF Closes, At
<1>2. Plain' /\ Maps'
  BY <1>1 DEF IInv, Plain, Maps
<1>3. ASSUME NEW u \in UIDs PROVE After(u)
  <2>1. /\ worker[u] \in [Slots -> WorkerRec] /\ chan[u] \in Slots \cup {0}
        /\ Lone(chan[u], worker[u], stopped)
    BY DEF IInv, GoodPod, Good
  <2>2. Good(Unknown, chan[u], worker[u], config[u], u, running, stopped)
    BY <1>1, <2>1 DEF Good, Live
  <2>3. GoodPod(u)' /\ status'[u] = Unknown
    BY <1>1, <2>2 DEF GoodPod
  <2> QED BY <1>1, <2>3 DEF After, Allowed
<1> QED BY <1>2, <1>3 DEF Kept, IInv, After

----
(* SyncKnownPods.                                                          *)

\* The record that SyncKnownPods removes, with its worker's channel.
Removed(u) == Prunes(status[u], ~Present(u)) /\ Removable(status[u], ~Present(u))
Orphan(u)  == ~Removed(u) /\ Prunes(status[u], ~Present(u)) /\ ~Present(u)

\* SyncKnownPods: every record stays, is marked to restart or terminate, or is
\* removed.
LEMMA SyncKnownEffect ==
  ASSUME IInv, SyncKnownPods, NEW u \in UIDs
  PROVE  /\ status'[u] = IF Removed(u) THEN Unknown
                         ELSE IF Orphan(u) THEN Orphaned(status[u]) ELSE status[u]
         /\ chan'[u] = IF Removed(u) THEN 0 ELSE chan[u]
         /\ worker'[u] = IF Removed(u) THEN Closed(worker[u], chan[u])
                         ELSE IF Orphan(u) /\ Requeues(status[u]) THEN Token(worker[u], chan[u])
                         ELSE worker[u]
         /\ Maps'
<1> DEFINE removed == {v \in UIDs : Removed(v)}
           orphans == {v \in UIDs \ removed : Prunes(status[v], ~Present(v)) /\ ~Present(v)}
<1>1. /\ status' = [v \in UIDs |-> IF v \in removed THEN Unknown
                                   ELSE IF v \in orphans THEN Orphaned(status[v])
                                   ELSE status[v]]
      /\ chan' = [v \in UIDs |-> IF v \in removed THEN 0 ELSE chan[v]]
      /\ worker' = [v \in UIDs |->
                      IF v \in removed THEN Closed(worker[v], chan[v])
                      ELSE IF v \in orphans /\ Requeues(status[v])
                      THEN Token(worker[v], chan[v])
                      ELSE worker[v]]
  BY Zenon DEF SyncKnownPods, Removed
<1>2. (u \in removed <=> Removed(u)) /\ (u \in orphans <=> Orphan(u))
  BY DEF Orphan
<1> HIDE DEF removed, orphans
<1>3. /\ status'[u] = IF Removed(u) THEN Unknown
                         ELSE IF Orphan(u) THEN Orphaned(status[u]) ELSE status[u]
      /\ chan'[u] = IF Removed(u) THEN 0 ELSE chan[u]
      /\ worker'[u] = IF Removed(u) THEN Closed(worker[u], chan[u])
                         ELSE IF Orphan(u) /\ Requeues(status[u]) THEN Token(worker[u], chan[u])
                         ELSE worker[u]
  BY <1>1, <1>2
<1>4. Maps'
  BY <1>1 DEF Maps
<1> QED BY <1>3, <1>4

\* A record is removed only when its worker is gone: an update that was
\* delivered has been taken by the time of the next event, and whoever took one
\* has started or was observed.
LEMMA RemovedIsFinished ==
  ASSUME IInv, ~stopped, Settled, NEW u \in UIDs, Removed(u)
  PROVE  status[u] \in StatusRec /\ status[u].finished
<1> DEFINE s == status[u]
           ws == worker[u]
           c == chan[u]
<1>1. s.known
  BY DEF Removed, Prunes
<1>2. /\ Good(s, c, ws, config[u], u, running, stopped) /\ s # Unknown /\ s \in StatusRec
  BY <1>1 DEF IInv, GoodPod, Good, Unknown
<1>3. /\ c \in Slots \cup {0} /\ Lone(c, ws, stopped)
      /\ Tracked(s, c, ws, config[u], u, running, stopped) /\ ws \in [Slots -> WorkerRec]
  BY <1>2, GoodKnown
<1>4. SUFFICES ASSUME ~s.finished PROVE FALSE
  BY <1>2
<1>5. ~s.started /\ ~s.observed
  BY <1>4 DEF Removed, Removable
<1>6. s.pending # NoUpdate /\ c \in Slots /\ Remembers(s, c, ws)
  BY <1>3, <1>4, <1>5 DEF Tracked, Asked
<1>7. ~Working(ws, c) /\ ws[c].token /\ Live(ws, c)
  BY <1>3, <1>5, <1>6 DEF Tracked, Remembers, Lone
<1>8. ws[c].pc = "idle"
  BY <1>3, <1>6, <1>7 DEF Working, Live, WorkerRec
<1> QED BY <1>6, <1>7, <1>8 DEF Settled

\* A removed record leaves nothing behind.
LEMMA RemovedAfter ==
  ASSUME IInv, SyncKnownPods, NEW u \in UIDs, Removed(u)
  PROVE  After(u)
<1> DEFINE s == status[u]
           ws == worker[u]
           c == chan[u]
<1>1. ~stopped /\ Settled /\ UNCHANGED <<config, running, stopped>>
  BY DEF SyncKnownPods, NextEvent
<1>2. s \in StatusRec /\ s.finished
  BY <1>1, RemovedIsFinished
<1>3. /\ c \in Slots \cup {0} /\ Lone(c, ws, stopped)
      /\ Tracked(s, c, ws, config[u], u, running, stopped) /\ ws \in [Slots -> WorkerRec]
  BY <1>2, GoodKnown DEF IInv, GoodPod
<1>4. \A x \in Slots : ~Live(ws, x)
  BY <1>2, <1>3 DEF Tracked
<1>5. c = 0
  BY <1>1, <1>3, <1>4 DEF Lone
<1>6. u \notin running
  BY <1>1, <1>2, <1>3 DEF Tracked, Sound
<1>7. status'[u] = Unknown /\ chan'[u] = 0 /\ worker'[u] = ws
  BY <1>5, SyncKnownEffect DEF Closed
<1>8. Good(Unknown, 0, ws, config[u], u, running, stopped)
  BY <1>3, <1>4, <1>5, <1>6 DEF Good
<1>9. GoodPod(u)'
  BY <1>1, <1>7, <1>8 DEF GoodPod
<1>10. \A x \in Slots : ws[x].pc \notin InFlight
  BY <1>4 DEF Live, InFlight
<1> QED BY <1>6, <1>7, <1>9, <1>10 DEF After, Allowed

\* A pod that the configuration lost, and that is not removed, must terminate.
LEMMA OrphanAfter ==
  ASSUME IInv, SyncKnownPods, NEW u \in UIDs, Orphan(u)
  PROVE  After(u)
<1> DEFINE s == status[u]
           ws == worker[u]
           c == chan[u]
           v == [s EXCEPT !.deleted = TRUE]
           t == Requeued(v)
           resent == Requeues(s)
           n == IF resent THEN Token(ws, c) ELSE ws
<1>1. ~stopped /\ Settled /\ UNCHANGED <<config, running, stopped>>
  BY DEF SyncKnownPods, NextEvent
<1>2. s.known /\ ~s.finished /\ config[u] = Absent /\ ~Removed(u)
  BY DEF Orphan, Removed, Prunes, Removable, Present
<1>3. s \in StatusRec /\ Good(s, c, ws, config[u], u, running, stopped)
  BY <1>2 DEF IInv, GoodPod, Good, Unknown
<1>4. /\ c \in Slots \cup {0} /\ Lone(c, ws, stopped) /\ ws \in [Slots -> WorkerRec]
      /\ Tracked(s, c, ws, config[u], u, running, stopped)
      /\ Sound(s, u, running, stopped) /\ Asked(s, config[u])
  BY <1>3, GoodKnown DEF Tracked
<1>5. s.terminating
  BY <1>2, <1>4 DEF Asked
<1>6. c \in Slots /\ ws[c].pc # "none" /\ Remembers(s, c, ws)
  BY <1>1, <1>2, <1>4 DEF Tracked, Lone, Live
<1>7. /\ v \in StatusRec /\ v.pending = s.pending /\ v.active = s.active /\ v.grace = s.grace
      /\ v.cancel = s.cancel /\ (v.working <=> s.working)
      /\ (v.started <=> s.started) /\ (v.terminating <=> s.terminating)
      /\ (v.startedTerminating <=> s.startedTerminating) /\ (v.finished <=> s.finished)
      /\ (v.terminated <=> s.terminated) /\ (v.observed <=> s.observed)
  BY <1>3 DEF StatusRec
<1>8. status'[u] = t /\ chan'[u] = c /\ worker'[u] = n
  BY <1>2, <1>5, SyncKnownEffect DEF Orphaned
<1> HIDE DEF v
<1>9. Requeues(v) <=> resent
  BY <1>7 DEF Requeues
<1>10. /\ t \in StatusRec
       /\ resent => t.pending = s.active /\ s.pending = NoUpdate /\ s.active # NoUpdate
       /\ ~resent => t.pending = s.pending
       /\ t.working <=> resent \/ s.working
       /\ t.active = s.active /\ t.cancel = s.cancel /\ t.grace = s.grace
       /\ (t.started <=> s.started) /\ (t.startedTerminating <=> s.startedTerminating)
       /\ (t.terminated <=> s.terminated) /\ (t.finished <=> s.finished)
       /\ (t.terminating <=> s.terminating) /\ (t.observed <=> s.observed)
  BY <1>7, <1>9, RequeuedFacts DEF Requeues
<1> HIDE DEF t
<1> HIDE DEF resent
<1>11. /\ n \in [Slots -> WorkerRec] /\ n[c].pc = ws[c].pc
       /\ (n[c].closed <=> ws[c].closed) /\ (n[c].cancelled <=> ws[c].cancelled)
       /\ n[c].work = ws[c].work
       /\ resent => n[c].token
       /\ \A x \in Slots \ {c} : n[x] = ws[x]
       /\ ~resent => n = ws
  BY <1>4, <1>6, SentFacts
<1> HIDE DEF n
<1>12. Sound(t, u, running, stopped)
  BY <1>4, <1>10 DEF Sound, Sensible
<1>13. Asked(t, config[u])
  BY <1>4, <1>5, <1>10 DEF Asked
<1>14. (Working(n, c) <=> Working(ws, c)) /\ (Doing(n, c) <=> Doing(ws, c))
  BY <1>11 DEF Working, Doing
<1>15. Working(n, c) => t.started \/ t.observed
  BY <1>4, <1>6, <1>10, <1>14 DEF Tracked
<1>16. Doing(n, c) => WorkOK(t, n[c], c, u, running)
  <2>1. Doing(n, c) => WorkOK(s, ws[c], c, u, running)
    BY <1>4, <1>6, <1>14 DEF Tracked
  <2> QED BY <1>10, <1>11, <2>1 DEF WorkOK
<1>17. \A x \in Slots \ {c} : ~Working(ws, x)
  BY <1>4, <1>6 DEF Lone, Live, Working, InFlight
<1>18. /\ t.pending # NoUpdate => n[c].token \/ Working(n, c)
       /\ t.working <=> t.pending # NoUpdate \/ Working(n, c)
  BY <1>6, <1>10, <1>11, <1>14, <1>17 DEF Remembers
<1>19. Good(t, c, n, config[u], u, running, stopped)
  BY <1>2, <1>3, <1>6, <1>10, <1>11, <1>12, <1>13, <1>15, <1>16, <1>18, WorkerGood
<1>20. GoodPod(u)'
  BY <1>1, <1>8, <1>19 DEF GoodPod
<1>21. Onward(s, t)
  <2>1. s.grace \in Nat
    BY <1>3, RecordFacts
  <2> QED BY <1>4, <1>10, <2>1 DEF Onward, Sound
<1> QED BY <1>8, <1>10, <1>20, <1>21, UnknownIsNot DEF After, Allowed

\* SyncKnownPods as a whole.
LEMMA SyncKnownKeeps ==
  ASSUME IInv, SyncKnownPods
  PROVE  Kept
<1>1. UNCHANGED <<config, queue, reported, running, sourcesReady, stopped, events>>
  BY DEF SyncKnownPods
<1>2. Plain'
  BY <1>1 DEF IInv, Plain
<1>3. ASSUME NEW u \in UIDs PROVE After(u) /\ Maps'
  <2>1. Maps'
    BY SyncKnownEffect
  <2>2. CASE Removed(u)
    BY <2>1, <2>2, RemovedAfter
  <2>3. CASE Orphan(u)
    BY <2>1, <2>3, OrphanAfter
  <2>4. CASE ~Removed(u) /\ ~Orphan(u)
    <3>1. Same(u)
      BY <2>4, SyncKnownEffect DEF Same
    <3> QED BY <1>1, <2>1, <3>1, SameKeeps DEF IInv
  <2> QED BY <2>2, <2>3, <2>4
<1>4. Maps'
  BY DEF SyncKnownPods, Maps
<1> QED BY <1>2, <1>3, <1>4 DEF Kept, IInv, After

----
(* Every step; the theorems.                                               *)

\* Every step of the pod workers and of the kubelet that calls them.
LEMMA StepKeeps ==
  ASSUME IInv, Next
  PROVE  Kept
<1>1. ASSUME NEW u \in UIDs, NEW w \in Slots, WorkerStep(u, w) PROVE Kept
  BY <1>1, StartPodSyncKeeps, WorkerEndsKeeps, BeginKeeps, ReturnsToLoop, StartContainersKeeps,
     RequestSyncKeeps, SyncEndsKeep, CompleteSyncKeeps, CompleteTerminatingKeeps,
     CompleteRuntimeKeeps, CompleteTerminatedKeeps, CompleteWorkKeeps DEF WorkerStep
<1>2. ASSUME NEW u \in UIDs,
             \/ HandlePodAdditions(u) \/ HandlePodUpdates(u) \/ HandlePodReconcile(u)
             \/ HandlePodRemoves(u) \/ HandlePodSyncs(u) \/ SyncTick(u)
             \/ DeliverCleanup(u) \/ ContainersExit(u)
      PROVE  Kept
  BY <1>2, AdditionsKeep, UpdatesKeep, ReconcileKeeps, RemovesKeep, SyncsKeep,
     DeliverCleanupKeeps, ExitKeeps
<1>3. CASE NoPods \/ ListRuntimePods \/ ListFails \/ CleanupDone
  BY <1>3, RestsKeep
<1>4. CASE SyncKnownPods
  BY <1>4, SyncKnownKeeps
<1>5. CASE Close \/ Closes
  BY <1>5, CloseKeeps, ClosesKeeps
<1> QED BY <1>1, <1>2, <1>3, <1>4, <1>5 DEF Next

\* And a step of nothing.
LEMMA StutterKeeps ==
  ASSUME IInv, UNCHANGED vars
  PROVE  Kept
<1>1. UNCHANGED <<config, status, chan, worker, queue, reported, running, sourcesReady, stopped, events>>
  BY DEF vars
<1>2. Plain'
  BY <1>1 DEF IInv, Plain
<1> QED BY <1>1, <1>2, RestKeeps

\* The kubelet starts with no record, whatever the node still runs.
LEMMA InitIsGood == Init => IInv
<1> SUFFICES ASSUME Init PROVE IInv
  OBVIOUS
<1>1. Maps
  BY DEF Init, Maps
<1>2. Plain
  <2>1. 0 \in 0 .. MaxEvents /\ Leftover \subseteq UIDs
    BY PodWorkersAssumption
  <2>2. config \in [UIDs -> Pods \cup {Absent}]
    BY DEF Init
  <2>3. /\ queue = {} /\ reported = {} /\ running \in SUBSET Leftover
        /\ sourcesReady = FALSE /\ stopped = FALSE /\ events = 0
    BY DEF Init
  <2> QED BY <2>1, <2>2, <2>3 DEF Plain
<1>3. ASSUME NEW u \in UIDs PROVE GoodPod(u)
  <2>1. /\ status[u] = Unknown /\ chan[u] = 0 /\ worker[u] = [w \in Slots |-> NoWorker]
        /\ u \in running => u \in Leftover
    BY DEF Init
  <2>2. worker[u] \in [Slots -> WorkerRec] /\ \A x \in Slots : worker[u][x] = NoWorker
    BY <2>1, NoWorkerFacts
  <2> QED BY <2>1, <2>2, GoneGood DEF GoodPod
<1> QED BY <1>1, <1>2, <1>3 DEF IInv

\* Every record has the fields of a fresh one.
LEMMA FreshDomain ==
  ASSUME NEW s \in StatusRec PROVE DOMAIN s = DOMAIN FreshStatus
  BY DEF StatusRec, FreshStatus

\* The invariant implies what WorkersAreSound promises: types, one worker per
\* pod, running pods tracked, no update forgotten, termination interrupts.
LEMMA GoodIsSound == IInv => WorkersAreSound
<1> SUFFICES ASSUME IInv PROVE WorkersAreSound
  OBVIOUS
<1>1. ASSUME NEW u \in UIDs
      PROVE  /\ chan[u] \in Slots \cup {0} /\ worker[u] \in [Slots -> WorkerRec]
             /\ Lone(chan[u], worker[u], stopped)
             /\ status[u] = Unknown => /\ \A w \in Slots : ~Live(worker[u], w)
                                       /\ u \in running => u \in Leftover \/ stopped
             /\ status[u] # Unknown =>
                  /\ status[u] \in StatusRec
                  /\ Tracked(status[u], chan[u], worker[u], config[u], u, running, stopped)
             /\ status[u].known <=> status[u] # Unknown
  <2>1. /\ chan[u] \in Slots \cup {0} /\ worker[u] \in [Slots -> WorkerRec]
        /\ Lone(chan[u], worker[u], stopped) /\ status[u] \in StatusRec \cup {Unknown}
        /\ status[u] = Unknown => /\ \A w \in Slots : ~Live(worker[u], w)
                                  /\ u \in running => u \in Leftover \/ stopped
        /\ status[u] # Unknown =>
             Tracked(status[u], chan[u], worker[u], config[u], u, running, stopped)
    BY DEF IInv, GoodPod, Good
  <2>2. ~Unknown.known
    BY DEF Unknown
  <2> QED BY <2>1, <2>2, UnknownIsNot
<1>2. TypeOK
  <2>1. ASSUME NEW u \in UIDs, status[u].known
        PROVE  /\ DOMAIN status[u] = DOMAIN FreshStatus
               /\ {status[u].pending, status[u].active} \subseteq Updates \cup {NoUpdate}
               /\ status[u].grace \in {0, 1, SpecGrace} \cup DeletionGraces
               /\ status[u].cancel \in Slots \cup {0}
    <3>1. status[u] \in StatusRec
      BY <1>1, <2>1
    <3>2. DOMAIN status[u] = DOMAIN FreshStatus
      BY <3>1, FreshDomain
    <3> QED BY <3>1, <3>2 DEF StatusRec, Graces
  <2>2. chan \in [UIDs -> Slots \cup {0}]
    <3>1. chan = [u \in UIDs |-> chan[u]]
      BY DEF IInv, Maps
    <3> QED BY <1>1, <3>1
  <2>3. \A u \in UIDs, w \in Slots :
          worker[u][w].pc \in InFlight \cup {"none", "idle", "complete", "completeWork"}
    BY <1>1 DEF WorkerRec
  <2> QED BY <2>1, <2>2, <2>3 DEF TypeOK, IInv, Plain
<1>3. OneWorker
  <2>1. ASSUME NEW u \in UIDs, NEW v \in Slots, NEW w \in Slots, Busy(u, v), Busy(u, w)
        PROVE  v = w
    BY <1>1, <2>1 DEF Busy, Lone, Live, InFlight
  <2>2. ASSUME NEW u \in UIDs, NEW w \in Slots, At(u, w, "idle"), ~worker[u][w].closed
        PROVE  chan[u] = w
    BY <1>1, <2>2 DEF At, Lone, Live
  <2> QED BY <2>1, <2>2 DEF OneWorker
<1>4. RunningIsTracked
  <2> SUFFICES ASSUME NEW u \in running
               PROVE  \/ status[u].known /\ ~status[u].terminated
                      \/ u \in Leftover /\ ~status[u].known
                      \/ stopped
    BY DEF RunningIsTracked
  <2>1. u \in UIDs
    BY DEF IInv, Plain
  <2> QED BY <1>1, <2>1 DEF Tracked, Sound
<1>5. NoUpdateForgotten
  <2> SUFFICES ASSUME NEW u \in UIDs, status[u].known, ~status[u].finished, ~stopped
               PROVE  /\ status[u].pending # NoUpdate =>
                           chan[u] # 0 /\ (worker[u][chan[u]].token \/ Busy(u, chan[u]))
                      /\ status[u].working <=> \/ status[u].pending # NoUpdate
                                               \/ \E w \in Slots : Busy(u, w)
    BY DEF NoUpdateForgotten
  <2> QED BY <1>1 DEF Tracked, Remembers, Working, Busy
<1>6. TerminationInterrupts
  <2> SUFFICES ASSUME NEW u \in UIDs, NEW w \in Slots, worker[u][w].pc \in InFlight,
                      Work(u, w).type = "SyncPod", status[u].known, status[u].terminating
               PROVE  worker[u][w].cancelled
    BY DEF TerminationInterrupts
  <2>1. WorkOK(status[u], worker[u][w], w, u, running)
    BY <1>1 DEF Tracked, Doing
  <2> QED BY <2>1 DEF WorkOK, Work
<1> QED BY <1>2, <1>3, <1>4, <1>5, <1>6 DEF WorkersAreSound

\* The inductive invariant holds of every reachable state, for any number of
\* pods, any bound on events and any grace period.
THEOREM InductiveInvariant == Spec => []IInv
<1>1. IInv /\ [Next]_vars => IInv'
  BY StepKeeps, StutterKeeps DEF Kept
<1> QED BY <1>1, InitIsGood, PTL DEF Spec

\* PodWorkers never runs two goroutines for one pod, never loses the last update
\* sent to it, tracks what runs on the node and cancels a sync once the pod
\* must terminate.
THEOREM WorkersSoundness == Spec => []WorkersAreSound
  BY InductiveInvariant, GoodIsSound, PTL

\* A podSyncStatus only moves on (started, terminating, terminated, finished; a
\* shrinking grace period), and is dropped only when nothing of the pod is left
\* to do.
THEOREM RecordsMoveOnward == Spec => OnlyOnward
<1> DEFINE Step == \A u \in UIDs : status[u].known =>
                     IF status'[u].known THEN Onward(status[u], status'[u]) ELSE stopped \/ Dropped(u)
<1>1. IInv /\ [Next]_vars => [Step]_vars
  <2> SUFFICES ASSUME IInv, Next, NEW u \in UIDs, status[u].known
               PROVE  IF status'[u].known THEN Onward(status[u], status'[u]) ELSE stopped \/ Dropped(u)
    OBVIOUS
  <2>1. Kept
    BY StepKeeps
  <2>2. /\ Allowed(status[u], status'[u], stopped, u, running, worker'[u])
        /\ status'[u] \in StatusRec \cup {Unknown}
    BY <2>1 DEF Kept, After, GoodPod, Good
  <2>3. status[u] # Unknown /\ ~Unknown.known
    BY DEF Unknown
  <2>4. status'[u].known <=> status'[u] # Unknown
    BY <2>2, <2>3, UnknownIsNot
  <2> QED BY <2>2, <2>3, <2>4 DEF Allowed, Dropped
<1> QED BY <1>1, InductiveInvariant, PTL DEF Spec, OnlyOnward

----
(* The lifecycle event generator and the pod cache.                        *)

----
(* Types.                                                                  *)

States == Containers \cup {Gone}
Views  == States \cup {Error}
Times  == 0 .. MaxTime
Entry  == [has : BOOLEAN, value : Views, modified : Times, observed : Times]
Subscriber == [pc : {"idle", "waiting", "syncing"}, last : Times, since : SUBSET States,
               answer : Views]
Lister == [pc : {"free", "list", "reconcile", "set"}, full : BOOLEAN, pod : SUBSET PodIds,
           ts : Times, current : UNION {[S -> States] : S \in SUBSET PodIds},
           todo : SUBSET PodIds, at : SUBSET PodIds, read : Views]

Typed ==
    /\ now \in Times /\ relistTime \in Times /\ timestamp \in Times
    /\ runtime \in [PodIds -> States] /\ old \in [PodIds -> States]
    /\ recent \in [PodIds -> SUBSET States]
    /\ lister \in Lister /\ reinspect \subseteq PodIds
    /\ requests \subseteq [pod : PodIds, ts : Times]
    /\ cache \in [PodIds -> Entry] /\ syncer \in [PodIds -> Subscriber]

----
(* The invariant.                                                          *)

\* Where the lister is, what it has of each pod it lists, and that its time is
\* the latest that the cache can have been told.
Listing == lister.pc \in {"reconcile", "set"}
ListerOK ==
    /\ lister.ts <= now /\ timestamp <= now
    /\ lister.pc # "free" => timestamp <= lister.ts
    /\ lister.full => lister.pod = PodIds
    /\ Listing => DOMAIN lister.current = lister.pod /\ lister.todo \subseteq lister.pod
    /\ ~Listing => DOMAIN lister.current = {} /\ lister.todo = {}
    /\ lister.at \subseteq lister.todo
    /\ lister.pc = "set" <=> lister.at # {}
    /\ \A u, w \in lister.at : u = w

\* A status is no older than t says to those who synced before t.
IsOf(u, t, v) ==
    /\ t >= syncer[u].last => v \in syncer[u].since \cup {Error}
    /\ t >= now => v \in recent[u] \cup {Error}

\* What the runtime has is in everybody's memory, and nobody synced in the future.
RuntimeOK(u) ==
    /\ runtime[u] \in syncer[u].since /\ runtime[u] \in recent[u]
    /\ syncer[u].last <= now

\* What was listed, was read, and, once the pod was reconciled, is cached was so
\* when the relist began or later.  A number that is over does not come back.
ListedOK(u) ==
    u \in lister.todo =>
        /\ IsOf(u, lister.ts, Current(u))
        /\ runtime[u] = Gone \/ runtime[u].n >= Current(u).n
ReadOK(u) ==
    u \in lister.at =>
        /\ IsOf(u, lister.ts, lister.read)
        /\ Current(u) # Gone
        /\ lister.read \in {Gone, Error} \/ lister.read.n >= Current(u).n
        /\ lister.read \notin {Current(u), Error} => runtime[u] # Current(u)
CachedOK(u) ==
    Listing /\ u \in lister.pod /\ u \notin lister.todo => IsOf(u, lister.ts, cache[u].value)

\* The record is what is cached, or what is cached came later; then the runtime
\* has moved on from the record for good.
RecordOK(u) ==
    /\ old[u] = Gone => cache[u].value \in {Gone, Error}
    /\ old[u] # Gone => /\ cache[u].has
                        /\ cache[u].value \in {Gone, Error} \/ cache[u].value.n >= old[u].n
    /\ cache[u].value = Error => u \in reinspect \cup lister.at
    /\ old[u] # Gone /\ cache[u].value \notin {old[u], Error} =>
           runtime[u] # old[u] /\ (u \in lister.todo => Current(u) # old[u])

\* What is newer than the last sync is of the time after it.
NewerOK(u) ==
    /\ cache[u].modified <= now /\ cache[u].observed <= now
    /\ IsNewer(u, syncer[u].last) => cache[u].value \in syncer[u].since \cup {Error}
    /\ syncer[u].pc = "waiting" => ~IsNewer(u, syncer[u].last)
    /\ syncer[u].pc = "syncing" => syncer[u].answer \in syncer[u].since \cup {Error}

PodOK(u) ==
    /\ RuntimeOK(u) /\ ListedOK(u) /\ ReadOK(u) /\ CachedOK(u) /\ RecordOK(u) /\ NewerOK(u)

PlegInv == Typed /\ ListerOK /\ \A u \in PodIds : PodOK(u)

----
(* Numbers.                                                                *)

\* A set of numbers has a largest one, if something bounds it.
LEMMA LargestExists ==
    ASSUME NEW top \in Nat, NEW S \in SUBSET (0 .. top), S # {}
    PROVE  \E n \in S : \A m \in S : m <= n
<1> DEFINE D == {d \in Nat : top - d \in S}
<1>1. D # {}
  <2>1. PICK n \in S : TRUE
    OBVIOUS
  <2>2. top - n \in D
    OBVIOUS
  <2> QED BY <2>2
<1>2. PICK d \in D : \A e \in D : ~(<<e, d>> \in OpToRel(<, Nat))
  BY <1>1, NatLessThanWellFounded, WFMin
<1>3. \A e \in D : ~(e < d)
  BY <1>2 DEF OpToRel
<1>4. \A m \in S : top - m \in D
  OBVIOUS
<1>5. \A m \in S : m <= top - d
  BY <1>3, <1>4
<1> QED BY <1>5

LEMMA ViewsAreNumbered ==
    /\ \A v \in Views : v.n \in 0 .. MaxChanges
    /\ Gone \in States /\ States \subseteq Views /\ Error \in Views /\ Error \notin States
    /\ \A v \in States : v = Gone \/ (v.n \in 1 .. MaxChanges /\ v # Gone)
    /\ Gone.n = 0 /\ Gone.state = "gone" /\ Gone # Error
  BY PlegAssumption DEF Views, States, Containers, Gone, Error

\* The number of a change is above everything that is remembered of the pod.
LEMMA FreshIsNew ==
    ASSUME Typed, ListerOK, NEW u \in PodIds
    PROVE  /\ Fresh(u) \in Nat \ {0}
           /\ runtime[u].n < Fresh(u) /\ old[u].n < Fresh(u)
           /\ u \in lister.todo => Current(u).n < Fresh(u)
<1> USE ViewsAreNumbered DEF Typed
<1>1. /\ runtime[u] \in States /\ old[u] \in States /\ cache[u] \in Entry
      /\ syncer[u] \in Subscriber /\ recent[u] \subseteq States
  OBVIOUS
<1>2. /\ cache[u].value \in Views /\ syncer[u].answer \in Views
      /\ syncer[u].since \subseteq States /\ lister.read \in Views
  BY <1>1 DEF Entry, Subscriber, Lister
<1>3. u \in DOMAIN lister.current => Current(u) \in States
  BY DEF Lister, Current
<1>4. Seen(u) \subseteq 0 .. MaxChanges
  BY <1>1, <1>2, <1>3 DEF Seen, Current
<1>5. Seen(u) # {} /\ runtime[u].n \in Seen(u) /\ old[u].n \in Seen(u)
  BY DEF Seen
<1>6. u \in lister.todo => Current(u).n \in Seen(u)
  BY DEF Seen, ListerOK, Current
<1>7. PICK n \in Seen(u) : \A m \in Seen(u) : m <= n
  BY <1>4, <1>5, LargestExists, PlegAssumption
<1> DEFINE top == CHOOSE k \in Seen(u) : \A m \in Seen(u) : m <= k
<1>8. top \in Seen(u) /\ \A m \in Seen(u) : m <= top
  BY <1>7
<1>9. Fresh(u) = 1 + top
  BY DEF Fresh
<1> HIDE DEF top
<1>10. top \in Nat
  BY <1>4, <1>8, PlegAssumption
<1>11. \A m \in Seen(u) : m \in Nat /\ m < Fresh(u)
  BY <1>4, <1>8, <1>9, <1>10, PlegAssumption
<1> QED BY <1>5, <1>6, <1>9, <1>10, <1>11

----
(* The clock and the containers.                                           *)

LEMMA TickKeeps == ASSUME PlegInv, Tick PROVE PlegInv'
<1> USE DEF PlegInv, Tick
<1>1. now' = now + 1 /\ now \in Times /\ now' \in Times
  BY PlegAssumption DEF Typed, Times
<1>2. Typed'
  <2>1. recent' \in [PodIds -> SUBSET States]
    BY DEF Typed
  <2> QED BY <1>1, <2>1 DEF Typed
<1>3. ListerOK'
  BY <1>1 DEF ListerOK, Listing, Typed, Lister, Times
<1>4. ASSUME NEW u \in PodIds PROVE PodOK(u)'
  <2>1. /\ lister.ts \in Nat /\ syncer[u].last \in Nat /\ now \in Nat
        /\ cache[u].modified \in Nat /\ cache[u].observed \in Nat /\ lister.ts <= now
    BY DEF Typed, Lister, Entry, Subscriber, Times, ListerOK
  <2>2. PodOK(u) /\ recent'[u] = {runtime[u]}
    OBVIOUS
  <2>3. ~(lister.ts >= now')
    BY <1>1, <2>1
  <2>4. RuntimeOK(u)' /\ NewerOK(u)'
    BY <1>1, <2>1, <2>2 DEF PodOK, RuntimeOK, NewerOK, IsNewer
  <2>5. ListedOK(u)' /\ ReadOK(u)' /\ CachedOK(u)' /\ RecordOK(u)'
    BY <2>2, <2>3 DEF PodOK, ListedOK, ReadOK, CachedOK, RecordOK, Current, Listing, IsOf
  <2> QED BY <2>4, <2>5 DEF PodOK
<1> QED BY <1>2, <1>3, <1>4

\* What becomes of a pod has a number nobody remembers, or is gone.
LEMMA ChangesKeep ==
    ASSUME PlegInv, NEW u \in PodIds, NEW state \in {"running", "exited", "gone"}, NEW n,
           Changes(u, state, n), state # "gone" => n = Fresh(u) /\ n <= MaxChanges
    PROVE  PlegInv'
<1> USE DEF PlegInv
<1> DEFINE new == IF state = "gone" THEN Gone ELSE [n |-> n, state |-> state]
<1>1. /\ runtime' = [runtime EXCEPT ![u] = new]
      /\ recent' = [recent EXCEPT ![u] = @ \cup {runtime'[u]}]
      /\ syncer' = [syncer EXCEPT ![u].since = @ \cup {runtime'[u]}]
      /\ UNCHANGED <<now, old, lister, requests, reinspect, relistTime, cache, timestamp, failures>>
  BY DEF Changes
<1>2. /\ new \in States /\ (new = Gone \/ new.n = Fresh(u))
      /\ Fresh(u) \in Nat \ {0} /\ runtime[u].n < Fresh(u) /\ old[u].n < Fresh(u)
      /\ u \in lister.todo => Current(u).n < Fresh(u)
  BY FreshIsNew DEF States, Containers
<1> HIDE DEF new
<1>3. /\ runtime'[u] = new /\ recent'[u] = recent[u] \cup {new}
      /\ syncer'[u] = [syncer[u] EXCEPT !.since = @ \cup {new}]
      /\ \A v \in PodIds : v # u => /\ runtime'[v] = runtime[v] /\ recent'[v] = recent[v]
                                    /\ syncer'[v] = syncer[v]
  BY <1>1 DEF Typed
<1>4. Typed'
  <2>1. runtime' \in [PodIds -> States] /\ recent' \in [PodIds -> SUBSET States]
    BY <1>1, <1>2 DEF Typed
  <2>2. syncer'[u] \in Subscriber
    BY <1>2, <1>3 DEF Typed, Subscriber
  <2>3. syncer' \in [PodIds -> Subscriber]
    BY <1>1, <1>3, <2>2 DEF Typed
  <2> QED BY <1>1, <2>1, <2>3 DEF Typed
<1>5. ListerOK'
  BY <1>1 DEF ListerOK, Listing
<1>6. ASSUME NEW v \in PodIds PROVE PodOK(v)'
  <2>1. PodOK(v)
    OBVIOUS
  <2>2. /\ syncer'[v].pc = syncer[v].pc /\ syncer'[v].last = syncer[v].last
        /\ syncer'[v].answer = syncer[v].answer
        /\ syncer[v].since \subseteq syncer'[v].since /\ recent[v] \subseteq recent'[v]
        /\ runtime'[v] \in syncer'[v].since /\ runtime'[v] \in recent'[v]
    BY <1>3, <2>1 DEF Typed, Subscriber, PodOK, RuntimeOK
  <2>3. /\ v \in lister.todo => runtime'[v] = Gone \/ runtime'[v].n >= Current(v).n
        /\ v \in lister.at => (lister.read \notin {Current(v), Error} => runtime'[v] # Current(v))
        /\ old[v] # Gone /\ cache[v].value \notin {old[v], Error} => runtime'[v] # old[v]
    <3>1. v \in lister.todo => Current(v) \in States
      BY DEF Typed, Lister, ListerOK, Current
    <3>2. v \in lister.at => v \in lister.todo /\ Current(v) # Gone
      BY <2>1 DEF PodOK, ReadOK, ListerOK
    <3>3. CASE v # u
      BY <1>3, <2>1, <3>3 DEF PodOK, ListedOK, ReadOK, RecordOK
    <3>4. CASE v = u
      <4>1. old[u] \in States /\ runtime'[u] = new
        BY <1>3 DEF Typed
      <4>2. u \in lister.todo => Current(u).n \in Nat
        BY <3>1, <3>4, ViewsAreNumbered
      <4> QED BY <1>2, <3>2, <3>4, <4>1, <4>2
    <3> QED BY <3>3, <3>4
  <2>4. ASSUME NEW t, NEW w, IsOf(v, t, w) PROVE IsOf(v, t, w)'
    BY <1>1, <2>2, <2>4 DEF IsOf
  <2>5. RuntimeOK(v)' /\ NewerOK(v)'
    BY <1>1, <2>1, <2>2 DEF PodOK, RuntimeOK, NewerOK, IsNewer
  <2>6. ListedOK(v)' /\ ReadOK(v)' /\ CachedOK(v)' /\ RecordOK(v)'
    BY <1>1, <2>1, <2>2, <2>3, <2>4
    DEF PodOK, ListedOK, ReadOK, CachedOK, RecordOK, Current, Listing, IsOf
  <2> QED BY <2>5, <2>6 DEF PodOK
<1> QED BY <1>4, <1>5, <1>6

LEMMA ContainersKeep ==
    ASSUME PlegInv, NEW u \in PodIds,
           ContainersStart(u) \/ ContainersEnd(u) \/ ContainersRemoved(u)
    PROVE  PlegInv'
<1>1. CASE ContainersStart(u)
  BY <1>1, ChangesKeep DEF ContainersStart
<1>2. CASE ContainersEnd(u)
  BY <1>2, ChangesKeep DEF ContainersEnd
<1>3. CASE ContainersRemoved(u)
  BY <1>3, ChangesKeep DEF ContainersRemoved
<1> QED BY <1>1, <1>2, <1>3

----
(* The workers.                                                            *)

\* A step of one worker that keeps the time of its last sync.
LEMMA SyncerKeeps ==
    ASSUME PlegInv, NEW u \in PodIds, NEW new \in Subscriber,
           syncer' = [syncer EXCEPT ![u] = new],
           new.last = syncer[u].last, new.since = syncer[u].since,
           new.pc = "waiting" => ~IsNewer(u, new.last),
           new.pc = "syncing" => new.answer \in new.since \cup {Error},
           UNCHANGED <<now, runtime, old, lister, requests, reinspect, relistTime, cache,
                       timestamp, recent, failures>>
    PROVE  PlegInv'
<1> USE DEF PlegInv
<1>1. syncer'[u] = new /\ \A v \in PodIds : v # u => syncer'[v] = syncer[v]
  BY DEF Typed
<1>2. Typed'
  BY DEF Typed
<1>3. ListerOK'
  BY DEF ListerOK, Listing
<1>4. ASSUME NEW v \in PodIds PROVE PodOK(v)'
  <2>1. PodOK(v) /\ syncer'[v].last = syncer[v].last /\ syncer'[v].since = syncer[v].since
    BY <1>1
  <2>2. NewerOK(v)'
    BY <1>1, <2>1 DEF PodOK, NewerOK, IsNewer
  <2>3. RuntimeOK(v)' /\ ListedOK(v)' /\ ReadOK(v)' /\ CachedOK(v)' /\ RecordOK(v)'
    BY <2>1 DEF PodOK, RuntimeOK, ListedOK, ReadOK, CachedOK, RecordOK, Current, Listing, IsOf
  <2> QED BY <2>2, <2>3 DEF PodOK
<1> QED BY <1>2, <1>3, <1>4

LEMMA AskKeeps == ASSUME PlegInv, NEW u \in PodIds, Ask(u) PROVE PlegInv'
<1> USE DEF PlegInv
<1> DEFINE new == IF IsNewer(u, syncer[u].last)
                  THEN [syncer[u] EXCEPT !.pc = "syncing", !.answer = cache[u].value]
                  ELSE [syncer[u] EXCEPT !.pc = "waiting"]
<1>1. /\ syncer' = [syncer EXCEPT ![u] = new]
      /\ UNCHANGED <<now, runtime, old, lister, requests, reinspect, relistTime, cache,
                     timestamp, recent, failures>>
  BY DEF Ask, Typed
<1>2. syncer[u] \in Subscriber /\ cache[u].value \in Views
  BY DEF Typed, Entry
<1>3. new \in Subscriber /\ new.last = syncer[u].last /\ new.since = syncer[u].since
  BY <1>2 DEF Subscriber
<1>4. /\ new.pc = "waiting" => ~IsNewer(u, new.last)
      /\ new.pc = "syncing" => new.answer \in new.since \cup {Error}
  BY <1>2 DEF Subscriber, PodOK, NewerOK
<1> HIDE DEF new
<1> QED BY <1>1, <1>3, <1>4, SyncerKeeps

LEMMA StopsKeep ==
    ASSUME PlegInv, NEW u \in PodIds, Cancelled(u) \/ SyncThrows(u) PROVE PlegInv'
<1> USE DEF PlegInv
<1>1. PICK a \in {syncer[u].answer, Gone} :
        /\ syncer' = [syncer EXCEPT ![u] = [syncer[u] EXCEPT !.pc = "idle", !.answer = a]]
        /\ UNCHANGED <<now, runtime, old, lister, requests, reinspect, relistTime, cache,
                       timestamp, recent, failures>>
  BY DEF Cancelled, SyncThrows, Typed, Subscriber
<1> DEFINE new == [syncer[u] EXCEPT !.pc = "idle", !.answer = a]
<1>2. syncer[u] \in Subscriber
  BY DEF Typed
<1>3. /\ new \in Subscriber /\ new.last = syncer[u].last /\ new.since = syncer[u].since
      /\ new.pc = "idle"
  BY <1>2, ViewsAreNumbered DEF Subscriber
<1>4. syncer' = [syncer EXCEPT ![u] = new]
  BY <1>1
<1> HIDE DEF new
<1> QED BY <1>1, <1>3, <1>4, SyncerKeeps

\* A worker that has synced remembers what its pod was within this millisecond,
\* and nothing is newer than that.
LEMMA SyncEndsKeeps == ASSUME PlegInv, NEW u \in PodIds, SyncEnds(u) PROVE PlegInv'
<1> USE DEF PlegInv
<1> DEFINE new == [syncer[u] EXCEPT !.pc = "idle", !.last = now, !.since = recent[u],
                                    !.answer = Gone]
<1>1. /\ syncer' = [syncer EXCEPT ![u] = new]
      /\ requests' \subseteq requests \cup {[pod |-> u, ts |-> now]}
      /\ UNCHANGED <<now, runtime, old, lister, reinspect, relistTime, cache, timestamp, recent,
                     failures>>
  BY DEF SyncEnds, Typed
<1>2. /\ new \in Subscriber /\ new.last = now /\ new.since = recent[u] /\ new.pc = "idle"
  BY ViewsAreNumbered DEF Typed, Subscriber
<1> HIDE DEF new
<1>3. syncer'[u] = new /\ \A v \in PodIds : v # u => syncer'[v] = syncer[v]
  BY <1>1 DEF Typed
<1>4. Typed'
  <2>1. requests' \subseteq [pod : PodIds, ts : Times]
    BY <1>1 DEF Typed
  <2>2. syncer' \in [PodIds -> Subscriber]
    BY <1>1, <1>2 DEF Typed
  <2> QED BY <1>1, <2>1, <2>2 DEF Typed
<1>5. ListerOK'
  BY <1>1 DEF ListerOK, Listing
<1>6. ASSUME NEW v \in PodIds PROVE PodOK(v)'
  <2>1. PodOK(v)
    OBVIOUS
  <2>2. CASE v # u
    <3>1. syncer'[v] = syncer[v]
      BY <1>3, <2>2
    <3> QED
      BY <1>1, <2>1, <3>1
      DEF PodOK, NewerOK, IsNewer, RuntimeOK, ListedOK, ReadOK, CachedOK, RecordOK, Current,
          Listing, IsOf
  <2>3. CASE v = u
    <3>1. /\ syncer'[v].last = now /\ syncer'[v].since = recent[v] /\ syncer'[v].pc = "idle"
      BY <1>2, <1>3, <2>3
    <3>2. /\ lister.ts \in Nat /\ now \in Nat /\ timestamp \in Nat /\ timestamp <= now
          /\ cache[v].modified \in Nat /\ cache[v].observed \in Nat
      BY DEF Typed, Lister, Entry, Times, ListerOK
    <3>3. RuntimeOK(v)'
      BY <1>1, <2>1, <3>1, <3>2 DEF PodOK, RuntimeOK
    <3>4. NewerOK(v)'
      BY <1>1, <2>1, <3>1, <3>2 DEF PodOK, NewerOK, IsNewer
    <3>5. ListedOK(v)' /\ ReadOK(v)' /\ CachedOK(v)' /\ RecordOK(v)'
      BY <1>1, <2>1, <3>1
      DEF PodOK, ListedOK, ReadOK, CachedOK, RecordOK, Current, Listing, IsOf
    <3> QED BY <3>3, <3>4, <3>5 DEF PodOK
  <2> QED BY <2>2, <2>3
<1> QED BY <1>4, <1>5, <1>6

----
(* Relisting.                                                              *)

\* A lister that is free, or has begun with these pods.
Begun(l, pod, t) ==
    /\ l \in Lister /\ DOMAIN l.current = {} /\ l.todo = {} /\ l.at = {}
    /\ l.pc \in {"free", "list"} /\ l.ts \in {0, t} /\ (l.pc = "list" => l.ts = t)
    /\ l.full => l.pod = pod

LEMMA BeginsWith ==
    ASSUME NEW pod \in SUBSET PodIds, NEW t \in Times
    PROVE  /\ Begun([Free EXCEPT !.pc = "list", !.full = TRUE, !.pod = pod, !.ts = t], pod, t)
           /\ Begun([Free EXCEPT !.pc = "list", !.pod = pod, !.ts = t], pod, t)
           /\ [Free EXCEPT !.pc = "list", !.pod = pod, !.ts = t].full = FALSE
           /\ Begun(Free, pod, t) /\ Free.full = FALSE
<1> DEFINE none == [v \in {} |-> Gone]
<1>1. none \in UNION {[S -> States] : S \in SUBSET PodIds} /\ DOMAIN none = {}
  OBVIOUS
<1>2. 0 \in Times
  BY PlegAssumption DEF Times
<1>3. Free = [pc |-> "free", full |-> FALSE, pod |-> {}, ts |-> 0, current |-> none,
              todo |-> {}, at |-> {}, read |-> Gone]
  BY DEF Free
<1> HIDE DEF none
<1>4. Free \in Lister
  BY <1>1, <1>2, <1>3, ViewsAreNumbered DEF Lister
<1>5. /\ DOMAIN Free.current = {} /\ Free.todo = {} /\ Free.at = {} /\ Free.pc = "free"
      /\ Free.ts = 0 /\ Free.full = FALSE
  BY <1>1, <1>3
<1> DEFINE one == [Free EXCEPT !.pc = "list", !.pod = pod, !.ts = t]
<1> DEFINE all == [Free EXCEPT !.pc = "list", !.full = TRUE, !.pod = pod, !.ts = t]
<1>6. /\ one \in Lister /\ one.pc = "list" /\ one.pod = pod /\ one.ts = t
      /\ one.current = Free.current /\ one.todo = Free.todo /\ one.at = Free.at
      /\ one.full = Free.full
  BY <1>4 DEF Lister
<1>7. /\ all \in Lister /\ all.pc = "list" /\ all.pod = pod /\ all.ts = t
      /\ all.current = Free.current /\ all.todo = Free.todo /\ all.at = Free.at
  BY <1>4 DEF Lister
<1> HIDE DEF one, all
<1>8. Begun(one, pod, t) /\ Begun(all, pod, t) /\ Begun(Free, pod, t)
  BY <1>4, <1>5, <1>6, <1>7 DEF Begun
<1> QED BY <1>5, <1>6, <1>8 DEF one, all

\* The lister begins, or gives up.
LEMMA ListerStarts ==
    ASSUME PlegInv, NEW pod, Begun(lister', pod, now), lister'.full => pod = PodIds,
           lister.at = {}, requests' \subseteq requests,
           UNCHANGED <<now, runtime, old, reinspect, relistTime, cache, timestamp, syncer, recent>>
    PROVE  PlegInv'
<1> USE DEF PlegInv
<1>1. Typed'
  BY DEF Typed, Begun
<1>2. now \in Nat
  BY PlegAssumption DEF Typed, Times
<1>3. ListerOK'
  BY <1>2 DEF ListerOK, Listing, Begun
<1>4. ASSUME NEW u \in PodIds PROVE PodOK(u)'
  BY DEF PodOK, RuntimeOK, NewerOK, IsNewer, ListedOK, ReadOK, CachedOK, RecordOK, Listing, Begun
<1> QED BY <1>1, <1>3, <1>4

LEMMA StartRelistKeeps == ASSUME PlegInv, StartRelist PROVE PlegInv'
<1>1. now \in Times /\ lister.at = {}
  BY DEF PlegInv, Typed, ListerOK, StartRelist
<1>2. Begun(lister', PodIds, now)
  BY <1>1, BeginsWith DEF StartRelist
<1> QED BY <1>1, <1>2, ListerStarts DEF StartRelist

LEMMA StartRelistPodKeeps == ASSUME PlegInv, StartRelistPod PROVE PlegInv'
<1>1. now \in Times /\ lister.at = {}
  BY DEF PlegInv, Typed, ListerOK, StartRelistPod
<1>2. PICK r \in requests :
        /\ requests' = requests \ {r}
        /\ lister' = IF r.ts > relistTime
                     THEN [Free EXCEPT !.pc = "list", !.pod = {r.pod}, !.ts = now] ELSE Free
  BY DEF StartRelistPod
<1>3. {r.pod} \in SUBSET PodIds
  BY DEF PlegInv, Typed
<1>4. Begun(lister', {r.pod}, now)
  BY <1>1, <1>2, <1>3, BeginsWith
<1>5. lister'.full = FALSE
  BY <1>1, <1>2, <1>3, BeginsWith
<1> QED BY <1>1, <1>2, <1>4, <1>5, ListerStarts DEF StartRelistPod

LEMMA RelistFailsKeeps == ASSUME PlegInv, RelistFails PROVE PlegInv'
<1>1. now \in Times /\ lister.at = {}
  BY DEF PlegInv, Typed, ListerOK, RelistFails
<1>2. Begun(lister', PodIds, now)
  BY <1>1, BeginsWith DEF RelistFails
<1> QED BY <1>1, <1>2, ListerStarts DEF RelistFails

\* What is listed is what the runtime has.
LEMMA ListKeeps == ASSUME PlegInv, List PROVE PlegInv'
<1> USE DEF PlegInv
<1>1. /\ lister' = [lister EXCEPT !.pc = "reconcile", !.todo = lister.pod,
                                  !.current = [u \in lister.pod |-> runtime[u]]]
      /\ relistTime' \in {lister.ts, relistTime} /\ lister.pc = "list"
      /\ UNCHANGED <<now, runtime, old, requests, reinspect, cache, timestamp, syncer, recent>>
  BY DEF List
<1>2. lister \in Lister /\ lister.pod \subseteq PodIds
  BY DEF Typed, Lister
<1>3. [u \in lister.pod |-> runtime[u]] \in UNION {[S -> States] : S \in SUBSET PodIds}
  BY <1>2 DEF Typed
<1>4. /\ lister' \in Lister /\ lister'.pc = "reconcile" /\ lister'.todo = lister.pod
      /\ lister'.current = [u \in lister.pod |-> runtime[u]] /\ lister'.pod = lister.pod
      /\ lister'.ts = lister.ts /\ lister'.at = lister.at /\ lister'.full = lister.full
      /\ lister'.read = lister.read
  BY <1>1, <1>2, <1>3 DEF Lister
<1>5. Typed'
  BY <1>1, <1>4 DEF Typed, Lister
<1>6. lister'.at = {}
  BY <1>1, <1>4 DEF ListerOK
<1>7. ListerOK'
  BY <1>1, <1>4, <1>6 DEF ListerOK, Listing
<1>8. ASSUME NEW u \in PodIds PROVE PodOK(u)'
  <2>1. PodOK(u) /\ runtime[u].n \in Nat
    BY ViewsAreNumbered DEF Typed
  <2>2. u \in lister'.todo => lister'.current[u] = runtime[u]
    BY <1>4
  <2>3. RuntimeOK(u)' /\ NewerOK(u)'
    BY <1>1, <2>1 DEF PodOK, RuntimeOK, NewerOK, IsNewer
  <2>4. ListedOK(u)'
    BY <1>1, <2>1, <2>2 DEF PodOK, RuntimeOK, ListedOK, IsOf, Current
  <2>5. ReadOK(u)' /\ CachedOK(u)' /\ RecordOK(u)'
    BY <1>1, <1>4, <1>6, <2>1, <2>2 DEF PodOK, ReadOK, CachedOK, RecordOK, Listing, ListerOK, Current
  <2> QED BY <2>3, <2>4, <2>5 DEF PodOK
<1> QED BY <1>5, <1>7, <1>8

\* A pod is done with: the lister goes on with the others.
LEMMA ListerGoesOn ==
    ASSUME PlegInv, NEW u \in lister.todo, lister.at \subseteq {u}
    PROVE  LET l == Reconciled(u) IN
           /\ l \in Lister /\ l.pc = "reconcile" /\ l.todo = lister.todo \ {u} /\ l.at = {}
           /\ l.full = lister.full /\ l.pod = lister.pod /\ l.ts = lister.ts
           /\ l.current = lister.current /\ u \in PodIds /\ u \in lister.pod /\ Listing
<1>1. lister \in Lister /\ lister.todo \subseteq PodIds /\ Listing /\ lister.todo \subseteq lister.pod
  BY DEF PlegInv, Typed, Lister, ListerOK
<1> DEFINE l == Reconciled(u)
<1>2. /\ l \in Lister /\ l.pc = "reconcile" /\ l.todo = lister.todo \ {u} /\ l.at = {}
      /\ l.full = lister.full /\ l.pod = lister.pod /\ l.ts = lister.ts
      /\ l.current = lister.current
  BY <1>1, ViewsAreNumbered DEF Reconciled, Lister
<1> QED BY <1>1, <1>2

\* Then the others are as they were, and of the pod itself it remains to show what
\* is said of the record and of the cache.
LEMMA ReconciledKeeps ==
    ASSUME PlegInv, NEW u \in lister.todo, lister.at \subseteq {u}, lister' = Reconciled(u),
           Typed', cache'[u].modified <= now, cache'[u].observed <= now,
           IsOf(u, lister.ts, cache'[u].value), RecordOK(u)',
           syncer'[u].last = syncer[u].last, syncer'[u].since = syncer[u].since,
           syncer'[u].pc = "waiting" => ~IsNewer(u, syncer[u].last)',
           syncer'[u].pc = "syncing" => syncer'[u].answer \in syncer[u].since \cup {Error},
           IsNewer(u, syncer[u].last)' => cache'[u].value \in syncer[u].since \cup {Error},
           \A v \in PodIds \ {u} :
               /\ cache'[v] = cache[v] /\ old'[v] = old[v] /\ syncer'[v] = syncer[v]
               /\ v \in reinspect => v \in reinspect',
           UNCHANGED <<now, runtime, recent, timestamp>>
    PROVE  PlegInv'
<1> USE DEF PlegInv
<1>1. /\ lister' \in Lister /\ lister'.pc = "reconcile" /\ lister'.todo = lister.todo \ {u}
      /\ lister'.at = {} /\ lister'.full = lister.full /\ lister'.pod = lister.pod
      /\ lister'.ts = lister.ts /\ lister'.current = lister.current
      /\ u \in PodIds /\ u \in lister.pod /\ Listing
  BY ListerGoesOn
<1>2. ListerOK'
  BY <1>1 DEF ListerOK, Listing
<1>3. PodOK(u)'
  <2>1. PodOK(u)
    BY <1>1
  <2>2. RuntimeOK(u)'
    BY <2>1 DEF PodOK, RuntimeOK
  <2>3. ListedOK(u)' /\ ReadOK(u)'
    BY <1>1 DEF ListedOK, ReadOK
  <2>4. CachedOK(u)'
    BY <1>1 DEF CachedOK, IsOf
  <2>5. NewerOK(u)'
    BY DEF NewerOK, IsNewer
  <2> QED BY <2>2, <2>3, <2>4, <2>5 DEF PodOK
<1>4. ASSUME NEW v \in PodIds \ {u} PROVE PodOK(v)'
  <2>1. /\ PodOK(v) /\ cache'[v] = cache[v] /\ old'[v] = old[v] /\ syncer'[v] = syncer[v]
        /\ (v \in reinspect => v \in reinspect') /\ v \notin lister.at
    OBVIOUS
  <2>2. RuntimeOK(v)' /\ NewerOK(v)'
    BY <2>1 DEF PodOK, RuntimeOK, NewerOK, IsNewer
  <2>3. ListedOK(v)' /\ ReadOK(v)' /\ CachedOK(v)'
    BY <1>1, <2>1 DEF PodOK, ListedOK, ReadOK, CachedOK, IsOf, Current, Listing
  <2>4. RecordOK(v)'
    BY <1>1, <2>1 DEF PodOK, RecordOK, Current
  <2> QED BY <2>2, <2>3, <2>4 DEF PodOK
<1> QED BY <1>2, <1>3, <1>4

\* Nothing to tell: what is cached is what was listed, or it is an error and the pod
\* would have been inspected.
LEMMA UnchangedKeeps == ASSUME PlegInv, NEW u \in PodIds, Unchanged(u) PROVE PlegInv'
<1>1. /\ u \in lister.todo /\ lister.pc = "reconcile" /\ Current(u) = old[u] /\ u \notin reinspect
      /\ lister' = Reconciled(u)
      /\ UNCHANGED <<now, runtime, old, requests, reinspect, relistTime, cache, timestamp, syncer,
                     recent, failures>>
  BY DEF Unchanged
<1>2. lister.at = {} /\ PodOK(u)
  BY <1>1 DEF PlegInv, ListerOK
<1>3. cache[u].value = Current(u)
  BY <1>1, <1>2 DEF PodOK, RecordOK
<1>4. IsOf(u, lister.ts, cache[u].value)
  BY <1>1, <1>2, <1>3 DEF PodOK, ListedOK
<1>5. Typed'
  BY <1>1, <1>2, ListerGoesOn DEF PlegInv, Typed
<1>6. lister'.todo = lister.todo \ {u} /\ lister'.at = {}
  BY <1>1, <1>2, ListerGoesOn
<1>7. RecordOK(u)'
  BY <1>1, <1>2, <1>6 DEF PodOK, RecordOK
<1> QED BY <1>1, <1>2, <1>4, <1>5, <1>7, ReconciledKeeps DEF PodOK, NewerOK, IsNewer

\* The pod is gone, and so is all that was known of it.
LEMMA VanishedKeeps == ASSUME PlegInv, NEW u \in PodIds, Vanished(u) PROVE PlegInv'
<1>1. /\ u \in lister.todo /\ lister.pc = "reconcile" /\ Current(u) = Gone
      /\ cache' = [cache EXCEPT ![u] = NoData] /\ old' = [old EXCEPT ![u] = Gone]
      /\ reinspect' = reinspect \ {u} /\ lister' = Reconciled(u)
      /\ UNCHANGED <<now, runtime, requests, relistTime, timestamp, syncer, recent, failures>>
  BY DEF Vanished
<1>2. lister.at = {} /\ PodOK(u) /\ Typed
  BY <1>1 DEF PlegInv, ListerOK
<1>3. /\ cache'[u] = NoData /\ old'[u] = Gone
      /\ \A v \in PodIds \ {u} : cache'[v] = cache[v] /\ old'[v] = old[v]
  BY <1>1, <1>2 DEF Typed
<1>4. /\ NoData \in Entry /\ NoData.value = Gone /\ NoData.has = FALSE
      /\ NoData.modified = 0 /\ NoData.observed = 0
  BY PlegAssumption, ViewsAreNumbered DEF NoData, Entry, Times
<1>5. IsOf(u, lister.ts, Gone)
  BY <1>1, <1>2 DEF PodOK, ListedOK
<1>6. Typed'
  <2>1. lister' \in Lister
    BY <1>1, <1>2, ListerGoesOn
  <2>2. cache' \in [PodIds -> Entry] /\ old' \in [PodIds -> States]
    BY <1>1, <1>2, <1>4, ViewsAreNumbered DEF Typed
  <2> QED BY <1>1, <1>2, <2>1, <2>2 DEF Typed
<1>7. RecordOK(u)'
  BY <1>3, <1>4, ViewsAreNumbered DEF RecordOK
<1>8. now \in Nat /\ timestamp \in Nat /\ syncer[u].last \in Nat /\ lister.ts \in Nat
  BY <1>2 DEF Typed, Times, Subscriber, Lister
<1>9. IsNewer(u, syncer[u].last)' <=> timestamp > syncer[u].last
  BY <1>1, <1>3, <1>4 DEF IsNewer
<1>10. timestamp <= lister.ts
  BY <1>1 DEF PlegInv, ListerOK
<1>11. IsNewer(u, syncer[u].last)' => Gone \in syncer[u].since \cup {Error}
  BY <1>5, <1>8, <1>9, <1>10 DEF IsOf
<1>12. /\ syncer[u].pc = "waiting" => ~IsNewer(u, syncer[u].last)'
       /\ syncer[u].pc = "syncing" => syncer[u].answer \in syncer[u].since \cup {Error}
  BY <1>2, <1>9 DEF PodOK, NewerOK, IsNewer
<1> QED BY <1>1, <1>2, <1>3, <1>4, <1>5, <1>6, <1>7, <1>8, <1>11, <1>12, ReconciledKeeps

\* What is read is what the runtime has: what was listed, or something later.
LEMMA InspectKeeps == ASSUME PlegInv, NEW u \in PodIds, Inspect(u) PROVE PlegInv'
<1> USE DEF PlegInv
<1>1. PICK v \in {runtime[u], Error} :
        /\ lister' = [lister EXCEPT !.pc = "set", !.at = {u}, !.read = v]
        /\ reinspect' = reinspect \ {u}
        /\ u \in lister.todo /\ lister.pc = "reconcile" /\ Current(u) # Gone
        /\ UNCHANGED <<now, runtime, old, requests, relistTime, cache, timestamp, syncer, recent>>
  BY DEF Inspect
<1>2. lister.at = {} /\ lister \in Lister /\ v \in Views
  BY <1>1, ViewsAreNumbered DEF ListerOK, Typed
<1>3. /\ lister' \in Lister /\ lister'.pc = "set" /\ lister'.at = {u} /\ lister'.read = v
      /\ lister'.full = lister.full /\ lister'.pod = lister.pod /\ lister'.ts = lister.ts
      /\ lister'.current = lister.current /\ lister'.todo = lister.todo
  BY <1>1, <1>2 DEF Lister
<1>4. Typed'
  BY <1>1, <1>3 DEF Typed
<1>5. ListerOK'
  BY <1>1, <1>3 DEF ListerOK, Listing
<1>6. ASSUME NEW w \in PodIds PROVE PodOK(w)'
  <2>1. PodOK(w) /\ (w \in lister'.at => w = u) /\ w \notin lister.at
    BY <1>2, <1>3
  <2>2. RuntimeOK(w)' /\ NewerOK(w)'
    BY <1>1, <2>1 DEF PodOK, RuntimeOK, NewerOK, IsNewer
  <2>3. ListedOK(w)' /\ CachedOK(w)'
    BY <1>1, <1>3, <2>1 DEF PodOK, ListedOK, CachedOK, IsOf, Current, Listing
  <2>4. ReadOK(w)'
    BY <1>1, <1>3, <2>1 DEF PodOK, RuntimeOK, ListedOK, ReadOK, IsOf, Current
  <2>5. RecordOK(w)'
    BY <1>1, <1>3, <2>1 DEF PodOK, RecordOK, Current
  <2> QED BY <2>2, <2>3, <2>4, <2>5 DEF PodOK
<1> QED BY <1>4, <1>5, <1>6

\* Who is notified syncs with what the data say; nobody else changes.
LEMMA NotifiedAre ==
    ASSUME Typed, NEW us, NEW data, NEW t, NEW ws, ws = Notified(syncer, us, data, t),
           us \in SUBSET PodIds, data \in [PodIds -> Entry], t \in Times
    PROVE  /\ ws \in [PodIds -> Subscriber]
           /\ \A u \in PodIds :
                /\ ws[u].last = syncer[u].last /\ ws[u].since = syncer[u].since
                /\ u \notin us => ws[u] = syncer[u]
                /\ ws[u].pc = "waiting" => syncer[u].pc = "waiting" /\ (u \in us => t < syncer[u].last)
                /\ ws[u].pc = "syncing" =>
                     \/ syncer[u].pc = "syncing" /\ ws[u].answer = syncer[u].answer
                     \/ u \in us /\ t >= syncer[u].last /\ ws[u].answer = data[u].value
<1> DEFINE told(u) == [syncer[u] EXCEPT !.pc = "syncing", !.answer = data[u].value]
<1>1. ASSUME NEW u \in PodIds
      PROVE  /\ told(u) \in Subscriber /\ told(u).last = syncer[u].last
             /\ told(u).since = syncer[u].since /\ told(u).pc = "syncing"
             /\ told(u).answer = data[u].value
             /\ syncer[u] \in Subscriber
  <2>1. syncer[u] \in Subscriber /\ data[u].value \in Views
    BY DEF Typed, Entry
  <2> QED BY <2>1 DEF Subscriber
<1>2. ws = [u \in PodIds |-> IF u \in us /\ syncer[u].pc = "waiting" /\ ~(t < syncer[u].last)
                             THEN told(u) ELSE syncer[u]]
  BY DEF Notified
<1> HIDE DEF told
<1>3. ws \in [PodIds -> Subscriber]
  BY <1>1, <1>2
<1>4. \A u \in PodIds : syncer[u].last \in Nat /\ t \in Nat
  BY DEF Typed, Subscriber, Times
<1>5. ASSUME NEW u \in PodIds
      PROVE  /\ ws[u].last = syncer[u].last /\ ws[u].since = syncer[u].since
             /\ u \notin us => ws[u] = syncer[u]
             /\ ws[u].pc = "waiting" => syncer[u].pc = "waiting" /\ (u \in us => t < syncer[u].last)
             /\ ws[u].pc = "syncing" =>
                     \/ syncer[u].pc = "syncing" /\ ws[u].answer = syncer[u].answer
                     \/ u \in us /\ t >= syncer[u].last /\ ws[u].answer = data[u].value
  <2>1. CASE u \in us /\ syncer[u].pc = "waiting" /\ ~(t < syncer[u].last)
    BY <1>1, <1>2, <1>4, <2>1
  <2>2. CASE ~(u \in us /\ syncer[u].pc = "waiting" /\ ~(t < syncer[u].last))
    BY <1>1, <1>2, <2>2, <1>4
  <2> QED BY <2>1, <2>2
<1> QED BY <1>3, <1>5

\* What was read is what the cache says from now on: to those who wait for it too.
LEMMA SetCacheKeeps == ASSUME PlegInv, SetCache PROVE PlegInv'
<1>1. PICK u \in lister.at :
        /\ cache' = [cache EXCEPT ![u] = [has |-> TRUE, value |-> lister.read,
                                          modified |-> lister.ts, observed |-> lister.ts]]
        /\ syncer' = Notified(syncer, {u}, cache', lister.ts)
        /\ IF lister.read = Error
           THEN reinspect' = reinspect \cup {u} /\ UNCHANGED old
           ELSE old' = [old EXCEPT ![u] = Current(u)] /\ UNCHANGED reinspect
        /\ lister' = Reconciled(u)
        /\ UNCHANGED <<now, runtime, requests, relistTime, timestamp, recent, failures>>
  BY DEF SetCache
<1>2. Typed /\ ListerOK /\ lister.at = {u} /\ u \in lister.todo
  BY DEF PlegInv, ListerOK
<1>3. /\ lister' \in Lister /\ u \in PodIds /\ u \in lister.pod /\ Listing
      /\ lister'.todo = lister.todo \ {u} /\ lister'.at = {}
  BY <1>1, <1>2, ListerGoesOn
<1>4. PodOK(u) /\ lister.pc = "set" /\ Current(u) \in States
  BY <1>2, <1>3 DEF PlegInv, ListerOK, Typed, Lister, Current
<1>5. /\ lister.ts \in Nat /\ lister.ts \in Times /\ lister.read \in Views /\ timestamp \in Nat
      /\ now \in Nat /\ timestamp <= lister.ts /\ lister.ts <= now /\ syncer[u].last \in Nat
  BY <1>2, <1>3, <1>4 DEF Typed, Lister, Times, ListerOK, Subscriber
<1>6. /\ cache' \in [PodIds -> Entry] /\ cache'[u].has = TRUE /\ cache'[u].value = lister.read
      /\ cache'[u].modified = lister.ts /\ cache'[u].observed = lister.ts
      /\ \A v \in PodIds \ {u} : cache'[v] = cache[v]
  BY <1>1, <1>2, <1>3, <1>5 DEF Typed, Entry
<1>7. /\ syncer' \in [PodIds -> Subscriber]
      /\ \A v \in PodIds \ {u} : syncer'[v] = syncer[v]
      /\ syncer'[u].last = syncer[u].last /\ syncer'[u].since = syncer[u].since
      /\ syncer'[u].pc = "waiting" => lister.ts < syncer[u].last
      /\ syncer'[u].pc = "syncing" =>
           \/ syncer[u].pc = "syncing" /\ syncer'[u].answer = syncer[u].answer
           \/ lister.ts >= syncer[u].last /\ syncer'[u].answer = lister.read
  <2> DEFINE c == cache' ws == syncer' us == {u} t == lister.ts
  <2>1. /\ us \in SUBSET PodIds /\ c \in [PodIds -> Entry] /\ t \in Times
        /\ ws = Notified(syncer, us, c, t)
    BY <1>1, <1>3, <1>5, <1>6
  <2>2. u \in us /\ c[u].value = lister.read /\ t = lister.ts /\ \A v \in PodIds \ {u} : v \notin us
    BY <1>6
  <2> HIDE DEF c, ws, us, t
  <2>3. /\ ws \in [PodIds -> Subscriber]
        /\ \A v \in PodIds :
             /\ ws[v].last = syncer[v].last /\ ws[v].since = syncer[v].since
             /\ v \notin us => ws[v] = syncer[v]
             /\ ws[v].pc = "waiting" =>
                  syncer[v].pc = "waiting" /\ (v \in us => t < syncer[v].last)
             /\ ws[v].pc = "syncing" =>
                  \/ syncer[v].pc = "syncing" /\ ws[v].answer = syncer[v].answer
                  \/ v \in us /\ t >= syncer[v].last /\ ws[v].answer = c[v].value
    BY <1>2, <2>1, NotifiedAre
  <2> QED BY <1>3, <2>2, <2>3 DEF ws
<1>8. IsOf(u, lister.ts, lister.read) /\ IsOf(u, lister.ts, cache'[u].value)
  BY <1>4, <1>6, <1>2 DEF PodOK, ReadOK
<1>9. /\ old' \in [PodIds -> States] /\ reinspect' \subseteq PodIds
      /\ \A v \in PodIds \ {u} : old'[v] = old[v] /\ (v \in reinspect => v \in reinspect')
      /\ lister.read = Error => old'[u] = old[u] /\ u \in reinspect'
      /\ lister.read # Error => old'[u] = Current(u)
  BY <1>1, <1>2, <1>3, <1>4 DEF Typed
<1>10. Typed'
  BY <1>1, <1>2, <1>3, <1>6, <1>7, <1>9 DEF Typed
<1>11. RecordOK(u)'
  BY <1>1, <1>2, <1>3, <1>4, <1>6, <1>9 DEF PodOK, ReadOK, RecordOK
<1>12. IsNewer(u, syncer[u].last)' <=> lister.ts > syncer[u].last
  <2>1. timestamp' = timestamp /\ syncer'[u].last = syncer[u].last
    BY <1>1, <1>7
  <2>2. /\ cache'[u].has /\ cache'[u].modified = lister.ts /\ cache'[u].observed = lister.ts
    BY <1>6
  <2> QED BY <1>5, <2>1, <2>2 DEF IsNewer
<1>13. /\ syncer'[u].pc = "waiting" => ~IsNewer(u, syncer[u].last)'
       /\ syncer'[u].pc = "syncing" => syncer'[u].answer \in syncer[u].since \cup {Error}
       /\ IsNewer(u, syncer[u].last)' => cache'[u].value \in syncer[u].since \cup {Error}
  BY <1>4, <1>5, <1>6, <1>7, <1>8, <1>12 DEF IsOf, PodOK, NewerOK
<1>14. cache'[u].modified <= now /\ cache'[u].observed <= now
  BY <1>5, <1>6
<1> QED BY <1>1, <1>2, <1>6, <1>7, <1>8, <1>9, <1>10, <1>11, <1>13, <1>14, ReconciledKeeps

\* The time of the relist is now the time of what it listed: of all the pods, or of
\* those that were asked for.
LEMMA DoneKeeps == ASSUME PlegInv, Done PROVE PlegInv'
<1>1. /\ lister.pc = "reconcile" /\ lister.todo = {} /\ lister' = Free
      /\ timestamp' = IF lister.full THEN lister.ts ELSE timestamp
      /\ cache' = IF lister.full THEN cache
                  ELSE [u \in PodIds |-> IF u \in lister.pod /\ cache[u].has
                                         THEN [cache[u] EXCEPT !.observed = lister.ts] ELSE cache[u]]
      /\ syncer' = Notified(syncer, lister.pod, cache, lister.ts)
      /\ UNCHANGED <<now, runtime, old, requests, reinspect, relistTime, recent, failures>>
  BY DEF Done
<1>2. Typed /\ ListerOK /\ lister.at = {}
  BY <1>1 DEF PlegInv, ListerOK
<1>3. /\ lister.pod \in SUBSET PodIds /\ lister.ts \in Times /\ now \in Times /\ lister.ts <= now
      /\ timestamp <= lister.ts /\ now \in Nat /\ lister.ts \in Nat /\ timestamp \in Nat
      /\ lister.full => lister.pod = PodIds
  BY <1>1, <1>2 DEF Typed, Lister, ListerOK, Times
<1>4. Begun(lister', PodIds, now) /\ lister'.pc = "free" /\ lister'.full = FALSE
  BY <1>1, <1>3, BeginsWith DEF Free
<1>5. /\ syncer' \in [PodIds -> Subscriber]
      /\ \A u \in PodIds :
           /\ syncer'[u].last = syncer[u].last /\ syncer'[u].since = syncer[u].since
           /\ u \notin lister.pod => syncer'[u] = syncer[u]
           /\ syncer'[u].pc = "waiting" =>
                syncer[u].pc = "waiting" /\ (u \in lister.pod => lister.ts < syncer[u].last)
           /\ syncer'[u].pc = "syncing" =>
                \/ syncer[u].pc = "syncing" /\ syncer'[u].answer = syncer[u].answer
                \/ u \in lister.pod /\ lister.ts >= syncer[u].last /\ syncer'[u].answer = cache[u].value
  <2> DEFINE ws == syncer' us == lister.pod t == lister.ts
  <2>1. /\ us \in SUBSET PodIds /\ cache \in [PodIds -> Entry] /\ t \in Times
        /\ ws = Notified(syncer, us, cache, t)
    BY <1>1, <1>2, <1>3 DEF Typed
  <2> HIDE DEF ws, us, t
  <2>2. /\ ws \in [PodIds -> Subscriber]
        /\ \A u \in PodIds :
             /\ ws[u].last = syncer[u].last /\ ws[u].since = syncer[u].since
             /\ u \notin us => ws[u] = syncer[u]
             /\ ws[u].pc = "waiting" =>
                  syncer[u].pc = "waiting" /\ (u \in us => t < syncer[u].last)
             /\ ws[u].pc = "syncing" =>
                  \/ syncer[u].pc = "syncing" /\ ws[u].answer = syncer[u].answer
                  \/ u \in us /\ t >= syncer[u].last /\ ws[u].answer = cache[u].value
    BY <1>2, <2>1, NotifiedAre
  <2> QED BY <2>2 DEF ws, us, t
<1>6. ASSUME NEW u \in PodIds
      PROVE  /\ cache'[u] \in Entry /\ cache'[u].has = cache[u].has
             /\ cache'[u].value = cache[u].value /\ cache'[u].modified = cache[u].modified
             /\ cache'[u].observed = cache[u].observed
                \/ (u \in lister.pod /\ cache'[u].observed = lister.ts)
  <2>1. cache[u] \in Entry
    BY <1>2 DEF Typed
  <2>2. cache'[u] \in {cache[u], [cache[u] EXCEPT !.observed = lister.ts]}
    BY <1>1
  <2>3. CASE cache'[u] = cache[u]
    BY <2>1, <2>3
  <2>4. CASE cache'[u] # cache[u]
    <3>1. u \in lister.pod /\ cache'[u] = [cache[u] EXCEPT !.observed = lister.ts]
      BY <1>1, <2>4
    <3> QED BY <1>3, <2>1, <3>1 DEF Entry
  <2> QED BY <2>3, <2>4
<1>7. Typed'
  <2>1. cache' \in [PodIds -> Entry]
    <3>1. cache' = [u \in PodIds |-> cache'[u]]
      BY <1>1, <1>2 DEF Typed
    <3> QED BY <1>6, <3>1
  <2>2. lister' \in Lister /\ timestamp' \in Times
    BY <1>1, <1>2, <1>3, <1>4 DEF Begun, Typed
  <2> QED BY <1>1, <1>2, <1>5, <2>1, <2>2 DEF Typed
<1>8. ListerOK'
  BY <1>1, <1>3, <1>4 DEF ListerOK, Listing, Begun
<1>9. ASSUME NEW u \in PodIds PROVE PodOK(u)'
  <2>1. /\ PodOK(u) /\ syncer[u].last \in Nat
        /\ cache[u].modified \in Nat /\ cache[u].observed \in Nat
    BY <1>2 DEF PlegInv, Typed, Subscriber, Entry, Times
  <2>2. RuntimeOK(u)'
    BY <1>1, <1>5, <2>1 DEF PodOK, RuntimeOK
  <2>3. ListedOK(u)' /\ ReadOK(u)' /\ CachedOK(u)'
    BY <1>4 DEF ListedOK, ReadOK, CachedOK, Listing, Begun
  <2>4. RecordOK(u)'
    BY <1>1, <1>2, <1>4, <1>6, <2>1 DEF PodOK, RecordOK, Begun
  <2>5. u \in lister.pod /\ lister.ts >= syncer[u].last =>
          cache[u].value \in syncer[u].since \cup {Error}
    BY <1>1, <2>1 DEF PodOK, CachedOK, IsOf, Listing
  <2>6. IsNewer(u, syncer[u].last)' =>
          IsNewer(u, syncer[u].last) \/ (u \in lister.pod /\ lister.ts > syncer[u].last)
    BY <1>1, <1>3, <1>5, <1>6, <2>1 DEF IsNewer
  <2>7. NewerOK(u)'
    <3>1. cache'[u].modified <= now' /\ cache'[u].observed <= now'
      BY <1>1, <1>3, <1>6, <2>1 DEF PodOK, NewerOK
    <3>2. IsNewer(u, syncer[u].last)' => cache'[u].value \in syncer'[u].since \cup {Error}
      BY <1>3, <1>5, <1>6, <2>1, <2>5, <2>6 DEF PodOK, NewerOK
    <3>3. syncer'[u].pc = "waiting" => ~IsNewer(u, syncer[u].last)'
      BY <1>3, <1>5, <2>1, <2>6 DEF PodOK, NewerOK
    <3>4. syncer'[u].pc = "syncing" => syncer'[u].answer \in syncer'[u].since \cup {Error}
      BY <1>5, <2>1, <2>5 DEF PodOK, NewerOK
    <3> QED BY <3>1, <3>2, <3>3, <3>4 DEF NewerOK
  <2> QED BY <2>2, <2>3, <2>4, <2>7 DEF PodOK
<1> QED BY <1>7, <1>8, <1>9 DEF PlegInv

----
(* The theorem.                                                            *)

LEMMA PlegStarts == PlegInit => PlegInv
<1> SUFFICES ASSUME PlegInit PROVE PlegInv
  OBVIOUS
<1>1. 0 \in Times /\ 1 \in Times /\ 0 \in Nat
  BY PlegAssumption DEF Times
<1>2. Begun(Free, PodIds, 1) /\ Free.pc = "free" /\ Free.full = FALSE
  BY <1>1, BeginsWith DEF Free
<1>3. /\ NewWorker \in Subscriber /\ NewWorker.pc = "idle" /\ NewWorker.last = 0
      /\ NewWorker.since = {Gone}
  BY <1>1, ViewsAreNumbered DEF NewWorker, Subscriber
<1>4. /\ NoData \in Entry /\ NoData.value = Gone /\ NoData.has = FALSE
      /\ NoData.modified = 0 /\ NoData.observed = 0
  BY <1>1, ViewsAreNumbered DEF NoData, Entry
<1>5. Typed
  BY <1>1, <1>2, <1>3, <1>4, ViewsAreNumbered DEF PlegInit, Typed, Begun
<1>6. ListerOK
  BY <1>1, <1>2 DEF PlegInit, ListerOK, Listing, Begun
<1>7. ASSUME NEW u \in PodIds PROVE PodOK(u)
  <2>1. syncer[u] = NewWorker /\ cache[u] = NoData /\ old[u] = Gone /\ runtime[u] = Gone
        /\ recent[u] = {Gone} /\ timestamp = 0 /\ now = 1 /\ lister = Free
    BY DEF PlegInit
  <2>2. RuntimeOK(u) /\ NewerOK(u)
    BY <1>3, <1>4, <2>1 DEF RuntimeOK, NewerOK, IsNewer
  <2>3. ListedOK(u) /\ ReadOK(u) /\ CachedOK(u) /\ RecordOK(u)
    BY <1>2, <1>4, <2>1, ViewsAreNumbered
    DEF ListedOK, ReadOK, CachedOK, RecordOK, Listing, Begun
  <2> QED BY <2>2, <2>3 DEF PodOK
<1> QED BY <1>5, <1>6, <1>7 DEF PlegInv

LEMMA PlegKeeps == PlegInv /\ [PlegNext]_plegVars => PlegInv'
<1> SUFFICES ASSUME PlegInv, [PlegNext]_plegVars PROVE PlegInv'
  OBVIOUS
<1>1. CASE PlegNext
  <2>1. ASSUME NEW u \in PodIds,
               \/ ContainersStart(u) \/ ContainersEnd(u) \/ ContainersRemoved(u)
               \/ Ask(u) \/ Cancelled(u) \/ SyncEnds(u) \/ SyncThrows(u)
               \/ Unchanged(u) \/ Vanished(u) \/ Inspect(u)
        PROVE  PlegInv'
    BY <2>1, ContainersKeep, AskKeeps, StopsKeep, SyncEndsKeeps, UnchangedKeeps, VanishedKeeps,
       InspectKeeps
  <2>2. CASE \/ Tick \/ StartRelist \/ StartRelistPod \/ List \/ RelistFails \/ SetCache \/ Done
    BY <2>2, TickKeeps, StartRelistKeeps, StartRelistPodKeeps, ListKeeps, RelistFailsKeeps,
       SetCacheKeeps, DoneKeeps
  <2> QED BY <1>1, <2>1, <2>2 DEF PlegNext
<1>2. CASE UNCHANGED plegVars
  <2>1. UNCHANGED <<now, runtime, old, lister, requests, reinspect, relistTime, cache, timestamp,
                    syncer, recent>>
    BY <1>2 DEF plegVars
  <2>2. Typed' /\ ListerOK'
    BY <2>1 DEF PlegInv, Typed, ListerOK, Listing
  <2>3. ASSUME NEW u \in PodIds PROVE PodOK(u)'
    BY <2>1 DEF PlegInv, PodOK, RuntimeOK, NewerOK, IsNewer, ListedOK, ReadOK, CachedOK, RecordOK,
                Listing, Current, IsOf
  <2> QED BY <2>2, <2>3 DEF PlegInv
<1> QED BY <1>1, <1>2

LEMMA PlegInvIsEnough == PlegInv => PlegIsSound
<1> SUFFICES ASSUME PlegInv PROVE PlegIsSound
  OBVIOUS
<1>1. PlegTypeOK
  <2>1. \A u \in PodIds : runtime[u] \in States /\ old[u] \in States /\ cache[u].value \in Views
    BY DEF PlegInv, Typed, Entry
  <2>2. /\ lister.pc \in {"free", "list", "reconcile", "set"} /\ lister.ts \in Times
        /\ now \in Times /\ relistTime \in Times /\ timestamp \in Times /\ reinspect \subseteq PodIds
    BY DEF PlegInv, Typed, Lister
  <2> QED BY <2>1, <2>2 DEF PlegTypeOK, States, Views, Times
<1>2. FreshEnough /\ CacheBeforeEvents /\ NobodyMissed
  BY DEF PlegInv, PodOK, NewerOK, RecordOK, FreshEnough, CacheBeforeEvents, NobodyMissed
<1> QED BY <1>1, <1>2 DEF PlegIsSound

\* A pod worker never syncs with a status older than the end of its last sync (but
\* for the millisecond, or an error); the cache is never behind the record that events
\* were computed from, and a status that could not be read will be read again; and no
\* worker waits for a status that the cache has.
THEOREM PlegSoundness == PlegSpec => []PlegIsSound
<1> HIDE DEF PlegInv
<1>1. PlegSpec => []PlegInv
  BY PlegStarts, PlegKeeps, PTL DEF PlegSpec
<1> QED BY <1>1, PlegInvIsEnough, PTL

----
(* StatusManager.  From what the API server shows of a pod to what the     *)
(* sender holds of it to what is set of it, what has ended stays so        *)
(* (EndsStay).  StatusInv says so of the settings in the sender's hands    *)
(* too (TodoFollows, SendsWhatIs), and that a pod whose status was         *)
(* forgotten is gone from the API server for good, as pods are numbered in *)
(* order (InOrder).                                                        *)

StatusStages ==
  {"none", "new", "sync", "terminating", "killing", "killed", "terminated", "finished"}
Phases   == {"Pending", "Running"} \cup Terminals
Statuses == [phase : Phases, ctr : {"none", "waiting", "running", "terminated"},
             ready : BOOLEAN, cond : BOOLEAN]
Settings == [version : Nat, status : Statuses, finished : BOOLEAN]
Copies   == [uid : 0 .. MaxPods, deleting : BOOLEAN, status : Statuses]
Drafts   == [made : BOOLEAN, status : Statuses, stage : StatusStages]
OnNode   == [stage : StatusStages, ctr : {"waiting", "running", "terminated"}, probe : BOOLEAN,
             results : Seq(BOOLEAN), draft : Drafts]
Senders  == [pc : {"idle", "next", "patch", "delete"}, todo : SUBSET (PodUids \X Settings),
             uid : 0 .. MaxPods, set : Settings, pod : Copies, ran : BOOLEAN]

StatusTyped ==
    /\ api \in Copies /\ known \in Copies /\ node \in [PodUids -> OnNode]
    /\ podStatuses \in [PodUids -> Settings] /\ apiStatusVersions \in [PodUids -> Nat]
    /\ sender \in Senders

\* What the pod's worker is at, and what was set of it before it began.
Unstarted(u) == node[u].stage \in {"none", "new"}

InOrder ==
    /\ \E n \in 0 .. MaxPods : \A u \in PodUids : node[u].stage # "none" <=> u <= n
    /\ \A u \in PodUids : u \in {api.uid, known.uid} => node[u].stage # "none"
    /\ \A u \in PodUids : u = api.uid /\ u # known.uid => node[u].stage = "new"

DraftsFit == \A u \in PodUids :
    /\ Unstarted(u) => node[u].results = <<>>
    /\ node[u].draft.made =>
         /\ node[u].draft.stage = "sync" => node[u].stage \in {"sync", "terminating"}
         /\ node[u].draft.stage \in {"sync", "terminating", "killed"}
         /\ node[u].draft.stage # "sync" => node[u].stage = node[u].draft.stage

\* Ready says that the container is.
Fair(s) == s.cond => s.ready
StatusesFair ==
    /\ Fair(api.status) /\ Fair(known.status)
    /\ \A u \in PodUids : Fair(podStatuses[u].status) /\ Fair(node[u].draft.status)

\* What was set of a pod, now or when the sender took it.
GoodSetting(stage, set) ==
    /\ Fair(set.status)
    /\ set.version = 0 => set = Unset
    /\ set.version # 0 => stage \notin {"none", "new"}
    /\ set.finished => stage = "finished" /\ set.status.ctr = "terminated"

\* A pod that has ended, or a container, is not followed by one that has not.
EndsStay(before, new) ==
    /\ before.phase \in Terminals => new.phase = before.phase
    /\ before.ctr = "terminated" => new.ctr = "terminated"

PhaseKept(before, new) == before.phase \in Terminals => new.phase = before.phase

SetFollows ==
    /\ \A u \in PodUids :
         /\ GoodSetting(node[u].stage, podStatuses[u])
         /\ node[u].draft.made => PhaseKept(podStatuses[u].status, node[u].draft.status)
         /\ api.uid = u => EndsStay(api.status, podStatuses[u].status)
    /\ known.uid = api.uid /\ api.uid \in PodUids => EndsStay(known.status, api.status)

Between(u, set) ==
    api.uid = u => EndsStay(api.status, set.status) /\ EndsStay(set.status, podStatuses[u].status)

TodoFollows ==
    /\ \A t \in sender.todo :
         /\ t[2].version # 0 /\ GoodSetting(node[t[1]].stage, t[2]) /\ Between(t[1], t[2])
         /\ sender.pc \in {"patch", "delete"} => t[1] # sender.uid
    /\ \A t, o \in sender.todo : t[1] = o[1] => t = o

Stopped(u) == ~CouldHaveRunningContainers(u)
TerminalStopped(u, s) == s.phase \in Terminals => Stopped(u)

SendsWhatIs ==
    /\ sender.pc \in {"patch", "delete"} =>
         /\ sender.uid \in PodUids /\ sender.set.version # 0
         /\ GoodSetting(node[sender.uid].stage, sender.set)
    /\ sender.pc = "patch" =>
         /\ sender.pod.uid = sender.uid /\ Fair(sender.pod.status)
         /\ TerminalStopped(sender.uid, sender.pod.status)
         /\ ~sender.ran => Stopped(sender.uid)
         /\ Between(sender.uid, sender.set)
         /\ api.uid = sender.uid => /\ api.status = sender.pod.status
                                    /\ sender.pod.deleting => api.deleting
    /\ sender.pc = "delete" /\ api.uid = sender.uid =>
         /\ node[sender.uid].stage = "finished" /\ api.status.ctr = "terminated"
         /\ api.status.phase \in Terminals

StatusInv ==
    /\ StatusTyped /\ InOrder /\ DraftsFit /\ StatusesFair /\ SetFollows /\ TodoFollows
    /\ SendsWhatIs /\ TerminalIsTrue

----
(* Initially.                                                              *)

LEMMA StatusConstants ==
    /\ Blank \in Statuses /\ Fair(Blank) /\ Blank.phase = "Pending" /\ Blank.ctr = "none" /\ ~Blank.cond
    /\ Unset \in Settings /\ Unset.status = Blank /\ Unset.version = 0 /\ ~Unset.finished
    /\ NoApiPod \in Copies /\ NoApiPod.status = Blank /\ NoApiPod.uid = 0 /\ ~NoApiPod.deleting
    /\ NoDraft \in Drafts /\ ~NoDraft.made /\ NoDraft.status = Blank
    /\ NotStarted \in OnNode /\ NotStarted.stage = "none" /\ NotStarted.draft = NoDraft
    /\ Waiting \in Senders /\ Waiting.pc = "idle" /\ Waiting.todo = {}
<1>1. Blank \in Statuses /\ Fair(Blank) /\ Blank.phase = "Pending" /\ Blank.ctr = "none" /\ ~Blank.cond
  BY DEF Blank, Statuses, Fair, Phases
<1>2. Unset \in Settings /\ Unset.status = Blank /\ Unset.version = 0 /\ ~Unset.finished
  BY <1>1 DEF Unset, Settings
<1>3. 0 \in 0 .. MaxPods
  BY StatusAssumption
<1>4. NoApiPod \in Copies /\ NoApiPod.status = Blank /\ NoApiPod.uid = 0 /\ ~NoApiPod.deleting
  BY <1>1, <1>3 DEF NoApiPod, Copies
<1>5. NoDraft \in Drafts /\ ~NoDraft.made /\ NoDraft.status = Blank
  BY <1>1 DEF NoDraft, Drafts, StatusStages
<1>6. <<>> \in Seq(BOOLEAN)
  OBVIOUS
<1>7. NotStarted \in OnNode /\ NotStarted.stage = "none" /\ NotStarted.draft = NoDraft
  BY <1>5, <1>6 DEF NotStarted, OnNode, StatusStages
<1>8. Waiting \in Senders /\ Waiting.pc = "idle" /\ Waiting.todo = {}
  <2>1. {} \in SUBSET (PodUids \X Settings)
    OBVIOUS
  <2> QED BY <1>2, <1>3, <1>4, <2>1 DEF Waiting, Senders
<1> QED BY <1>1, <1>2, <1>4, <1>5, <1>7, <1>8

LEMMA StatusStarts == StatusInit => StatusInv
<1> SUFFICES ASSUME StatusInit PROVE StatusInv
  OBVIOUS
<1>1. \A u \in PodUids : /\ node[u] = NotStarted /\ podStatuses[u] = Unset
                         /\ node[u].stage = "none" /\ ~node[u].draft.made /\ node[u].draft.status = Blank
                         /\ u # 0
  BY StatusConstants, StatusAssumption DEF StatusInit, PodUids
<1>2. api.uid = 0 /\ known.uid = 0 /\ api.status = Blank /\ known.status = Blank
  BY StatusConstants DEF StatusInit
<1>3. sender.todo = {} /\ sender.pc = "idle"
  BY StatusConstants DEF StatusInit
<1>4. StatusTyped
  BY StatusConstants DEF StatusInit, StatusTyped
<1>5. InOrder
  <2>1. 0 \in 0 .. MaxPods /\ \A u \in PodUids : node[u].stage # "none" <=> u <= 0
    BY <1>1, StatusAssumption DEF PodUids
  <2> QED BY <1>1, <1>2, <2>1 DEF InOrder
<1>6. DraftsFit /\ StatusesFair
  <2>1. \A u \in PodUids : node[u].results = <<>>
    BY <1>1 DEF NotStarted
  <2> QED BY <1>1, <1>2, <2>1, StatusConstants DEF DraftsFit, StatusesFair
<1>7. SetFollows
  <2>1. \A u \in PodUids : GoodSetting(node[u].stage, podStatuses[u])
    BY <1>1, StatusConstants DEF GoodSetting, Fair
  <2>2. EndsStay(known.status, api.status)
    BY <1>2 DEF EndsStay
  <2> QED BY <1>1, <1>2, <2>1, <2>2 DEF SetFollows
<1>8. TodoFollows /\ SendsWhatIs /\ TerminalIsTrue
  BY <1>2, <1>3 DEF TodoFollows, SendsWhatIs, TerminalIsTrue
<1> QED BY <1>4, <1>5, <1>6, <1>7, <1>8 DEF StatusInv

----
(* Steps of one pod: its worker goes on, and may set a status.             *)

LEMMA FollowsOn ==
    ASSUME NEW a, NEW b, NEW c, EndsStay(a, b), EndsStay(b, c) PROVE EndsStay(a, c)
BY DEF EndsStay

\* What is set of a pod follows what was set.
GoodChange(u, new, stage) ==
    /\ new \in Settings /\ Fair(new.status)
    /\ new.version = 0 => new = Unset
    /\ EndsStay(podStatuses[u].status, new.status)
    /\ new.finished => stage = "finished" /\ new.status.ctr = "terminated"

LEMMA PodStepKeeps ==
    ASSUME StatusInv, NEW u \in PodUids, NEW n \in OnNode, NEW new,
           node' = [node EXCEPT ![u] = n], podStatuses' = [podStatuses EXCEPT ![u] = new],
           UNCHANGED <<api, known, apiStatusVersions, sender>>,
           ~Unstarted(u), n.stage \notin {"none", "new"},
           Stopped(u) => n.stage \in {"terminated", "finished"},
           node[u].stage = "finished" => n.stage = "finished",
           GoodChange(u, new, n.stage), Fair(n.draft.status),
           n.draft.made =>
             /\ PhaseKept(new.status, n.draft.status)
             /\ n.draft.stage = "sync" => n.stage \in {"sync", "terminating"}
             /\ n.draft.stage \in {"sync", "terminating", "killed"}
             /\ n.draft.stage # "sync" => n.stage = n.draft.stage
    PROVE  StatusInv'
<1>1. /\ StatusTyped /\ InOrder /\ DraftsFit /\ StatusesFair /\ SetFollows /\ TodoFollows
      /\ SendsWhatIs /\ TerminalIsTrue
  BY DEF StatusInv
<1>2. /\ node' \in [PodUids -> OnNode] /\ node'[u] = n
      /\ \A v \in PodUids : v # u => node'[v] = node[v]
  BY <1>1 DEF StatusTyped
<1>3. new \in Settings
  BY DEF GoodChange
<1>4. /\ podStatuses' \in [PodUids -> Settings] /\ podStatuses'[u] = new
      /\ \A v \in PodUids : v # u => podStatuses'[v] = podStatuses[v]
  BY <1>1, <1>3 DEF StatusTyped
<1>5. StatusTyped'
  BY <1>1, <1>2, <1>4 DEF StatusTyped
<1>6. \A v \in PodUids : /\ node[v].stage = "finished" => node'[v].stage = "finished"
                         /\ Unstarted(v) => node'[v].stage = node[v].stage
                         /\ ~Unstarted(v) => ~Unstarted(v)'
                         /\ Stopped(v) => Stopped(v)'
  BY <1>2 DEF Unstarted, Stopped, CouldHaveRunningContainers
<1>7. \A v \in PodUids : node'[v].stage # "none" <=> node[v].stage # "none"
  BY <1>6 DEF Unstarted
<1>8. InOrder'
  <2>1. PICK m \in 0 .. MaxPods : \A v \in PodUids : node[v].stage # "none" <=> v <= m
    BY <1>1 DEF InOrder
  <2>2. \A v \in PodUids : node'[v].stage # "none" <=> v <= m
    BY <1>7, <2>1
  <2>3. \A v \in PodUids : v \in {api.uid, known.uid} => node'[v].stage # "none"
    BY <1>1, <1>7 DEF InOrder
  <2>4. \A v \in PodUids : v = api.uid /\ v # known.uid => node'[v].stage = "new"
    BY <1>1, <1>6 DEF InOrder, Unstarted
  <2> QED BY <2>2, <2>3, <2>4 DEF InOrder
<1>9. DraftsFit'
  <2>1. \A v \in PodUids : Unstarted(v)' => v # u /\ Unstarted(v)
    BY <1>2, <1>6 DEF Unstarted
  <2> QED BY <1>1, <1>2, <2>1 DEF DraftsFit
<1>10. StatusesFair'
  BY <1>1, <1>2, <1>4 DEF StatusesFair, GoodChange
<1>11. ASSUME NEW v \in PodUids, NEW set, GoodSetting(node[v].stage, set)
      PROVE  GoodSetting(node'[v].stage, set)
  BY <1>6, <1>11 DEF GoodSetting, Unstarted
<1>12. GoodSetting(node'[u].stage, new)
  BY <1>2 DEF GoodSetting, GoodChange
<1>13. \A v \in PodUids : EndsStay(podStatuses[v].status, podStatuses'[v].status)
  BY <1>4 DEF GoodChange, EndsStay
<1>14. SetFollows'
  <2>1. ASSUME NEW v \in PodUids
        PROVE  /\ GoodSetting(node'[v].stage, podStatuses'[v])
               /\ node'[v].draft.made => PhaseKept(podStatuses'[v].status, node'[v].draft.status)
    <3>1. CASE v = u
      BY <1>2, <1>4, <1>12, <3>1
    <3>2. CASE v # u
      BY <1>1, <1>2, <1>4, <1>11, <3>2 DEF SetFollows
    <3> QED BY <3>1, <3>2
  <2>2. ASSUME NEW v \in PodUids, api.uid = v PROVE EndsStay(api.status, podStatuses'[v].status)
    <3>1. EndsStay(api.status, podStatuses[v].status)
      BY <1>1, <2>2 DEF SetFollows
    <3> QED BY <1>13, <3>1, FollowsOn
  <2> QED BY <1>1, <2>1, <2>2 DEF SetFollows
<1>15. ASSUME NEW v \in PodUids, NEW set, Between(v, set) PROVE Between(v, set)'
  <2> SUFFICES ASSUME api.uid = v
                  PROVE  EndsStay(api.status, set.status) /\ EndsStay(set.status, podStatuses'[v].status)
    BY DEF Between
  <2>1. EndsStay(api.status, set.status) /\ EndsStay(set.status, podStatuses[v].status)
    BY <1>15 DEF Between
  <2> QED BY <1>13, <2>1, FollowsOn
<1>16. TodoFollows'
  <2>1. \A t \in sender.todo : t[1] \in PodUids
    BY <1>1 DEF StatusTyped, Senders
  <2> QED BY <1>1, <1>11, <1>15, <2>1 DEF TodoFollows
<1>17. SendsWhatIs'
  <2>1. sender.pc \in {"patch", "delete"} =>
          /\ sender.uid \in PodUids /\ sender.set.version # 0
          /\ GoodSetting(node'[sender.uid].stage, sender.set)
    BY <1>1, <1>11 DEF SendsWhatIs
  <2>2. sender.pc = "patch" =>
          /\ sender.pod.uid = sender.uid /\ Fair(sender.pod.status)
          /\ TerminalStopped(sender.uid, sender.pod.status)'
          /\ ~sender.ran => Stopped(sender.uid)'
          /\ Between(sender.uid, sender.set)'
          /\ api.uid = sender.uid => /\ api.status = sender.pod.status
                                     /\ sender.pod.deleting => api.deleting
    BY <1>1, <1>6, <1>15 DEF SendsWhatIs, TerminalStopped
  <2>3. sender.pc = "delete" /\ api.uid = sender.uid =>
          /\ node'[sender.uid].stage = "finished" /\ api.status.ctr = "terminated"
          /\ api.status.phase \in Terminals
    BY <1>1, <1>6, <2>1 DEF SendsWhatIs
  <2> QED BY <2>1, <2>2, <2>3 DEF SendsWhatIs
<1>18. TerminalIsTrue'
  <2>1. api.uid # 0 => api.uid \in PodUids
    BY <1>1 DEF StatusTyped, Copies, PodUids
  <2> QED BY <1>1, <1>6, <2>1 DEF TerminalIsTrue, Stopped
<1> QED BY <1>5, <1>8, <1>9, <1>10, <1>14, <1>16, <1>17, <1>18 DEF StatusInv

LEMMA StatusParts ==
    ASSUME StatusInv, NEW u \in PodUids
    PROVE  /\ node[u] \in OnNode /\ node[u].draft \in Drafts /\ node[u].draft.status \in Statuses
           /\ Fair(node[u].draft.status) /\ node \in [PodUids -> OnNode]
           /\ podStatuses[u] \in Settings /\ podStatuses[u].status \in Statuses
           /\ podStatuses \in [PodUids -> Settings]
           /\ Fair(podStatuses[u].status) /\ GoodSetting(node[u].stage, podStatuses[u])
           /\ GoodChange(u, podStatuses[u], node[u].stage)
           /\ node[u].draft.made => PhaseKept(podStatuses[u].status, node[u].draft.status)
           /\ node[u].draft.made =>
                /\ node[u].draft.stage = "sync" => node[u].stage \in {"sync", "terminating"}
                /\ node[u].draft.stage \in {"sync", "terminating", "killed"}
                /\ node[u].draft.stage # "sync" => node[u].stage = node[u].draft.stage
<1>1. StatusTyped /\ DraftsFit /\ StatusesFair /\ SetFollows
  BY DEF StatusInv
<1>2. node[u] \in OnNode /\ podStatuses[u] \in Settings
  BY <1>1 DEF StatusTyped
<1>3. /\ Fair(podStatuses[u].status) /\ Fair(node[u].draft.status)
      /\ GoodSetting(node[u].stage, podStatuses[u])
  BY <1>1 DEF SetFollows, StatusesFair
<1>4. GoodChange(u, podStatuses[u], node[u].stage)
  BY <1>2, <1>3 DEF GoodChange, GoodSetting, EndsStay
<1> QED
  BY <1>1, <1>2, <1>3, <1>4 DEF StatusTyped, OnNode, Drafts, Settings, SetFollows, DraftsFit

LEMMA OldStatusIs ==
    ASSUME StatusInv, NEW u \in PodUids
    PROVE  /\ OldStatus(u) \in Statuses /\ Fair(OldStatus(u))
           /\ EndsStay(podStatuses[u].status, OldStatus(u))
<1>1. /\ podStatuses[u] \in Settings /\ Fair(podStatuses[u].status)
      /\ podStatuses[u].version = 0 => podStatuses[u] = Unset
  BY StatusParts DEF GoodSetting
<1>2. known.status \in Statuses /\ Fair(known.status)
  BY DEF StatusInv, StatusTyped, StatusesFair, Copies
<1>3. \A s : EndsStay(Blank, s)
  BY StatusConstants DEF EndsStay, Terminals
<1>4. CASE podStatuses[u].version # 0
  BY <1>1, <1>4 DEF OldStatus, Settings, EndsStay
<1>5. CASE podStatuses[u].version = 0
  BY <1>1, <1>2, <1>3, <1>5, StatusConstants DEF OldStatus
<1> QED BY <1>4, <1>5

\* updateStatusInternal sets nothing that does not follow.
LEMMA UpdateFollows ==
    ASSUME StatusInv, NEW u \in PodUids, NEW given \in Statuses, NEW force, NEW finished \in BOOLEAN,
           updateStatusInternal(u, given, force, finished), Fair(given),
           PhaseKept(podStatuses[u].status, given),
           NEW stage, node[u].stage = "finished" => stage = "finished",
           finished => stage = "finished" /\ given.ctr = "terminated"
    PROVE  \E new : /\ podStatuses' = [podStatuses EXCEPT ![u] = new]
                    /\ GoodChange(u, new, stage)
                    /\ \A s : PhaseKept(podStatuses[u].status, s) /\ PhaseKept(given, s)
                              => PhaseKept(new.status, s)
<1>1. podStatuses \in [PodUids -> Settings] /\ podStatuses[u] \in Settings
  BY StatusParts
<1>2. GoodChange(u, podStatuses[u], stage)
  BY StatusParts DEF GoodChange, GoodSetting
<1>3. CASE UNCHANGED podStatuses
  <2>1. podStatuses' = [podStatuses EXCEPT ![u] = podStatuses[u]]
    BY <1>1, <1>3
  <2> QED BY <1>2, <2>1
<1>4. CASE ~UNCHANGED podStatuses
  <2> DEFINE new == [version |-> podStatuses[u].version + 1, status |-> given,
                     finished |-> podStatuses[u].finished \/ finished]
  <2>1. podStatuses' = [podStatuses EXCEPT ![u] = new] /\ ~Illegal(OldStatus(u), given)
    BY <1>1, <1>4 DEF updateStatusInternal
  <2>2. podStatuses[u].version \in Nat /\ podStatuses[u].finished \in BOOLEAN
    BY <1>1 DEF Settings
  <2>3. new \in Settings /\ new.version # 0 /\ new.status = given
        /\ (new.finished <=> podStatuses[u].finished \/ finished)
    BY <2>2 DEF Settings
  <2>4. EndsStay(podStatuses[u].status, OldStatus(u))
    BY OldStatusIs
  <2>5. EndsStay(podStatuses[u].status, given)
    BY <2>1, <2>4 DEF EndsStay, PhaseKept, Illegal
  <2>6. podStatuses[u].finished => node[u].stage = "finished" /\ podStatuses[u].status.ctr = "terminated"
    BY StatusParts DEF GoodSetting
  <2> HIDE DEF new
  <2>7. new.finished => stage = "finished" /\ new.status.ctr = "terminated"
    BY <2>3, <2>5, <2>6 DEF EndsStay
  <2>8. GoodChange(u, new, stage)
    BY <2>3, <2>5, <2>7 DEF GoodChange
  <2> QED BY <2>1, <2>3, <2>8
<1> QED BY <1>3, <1>4

LEMMA SetPodStatusKeeps == ASSUME StatusInv, NEW u \in PodUids, SetPodStatus(u) PROVE StatusInv'
<1> DEFINE d == node[u].draft
           stage == CASE d.stage = "killed" -> "terminated"
                      [] d.stage = "terminating" -> "killing"
                      [] node[u].stage = "sync" /\ d.status.phase \in Terminals -> "terminating"
                      [] OTHER -> node[u].stage
           n == [node[u] EXCEPT !.draft = NoDraft, !.stage = stage]
<1>1. node[u] \in OnNode /\ node \in [PodUids -> OnNode] /\ d.status \in Statuses /\ Fair(d.status)
  BY StatusParts
<1>2. /\ d.made /\ node' = [node EXCEPT ![u] = n]
      /\ \E force : updateStatusInternal(u, d.status, force, FALSE)
      /\ UNCHANGED <<api, known, apiStatusVersions, sender>>
  <2>1. d.made /\ UNCHANGED <<api, known, apiStatusVersions, sender>>
    BY DEF SetPodStatus
  <2>2. node' = [node EXCEPT ![u].draft = NoDraft, ![u].stage = stage]
    BY DEF SetPodStatus
  <2> HIDE DEF stage
  <2>3. node' = [node EXCEPT ![u] = n]
    BY <1>1, <2>2 DEF OnNode
  <2>4. \E force : updateStatusInternal(u, d.status, force, FALSE)
    BY Zenon DEF SetPodStatus
  <2> QED BY <2>1, <2>3, <2>4
<1>3. /\ d.stage = "sync" => node[u].stage \in {"sync", "terminating"}
      /\ d.stage \in {"sync", "terminating", "killed"}
      /\ d.stage # "sync" => node[u].stage = d.stage
      /\ PhaseKept(podStatuses[u].status, d.status)
  BY <1>2, StatusParts
<1>4. stage \in {"terminated", "killing", "terminating", "sync"} /\ stage \in StatusStages
  BY <1>3 DEF StatusStages
<1>5. n \in OnNode /\ n.stage = stage /\ n.draft = NoDraft
  BY <1>1, <1>4, StatusConstants DEF OnNode
<1>6. ~Unstarted(u) /\ ~Stopped(u) /\ node[u].stage # "finished"
  BY <1>3 DEF Unstarted, Stopped, CouldHaveRunningContainers
<1> HIDE DEF n, stage
<1>7. PICK new : /\ podStatuses' = [podStatuses EXCEPT ![u] = new]
                 /\ GoodChange(u, new, stage)
  BY <1>1, <1>2, <1>3, <1>6, UpdateFollows
<1> QED BY <1>2, <1>4, <1>5, <1>6, <1>7, StatusConstants, PodStepKeeps

LEMMA TerminatePodKeeps == ASSUME StatusInv, NEW u \in PodUids, TerminatePod(u) PROVE StatusInv'
<1> DEFINE before == OldStatus(u)
           s == [before EXCEPT !.ctr = "terminated",
                            !.phase = IF before.phase \in Terminals THEN before.phase ELSE "Failed"]
           n == [node[u] EXCEPT !.stage = "finished"]
<1>1. node[u] \in OnNode /\ node \in [PodUids -> OnNode] /\ Fair(node[u].draft.status)
  BY StatusParts
<1>2. before \in Statuses /\ Fair(before) /\ EndsStay(podStatuses[u].status, before)
  BY OldStatusIs
<1>3. /\ node[u].stage = "terminated" /\ node' = [node EXCEPT ![u] = n]
      /\ updateStatusInternal(u, s, TRUE, TRUE)
      /\ UNCHANGED <<api, known, apiStatusVersions, sender>>
  BY <1>1, <1>2 DEF TerminatePod, OnNode, Statuses
<1>4. /\ s \in Statuses /\ Fair(s) /\ s.ctr = "terminated"
      /\ s.phase = IF before.phase \in Terminals THEN before.phase ELSE "Failed"
  BY <1>2 DEF Statuses, Fair, Phases, Terminals
<1>5. n \in OnNode /\ n.stage = "finished" /\ n.draft = node[u].draft
  BY <1>1 DEF OnNode, StatusStages
<1>6. ~node[u].draft.made
  BY <1>3, StatusParts
<1> HIDE DEF before, s, n
<1>7. PhaseKept(podStatuses[u].status, s)
  BY <1>2, <1>4 DEF PhaseKept, EndsStay
<1>8. PICK new : /\ podStatuses' = [podStatuses EXCEPT ![u] = new]
                 /\ GoodChange(u, new, "finished")
  BY <1>3, <1>4, <1>7, UpdateFollows
<1>9. ~Unstarted(u)
  BY <1>3 DEF Unstarted
<1> QED BY <1>1, <1>3, <1>5, <1>6, <1>8, <1>9, PodStepKeeps

LEMMA HeadAndTail ==
    ASSUME NEW S, NEW q \in Seq(S), q # <<>> PROVE Head(q) \in S /\ Tail(q) \in Seq(S)
OBVIOUS

LEMMA ReadinessKeeps == ASSUME StatusInv, NEW u \in PodUids, SetContainerReadiness(u) PROVE StatusInv'
<1> DEFINE n == [node[u] EXCEPT !.results = Tail(node[u].results)]
           ready == Head(node[u].results)
           set == podStatuses[u]
           s == WithConditions([set.status EXCEPT !.ready = ready])
<1>1. /\ node[u] \in OnNode /\ node \in [PodUids -> OnNode] /\ Fair(node[u].draft.status)
      /\ set \in Settings /\ set.status \in Statuses /\ podStatuses \in [PodUids -> Settings]
  BY StatusParts
<1>2. node[u].results \in Seq(BOOLEAN) /\ node[u].results # <<>>
  BY <1>1 DEF OnNode, SetContainerReadiness
<1>3. ready \in BOOLEAN /\ Tail(node[u].results) \in Seq(BOOLEAN)
  BY <1>2, HeadAndTail
<1>4. node' = [node EXCEPT ![u] = n] /\ UNCHANGED <<api, known, apiStatusVersions, sender>>
  BY <1>1 DEF SetContainerReadiness, OnNode
<1>5. n \in OnNode /\ n.stage = node[u].stage /\ n.draft = node[u].draft
  BY <1>1, <1>3 DEF OnNode
<1>6. \/ UNCHANGED podStatuses
      \/ set.version # 0 /\ updateStatusInternal(u, s, FALSE, FALSE)
  BY DEF SetContainerReadiness
<1>7. s \in Statuses /\ Fair(s) /\ s.phase = set.status.phase
  BY <1>1, <1>3 DEF WithConditions, Statuses, Fair
<1> HIDE DEF n, s, ready
<1>8. CASE ~Unstarted(u)
  <2>1. PICK new : /\ podStatuses' = [podStatuses EXCEPT ![u] = new]
                   /\ GoodChange(u, new, node[u].stage)
                   /\ \A x : PhaseKept(set.status, x) => PhaseKept(new.status, x)
    <3>1. CASE UNCHANGED podStatuses
      <4>1. podStatuses' = [podStatuses EXCEPT ![u] = podStatuses[u]]
        BY <1>1, <3>1
      <4> QED BY <4>1, StatusParts
    <3>2. CASE updateStatusInternal(u, s, FALSE, FALSE)
      <4>1. PhaseKept(set.status, s) /\ \A x : PhaseKept(set.status, x) => PhaseKept(s, x)
        BY <1>7 DEF PhaseKept
      <4>2. PICK new : /\ podStatuses' = [podStatuses EXCEPT ![u] = new]
                       /\ GoodChange(u, new, node[u].stage)
                       /\ \A x : PhaseKept(podStatuses[u].status, x) /\ PhaseKept(s, x)
                                 => PhaseKept(new.status, x)
        BY <1>7, <3>2, <4>1, UpdateFollows
      <4> QED BY <4>1, <4>2
    <3> QED BY <1>6, <3>1, <3>2
  <2>2. Stopped(u) => node[u].stage \in {"terminated", "finished"}
    BY DEF Stopped, CouldHaveRunningContainers
  <2>3. n.draft.made =>
             /\ PhaseKept(new.status, n.draft.status)
             /\ n.draft.stage = "sync" => n.stage \in {"sync", "terminating"}
             /\ n.draft.stage \in {"sync", "terminating", "killed"}
             /\ n.draft.stage # "sync" => n.stage = n.draft.stage
    BY <1>5, <2>1, StatusParts
  <2> QED BY <1>1, <1>4, <1>5, <1>8, <2>1, <2>2, <2>3, PodStepKeeps DEF Unstarted
<1>9. ~Unstarted(u)
  BY <1>2 DEF StatusInv, DraftsFit
<1> QED BY <1>8, <1>9

LEMMA GenerateKeeps == ASSUME StatusInv, NEW u \in PodUids, Generate(u) PROVE StatusInv'
<1> DEFINE before == OldStatus(u)
           ready == node[u].ctr = "running" /\ node[u].probe
           phase == IF before.phase \in Terminals THEN before.phase
                    ELSE CASE node[u].ctr = "waiting" -> "Pending"
                           [] node[u].ctr = "running" -> "Running"
                           [] OTHER -> IF node[u].stage = "sync" THEN "Succeeded" ELSE "Failed"
           plain == [phase |-> phase, ctr |-> node[u].ctr, ready |-> ready, cond |-> FALSE]
           s == WithConditions(plain)
           d == [made |-> TRUE, stage |-> node[u].stage, status |-> s]
           n == [node[u] EXCEPT !.draft = d]
<1>1. node[u] \in OnNode /\ node \in [PodUids -> OnNode] /\ podStatuses \in [PodUids -> Settings]
  BY StatusParts
<1>2. before \in Statuses /\ EndsStay(podStatuses[u].status, before)
  BY OldStatusIs
<1>3. /\ node[u].stage \in {"sync", "terminating", "killed"} /\ node' = [node EXCEPT ![u] = n]
      /\ UNCHANGED <<api, known, apiStatusVersions, sender, podStatuses>>
  <2>1. /\ node[u].stage \in {"sync", "terminating", "killed"}
        /\ UNCHANGED <<api, known, apiStatusVersions, sender, podStatuses>>
    BY DEF Generate, managerVars
  <2>2. node' = [node EXCEPT ![u].draft = d]
    BY DEF Generate
  <2> HIDE DEF d
  <2> QED BY <1>1, <2>1, <2>2 DEF OnNode
<1>4. ready \in BOOLEAN /\ phase \in Phases /\ (before.phase \in Terminals => phase = before.phase)
  <2>1. phase \in Phases
    BY DEF Phases, Terminals
  <2>2. before.phase \in Terminals => phase = before.phase
    OBVIOUS
  <2> QED BY <2>1, <2>2
<1> HIDE DEF ready, phase
<1>5. plain \in Statuses /\ plain.phase = phase
  BY <1>1, <1>4 DEF Statuses, OnNode
<1> HIDE DEF plain
<1>6. s \in Statuses /\ Fair(s) /\ s.phase = phase
  BY <1>5 DEF WithConditions, Statuses, Fair
<1> HIDE DEF s
<1>7. d \in Drafts /\ d.made /\ d.stage = node[u].stage /\ d.status = s
  BY <1>1, <1>6 DEF Drafts, OnNode
<1> HIDE DEF d
<1>8. n \in OnNode /\ n.stage = node[u].stage /\ n.draft = d
  BY <1>1, <1>7 DEF OnNode
<1> HIDE DEF n, before
<1>9. PhaseKept(podStatuses[u].status, s)
  BY <1>2, <1>4, <1>6 DEF PhaseKept, EndsStay
<1>10. podStatuses' = [podStatuses EXCEPT ![u] = podStatuses[u]]
       /\ GoodChange(u, podStatuses[u], n.stage)
  BY <1>1, <1>3, <1>8, StatusParts
<1>11. ~Unstarted(u) /\ ~Stopped(u)
  BY <1>3 DEF Unstarted, Stopped, CouldHaveRunningContainers
<1> QED BY <1>3, <1>6, <1>7, <1>8, <1>9, <1>10, <1>11, PodStepKeeps

LEMMA StatusContainersKeep ==
    ASSUME StatusInv, NEW u \in PodUids, ContainerStops(u) \/ Probed(u) PROVE StatusInv'
<1>1. /\ node[u] \in OnNode /\ node \in [PodUids -> OnNode] /\ podStatuses \in [PodUids -> Settings]
      /\ Fair(node[u].draft.status)
  BY StatusParts
<1>2. UNCHANGED <<api, known, apiStatusVersions, sender, podStatuses>>
  BY DEF ContainerStops, Probed, managerVars
<1>3. node[u].stage \in {"sync", "killing"}
  BY DEF ContainerStops, Probed
<1>4. PICK n \in OnNode : /\ node' = [node EXCEPT ![u] = n] /\ n.draft = node[u].draft
                          /\ n.stage = node[u].stage \/ (node[u].stage = "killing" /\ n.stage = "killed")
  <2>1. CASE ContainerStops(u) /\ node[u].stage = "killing"
    <3> DEFINE n == [node[u] EXCEPT !.ctr = "terminated", !.stage = "killed"]
    <3>1. n \in OnNode /\ n.draft = node[u].draft /\ n.stage = "killed"
      BY <1>1 DEF OnNode, StatusStages
    <3>2. node' = [node EXCEPT ![u] = n]
      BY <1>1, <2>1 DEF ContainerStops, OnNode
    <3> HIDE DEF n
    <3> QED BY <2>1, <3>1, <3>2
  <2>2. CASE ContainerStops(u) /\ node[u].stage # "killing"
    <3> DEFINE n == [node[u] EXCEPT !.ctr = "terminated"]
    <3>1. n \in OnNode /\ n.draft = node[u].draft /\ n.stage = node[u].stage
      BY <1>1 DEF OnNode
    <3>2. node' = [node EXCEPT ![u] = n]
      BY <1>1, <2>2 DEF ContainerStops, OnNode
    <3> HIDE DEF n
    <3> QED BY <3>1, <3>2
  <2>3. CASE Probed(u)
    <3> DEFINE answers == Append(node[u].results, ~node[u].probe)
               n == [node[u] EXCEPT !.probe = ~node[u].probe, !.results = answers]
    <3>1. answers \in Seq(BOOLEAN)
      <4>1. node[u].results \in Seq(BOOLEAN) /\ (~node[u].probe) \in BOOLEAN
        BY <1>1 DEF OnNode
      <4> QED BY <4>1
    <3>2. n \in OnNode /\ n.draft = node[u].draft /\ n.stage = node[u].stage
      BY <1>1, <3>1 DEF OnNode
    <3>3. node' = [node EXCEPT ![u] = n]
      BY <1>1, <2>3 DEF Probed, OnNode
    <3> HIDE DEF n
    <3> QED BY <3>2, <3>3
  <2> QED BY <2>1, <2>2, <2>3
<1>5. podStatuses' = [podStatuses EXCEPT ![u] = podStatuses[u]]
  BY <1>1, <1>2
<1>6. GoodChange(u, podStatuses[u], n.stage)
  BY <1>3, <1>4, StatusParts DEF GoodChange
<1>7. ~Unstarted(u) /\ ~Stopped(u) /\ n.stage \notin {"none", "new", "finished"}
  BY <1>3, <1>4 DEF Unstarted, Stopped, CouldHaveRunningContainers
<1>8. n.draft.made =>
             /\ PhaseKept(podStatuses[u].status, n.draft.status)
             /\ n.draft.stage = "sync" => n.stage \in {"sync", "terminating"}
             /\ n.draft.stage \in {"sync", "terminating", "killed"}
             /\ n.draft.stage # "sync" => n.stage = n.draft.stage
  BY <1>3, <1>4, StatusParts
<1> QED BY <1>1, <1>2, <1>3, <1>4, <1>5, <1>6, <1>7, <1>8, PodStepKeeps

\* The pod manager follows the API server, and the workers go on.
LEMMA ObserveKeeps == ASSUME StatusInv, Observe PROVE StatusInv'
<1>1. /\ StatusTyped /\ InOrder /\ DraftsFit /\ StatusesFair /\ SetFollows /\ TodoFollows
      /\ SendsWhatIs /\ TerminalIsTrue
  BY DEF StatusInv
<1>2. known' = api /\ UNCHANGED <<api, podStatuses, apiStatusVersions, sender>>
  BY DEF Observe, managerVars
<1>3. /\ node' \in [PodUids -> OnNode]
      /\ \A v \in PodUids :
           /\ node'[v].draft = node[v].draft /\ node'[v].results = node[v].results
           /\ \/ node'[v].stage = node[v].stage
              \/ node[v].stage = "new" /\ node'[v].stage \in {"sync", "terminating"}
              \/ node[v].stage = "sync" /\ node'[v].stage = "terminating"
           /\ v = api.uid => node'[v].stage # "new"
  <2>1. node' = [v \in PodUids |->
          IF node[v].stage = "new" /\ api.uid = v /\ ~api.deleting
          THEN [node[v] EXCEPT !.stage = "sync", !.ctr = "running"]
          ELSE IF \/ node[v].stage = "sync" /\ (api.uid # v \/ api.deleting)
                  \/ node[v].stage = "new" /\ api.uid = v
               THEN [node[v] EXCEPT !.stage = "terminating"] ELSE node[v]]
    BY DEF Observe
  <2>2. ASSUME NEW v \in PodUids
        PROVE  /\ node'[v] \in OnNode
               /\ node'[v].draft = node[v].draft /\ node'[v].results = node[v].results
               /\ \/ node'[v].stage = node[v].stage
                  \/ node[v].stage = "new" /\ node'[v].stage \in {"sync", "terminating"}
                  \/ node[v].stage = "sync" /\ node'[v].stage = "terminating"
               /\ v = api.uid => node'[v].stage # "new"
    <3>1. node[v] \in OnNode /\ "sync" \in StatusStages /\ "terminating" \in StatusStages
      BY StatusParts DEF StatusStages
    <3>2. CASE node[v].stage = "new" /\ api.uid = v /\ ~api.deleting
      <4>1. node'[v] = [node[v] EXCEPT !.stage = "sync", !.ctr = "running"]
        BY <2>1, <3>2
      <4> QED BY <3>1, <3>2, <4>1 DEF OnNode
    <3>3. CASE ~(node[v].stage = "new" /\ api.uid = v /\ ~api.deleting)
      <4>1. CASE \/ node[v].stage = "sync" /\ (api.uid # v \/ api.deleting)
                 \/ node[v].stage = "new" /\ api.uid = v
        <5>1. node'[v] = [node[v] EXCEPT !.stage = "terminating"]
          BY <2>1, <3>3, <4>1
        <5> QED BY <3>1, <4>1, <5>1 DEF OnNode
      <4>2. CASE ~(\/ node[v].stage = "sync" /\ (api.uid # v \/ api.deleting)
                   \/ node[v].stage = "new" /\ api.uid = v)
        <5>1. node'[v] = node[v]
          BY <2>1, <3>3, <4>2
        <5> QED BY <3>1, <4>2, <5>1
      <4> QED BY <4>1, <4>2
    <3> QED BY <3>2, <3>3
  <2>3. node' \in [PodUids -> OnNode]
    BY <2>1, <2>2
  <2> QED BY <2>2, <2>3
<1>4. \A v \in PodUids : /\ node[v].stage = "finished" => node'[v].stage = "finished"
                         /\ Unstarted(v)' => Unstarted(v)
                         /\ Stopped(v) => Stopped(v)'
                         /\ node'[v].stage # "none" <=> node[v].stage # "none"
  BY <1>3 DEF Unstarted, Stopped, CouldHaveRunningContainers
<1>5. StatusTyped'
  BY <1>1, <1>2, <1>3 DEF StatusTyped
<1>6. InOrder'
  <2>1. PICK m \in 0 .. MaxPods : \A v \in PodUids : node[v].stage # "none" <=> v <= m
    BY <1>1 DEF InOrder
  <2>2. \A v \in PodUids : node'[v].stage # "none" <=> v <= m
    BY <1>4, <2>1
  <2>3. \A v \in PodUids : v = api.uid => node'[v].stage # "none"
    BY <1>1, <1>4 DEF InOrder
  <2> QED BY <1>2, <2>2, <2>3 DEF InOrder
<1>7. DraftsFit'
  BY <1>1, <1>3, <1>4 DEF DraftsFit
<1>8. StatusesFair'
  BY <1>1, <1>2, <1>3 DEF StatusesFair
<1>9. ASSUME NEW v \in PodUids, NEW set, GoodSetting(node[v].stage, set)
      PROVE  GoodSetting(node'[v].stage, set)
  BY <1>3, <1>9 DEF GoodSetting
<1>10. SetFollows'
  <2>1. EndsStay(api.status, api.status)
    BY DEF EndsStay
  <2> QED BY <1>1, <1>2, <1>3, <1>9, <2>1 DEF SetFollows
<1>11. TodoFollows'
  <2>1. \A t \in sender.todo : t[1] \in PodUids
    BY <1>1 DEF StatusTyped, Senders
  <2> QED BY <1>1, <1>2, <1>9, <2>1 DEF TodoFollows, Between
<1>12. SendsWhatIs'
  BY <1>1, <1>2, <1>4, <1>9 DEF SendsWhatIs, TerminalStopped, Between
<1>13. TerminalIsTrue'
  <2>1. api.uid # 0 => api.uid \in PodUids
    BY <1>1 DEF StatusTyped, Copies, PodUids
  <2> QED BY <1>1, <1>2, <1>4, <2>1 DEF TerminalIsTrue, Stopped
<1> QED BY <1>5, <1>6, <1>7, <1>8, <1>10, <1>11, <1>12, <1>13 DEF StatusInv

----
(* Steps that leave the workers alone.                                     *)

\* What is set of a pod stays, or is dropped.
KeptOrDropped == \A v \in PodUids : podStatuses'[v] \in {podStatuses[v], Unset}

LEMMA ApiStepKeeps ==
    ASSUME StatusInv, UNCHANGED <<node, known>>, KeptOrDropped,
           api' \in Copies, podStatuses' \in [PodUids -> Settings],
           apiStatusVersions' \in [PodUids -> Nat], sender' \in Senders,
           \/ api' = NoApiPod
           \/ /\ api'.uid = api.uid /\ Fair(api'.status) /\ EndsStay(api.status, api'.status)
              /\ api.uid \in PodUids => EndsStay(api'.status, podStatuses'[api.uid].status)
    PROVE  StatusTyped' /\ InOrder' /\ DraftsFit' /\ StatusesFair' /\ SetFollows'
<1>1. StatusTyped /\ InOrder /\ DraftsFit /\ StatusesFair /\ SetFollows
  BY DEF StatusInv
<1>2. 0 \notin PodUids /\ api.uid \in 0 .. MaxPods
  BY <1>1 DEF PodUids, StatusTyped, Copies
<1>3. api'.uid \in {0, api.uid} /\ Fair(api'.status)
  BY StatusConstants
<1>4. StatusTyped'
  BY <1>1 DEF StatusTyped
<1>5. InOrder'
  BY <1>1, <1>2, <1>3 DEF InOrder
<1>6. DraftsFit'
  BY <1>1 DEF DraftsFit, Unstarted
<1>7. StatusesFair'
  <2>1. \A v \in PodUids : Fair(podStatuses'[v].status)
    BY <1>1, StatusConstants DEF KeptOrDropped, StatusesFair
  <2> QED BY <1>1, <1>3, <2>1 DEF StatusesFair
<1>8. SetFollows'
  <2>1. ASSUME NEW v \in PodUids
        PROVE  /\ GoodSetting(node[v].stage, podStatuses'[v])
               /\ node[v].draft.made => PhaseKept(podStatuses'[v].status, node[v].draft.status)
    <3>1. CASE podStatuses'[v] = podStatuses[v]
      BY <1>1, <3>1 DEF SetFollows
    <3>2. CASE podStatuses'[v] = Unset
      BY <3>2, StatusConstants DEF GoodSetting, PhaseKept, Terminals
    <3> QED BY <3>1, <3>2 DEF KeptOrDropped
  <2>2. CASE api' = NoApiPod
    BY <1>2, <2>1, <2>2, StatusConstants DEF SetFollows
  <2>3. CASE api' # NoApiPod
    <3>1. /\ api'.uid = api.uid /\ EndsStay(api.status, api'.status)
          /\ api.uid \in PodUids => EndsStay(api'.status, podStatuses'[api.uid].status)
      BY <2>3
    <3>2. known.uid = api.uid /\ api.uid \in PodUids => EndsStay(known.status, api'.status)
      BY <1>1, <3>1, FollowsOn DEF SetFollows
    <3> QED BY <2>1, <3>1, <3>2 DEF SetFollows
  <2> QED BY <2>2, <2>3
<1> QED BY <1>4, <1>5, <1>6, <1>7, <1>8

\* The same for what is still to be sent.
LEMMA TodoKeeps ==
    ASSUME StatusInv, UNCHANGED node, sender'.todo \subseteq sender.todo,
           sender'.pc \in {"patch", "delete"} => \A t \in sender'.todo : t[1] # sender'.uid,
           \/ api'.uid = 0
           \/ api'.uid = api.uid /\ \A t \in sender'.todo : t[1] = api.uid =>
                                      /\ api' = api \/ api'.status = api.status
                                      /\ podStatuses'[t[1]] = podStatuses[t[1]]
    PROVE  TodoFollows'
<1>1. TodoFollows /\ \A t \in sender.todo : t[1] \in PodUids /\ t[1] # 0
  BY DEF StatusInv, StatusTyped, Senders, PodUids
<1> QED BY <1>1 DEF TodoFollows, Between

\* The API server's pod is as before, but for its deletion, or gone.
LEMMA ApiOnlyKeeps ==
    ASSUME StatusInv, UNCHANGED <<node, known, podStatuses, apiStatusVersions, sender>>,
           api' \in Copies, \/ api' = NoApiPod
                            \/ /\ api'.uid = api.uid /\ api'.status = api.status
                               /\ api.deleting => api'.deleting
    PROVE  StatusInv'
<1>1. StatusTyped /\ StatusesFair /\ SetFollows /\ TodoFollows /\ SendsWhatIs /\ TerminalIsTrue
  BY DEF StatusInv
<1>2. KeptOrDropped /\ EndsStay(api.status, api.status)
  BY DEF KeptOrDropped, EndsStay
<1>3. api'.uid = 0 \/ (api'.uid = api.uid /\ api'.status = api.status)
  BY StatusConstants
<1>4. StatusTyped' /\ InOrder' /\ DraftsFit' /\ StatusesFair' /\ SetFollows'
  BY <1>1, <1>2, ApiStepKeeps DEF StatusTyped, StatusesFair, SetFollows
<1>5. TodoFollows'
  <2>1. sender.pc \in {"patch", "delete"} => \A t \in sender.todo : t[1] # sender.uid
    BY <1>1 DEF TodoFollows
  <2> QED BY <1>3, <2>1, TodoKeeps
<1>6. SendsWhatIs'
  <2>1. 0 \notin PodUids
    BY DEF PodUids
  <2> QED
    BY <1>1, <1>3, <2>1, StatusConstants
       DEF SendsWhatIs, Between, TerminalStopped, Stopped, CouldHaveRunningContainers
<1>7. TerminalIsTrue'
  BY <1>1, <1>3 DEF TerminalIsTrue, CouldHaveRunningContainers
<1> QED BY <1>4, <1>5, <1>6, <1>7 DEF StatusInv

LEMMA DeletePodKeeps == ASSUME StatusInv, DeletePod PROVE StatusInv'
<1>1. UNCHANGED <<node, known, podStatuses, apiStatusVersions, sender>>
  BY DEF DeletePod, managerVars
<1>2. api \in Copies
  BY DEF StatusInv, StatusTyped
<1>3. CASE api' = [api EXCEPT !.deleting = TRUE]
  <2>1. api' \in Copies /\ api'.uid = api.uid /\ api'.status = api.status /\ api'.deleting
    BY <1>2, <1>3 DEF Copies
  <2> QED BY <1>1, <2>1, ApiOnlyKeeps
<1>4. CASE api' = NoApiPod
  BY <1>1, <1>4, StatusConstants, ApiOnlyKeeps
<1> QED BY <1>3, <1>4 DEF DeletePod

\* A pod is created under a number of its own.
LEMMA CreatedIs ==
    ASSUME StatusInv
    PROVE  /\ Created \in 0 .. MaxPods
           /\ \A u \in PodUids : node[u].stage # "none" <=> u <= Created
<1>1. PICK n \in 0 .. MaxPods : \A u \in PodUids : node[u].stage # "none" <=> u <= n
  BY DEF StatusInv, InOrder
<1>2. MaxPods \in PodUids /\ MaxPods \in Nat
  BY StatusAssumption DEF PodUids
<1>3. CASE node[MaxPods].stage # "none"
  <2>1. Created = MaxPods /\ n = MaxPods
    BY <1>1, <1>2, <1>3 DEF Created
  <2> QED BY <1>1, <2>1
<1>4. CASE node[MaxPods].stage = "none"
  <2>1. Created = CHOOSE u \in 0 .. MaxPods : \A x \in PodUids : node[x].stage # "none" <=> x <= u
    BY <1>4 DEF Created
  <2> QED BY <1>1, <2>1
<1> QED BY <1>3, <1>4

LEMMA CreatePodKeeps == ASSUME StatusInv, CreatePod PROVE StatusInv'
<1> DEFINE u == Created + 1
           new == [NoApiPod EXCEPT !.uid = u]
           n == [node[u] EXCEPT !.stage = "new"]
<1>1. /\ StatusTyped /\ InOrder /\ DraftsFit /\ StatusesFair /\ SetFollows /\ TodoFollows
      /\ SendsWhatIs /\ TerminalIsTrue
  BY DEF StatusInv
<1>2. /\ api.uid = 0 /\ Created < MaxPods /\ api' = new /\ node' = [node EXCEPT ![u].stage = "new"]
      /\ UNCHANGED <<known, podStatuses, apiStatusVersions, sender>>
  BY DEF CreatePod, managerVars
<1>3. /\ u \in PodUids /\ u \in 0 .. MaxPods /\ u # 0 /\ Created \in Nat
      /\ \A v \in PodUids : node[v].stage # "none" <=> v <= Created
  BY <1>2, CreatedIs, StatusAssumption DEF PodUids
<1>4. node[u].stage = "none"
  BY <1>3
<1>5. \A v \in PodUids : v # u => (v <= u <=> v <= Created)
  BY <1>3 DEF PodUids
<1> HIDE DEF u
<1>6. api' \in Copies /\ api'.uid = u /\ api'.status = Blank /\ ~api'.deleting
  BY <1>2, <1>3, StatusConstants DEF Copies
<1>7. node[u] \in OnNode /\ node \in [PodUids -> OnNode]
  BY <1>3, StatusParts
<1>8. n \in OnNode /\ n.stage = "new" /\ n.draft = node[u].draft /\ n.results = node[u].results
  BY <1>7 DEF OnNode, StatusStages
<1>9. node' = [node EXCEPT ![u] = n]
  BY <1>2, <1>3, <1>7
<1> HIDE DEF n, new
<1>10. /\ node' \in [PodUids -> OnNode] /\ node'[u] = n /\ \A v \in PodUids : v # u => node'[v] = node[v]
  BY <1>3, <1>7, <1>8, <1>9
<1>11. StatusTyped'
  BY <1>1, <1>2, <1>6, <1>10 DEF StatusTyped
<1>12. known.uid # u
  BY <1>1, <1>3, <1>4 DEF InOrder
<1>13. InOrder'
  <2>1. \A v \in PodUids : node'[v].stage # "none" <=> v <= u
    <3>1. u <= u
      BY <1>3
    <3> QED BY <1>3, <1>5, <1>8, <1>10, <3>1
  <2>2. \A v \in PodUids : v \in {u, known.uid} => node'[v].stage # "none"
    BY <1>1, <1>8, <1>10 DEF InOrder
  <2> QED BY <1>2, <1>3, <1>6, <1>8, <1>10, <2>1, <2>2 DEF InOrder
<1>14. ~n.draft.made /\ n.results = <<>>
  BY <1>1, <1>3, <1>4, <1>8 DEF DraftsFit, Unstarted
<1>15. DraftsFit'
  BY <1>1, <1>10, <1>14 DEF DraftsFit, Unstarted
<1>16. StatusesFair'
  BY <1>1, <1>2, <1>6, <1>8, <1>10, StatusConstants DEF StatusesFair
<1>17. podStatuses[u] = Unset
  BY <1>1, <1>3, <1>4 DEF SetFollows, GoodSetting
<1>18. \A v \in PodUids : \A set : GoodSetting(node[v].stage, set) => GoodSetting(node'[v].stage, set)
  BY <1>4, <1>8, <1>10 DEF GoodSetting
<1>19. SetFollows'
  <2>1. EndsStay(Blank, Blank)
    BY DEF EndsStay
  <2> QED
    BY <1>1, <1>2, <1>6, <1>10, <1>12, <1>14, <1>17, <1>18, <2>1, StatusConstants DEF SetFollows
<1>20. \A v \in PodUids : \A set : set.version # 0 /\ GoodSetting(node[v].stage, set) => v # u
  BY <1>4 DEF GoodSetting
<1>21. TodoFollows'
  <2>1. \A t \in sender.todo : t[1] \in PodUids /\ t[1] # u
    BY <1>1, <1>20 DEF StatusTyped, Senders, TodoFollows
  <2> QED BY <1>1, <1>2, <1>6, <1>18, <2>1 DEF TodoFollows, Between
<1>22. SendsWhatIs'
  <2>1. sender.pc \in {"patch", "delete"} => sender.uid \in PodUids /\ sender.uid # u
    BY <1>1, <1>20 DEF SendsWhatIs
  <2>2. \A v \in PodUids : v # u => (Stopped(v)' <=> Stopped(v))
    BY <1>10 DEF Stopped, CouldHaveRunningContainers
  <2> QED
    BY <1>1, <1>2, <1>6, <1>10, <1>18, <2>1, <2>2 DEF SendsWhatIs, TerminalStopped, Between
<1>23. TerminalIsTrue'
  BY <1>6, StatusConstants DEF TerminalIsTrue, Terminals
<1> QED BY <1>11, <1>13, <1>15, <1>16, <1>19, <1>21, <1>22, <1>23 DEF StatusInv

----
(* Steps of the sender.                                                    *)

LEMMA NextIs ==
    ASSUME NEW todo, todo \in SUBSET (PodUids \X Settings)
    PROVE  Next_(todo) \in Senders /\ Next_(todo).pc \in {"idle", "next"} /\ Next_(todo).todo = todo
<1>1. CASE todo = {}
  BY <1>1, StatusConstants DEF Next_
<1>2. CASE todo # {}
  <2>1. Next_(todo) = [Waiting EXCEPT !.pc = "next", !.todo = todo]
    BY <1>2 DEF Next_
  <2> QED BY <2>1, StatusConstants DEF Senders
<1> QED BY <1>1, <1>2

\* A step after which nothing is being sent.
LEMMA SenderRests ==
    ASSUME StatusInv, UNCHANGED <<node, known>>, KeptOrDropped,
           podStatuses' \in [PodUids -> Settings], apiStatusVersions' \in [PodUids -> Nat],
           sender' \in Senders, sender'.pc \in {"idle", "next"}, sender'.todo \subseteq sender.todo,
           \/ api' = NoApiPod
           \/ api' = api /\ (api.uid \in PodUids => podStatuses'[api.uid] = podStatuses[api.uid])
    PROVE  StatusInv'
<1>1. StatusTyped /\ StatusesFair /\ SetFollows /\ TerminalIsTrue
  BY DEF StatusInv
<1>2. /\ EndsStay(api.status, api.status)
      /\ api.uid \in PodUids => EndsStay(api.status, podStatuses[api.uid].status)
  BY <1>1 DEF SetFollows, EndsStay
<1>3. api' \in Copies
  BY <1>1, StatusConstants DEF StatusTyped
<1>4. StatusTyped' /\ InOrder' /\ DraftsFit' /\ StatusesFair' /\ SetFollows'
  BY <1>1, <1>2, <1>3, ApiStepKeeps DEF StatusesFair
<1>5. TodoFollows'
  <2>1. \A t \in sender'.todo : t[1] \in PodUids
    BY <1>1 DEF StatusTyped, Senders
  <2> QED BY <2>1, StatusConstants, TodoKeeps
<1>6. SendsWhatIs'
  BY DEF SendsWhatIs
<1>7. TerminalIsTrue'
  BY <1>1, StatusConstants DEF TerminalIsTrue, CouldHaveRunningContainers
<1> QED BY <1>4, <1>5, <1>6, <1>7 DEF StatusInv

\* The sender takes what is set.
LEMMA TakesUpKeeps ==
    ASSUME StatusInv, UNCHANGED <<api, known, node, podStatuses>>,
           apiStatusVersions' \in [PodUids -> Nat],
           NEW S \in SUBSET PodUids, \A u \in S : podStatuses[u].version # 0,
           sender' = [Waiting EXCEPT !.pc = "next", !.todo = {<<u, podStatuses[u]>> : u \in S}]
    PROVE  StatusInv'
<1> DEFINE todo == {<<u, podStatuses[u]>> : u \in S}
<1>1. StatusTyped /\ StatusesFair /\ SetFollows /\ TerminalIsTrue
  BY DEF StatusInv
<1>2. todo \in SUBSET (PodUids \X Settings)
  BY <1>1 DEF StatusTyped
<1>3. /\ \A t \in todo : t[1] \in S /\ t[1] \in PodUids /\ t[2] = podStatuses[t[1]]
      /\ \A t, o \in todo : t[1] = o[1] => t = o
  OBVIOUS
<1> HIDE DEF todo
<1>4. sender' \in Senders /\ sender'.pc = "next" /\ sender'.todo = todo
  BY <1>2, StatusConstants DEF Senders, todo
<1>5. /\ EndsStay(api.status, api.status) /\ KeptOrDropped
      /\ api.uid \in PodUids => EndsStay(api.status, podStatuses[api.uid].status)
  BY <1>1 DEF SetFollows, EndsStay, KeptOrDropped
<1>6. StatusTyped' /\ InOrder' /\ DraftsFit' /\ StatusesFair' /\ SetFollows'
  BY <1>1, <1>4, <1>5, ApiStepKeeps DEF StatusesFair, StatusTyped
<1>7. \A s : EndsStay(s, s)
  BY DEF EndsStay
<1>8. TodoFollows'
  BY <1>1, <1>3, <1>4, <1>7 DEF TodoFollows, SetFollows, Between
<1>9. SendsWhatIs'
  BY <1>4 DEF SendsWhatIs
<1>10. TerminalIsTrue'
  BY <1>1 DEF TerminalIsTrue, CouldHaveRunningContainers
<1> QED BY <1>6, <1>8, <1>9, <1>10 DEF StatusInv

LEMMA SyncKeeps == ASSUME StatusInv, SyncSome \/ SyncAll PROVE StatusInv'
<1>1. UNCHANGED <<api, known, node, podStatuses>>
  BY DEF SyncSome, SyncAll
<1>2. apiStatusVersions \in [PodUids -> Nat] /\ podStatuses \in [PodUids -> Settings]
  BY DEF StatusInv, StatusTyped
<1>3. CASE SyncSome
  <2> DEFINE S == {x \in PodUids : podStatuses[x].version > apiStatusVersions[x]}
  <2>1. /\ apiStatusVersions' \in [PodUids -> Nat]
        /\ sender' = [Waiting EXCEPT !.pc = "next", !.todo = {<<u, podStatuses[u]>> : u \in S}]
    BY <1>2, <1>3 DEF SyncSome
  <2>2. \A u \in S : podStatuses[u].version # 0
    BY <1>2 DEF Settings
  <2>3. S \in SUBSET PodUids
    OBVIOUS
  <2> HIDE DEF S
  <2> QED BY <1>1, <2>1, <2>2, <2>3, TakesUpKeeps
<1>4. CASE SyncAll
  <2> DEFINE set == {u \in PodUids : podStatuses[u].version # 0}
             again == {u \in set : ~needsUpdate(u) /\ needsReconcile(u)}
             S == {u \in set : needsUpdate(u)} \cup again
  <2>1. /\ apiStatusVersions' = [u \in PodUids |-> IF u \in set \ again THEN apiStatusVersions[u] ELSE 0]
        /\ sender' = [Waiting EXCEPT !.pc = "next", !.todo = {<<u, podStatuses[u]>> : u \in S}]
    BY <1>4 DEF SyncAll
  <2>2. S \in SUBSET PodUids /\ \A u \in S : podStatuses[u].version # 0
    OBVIOUS
  <2> HIDE DEF S, again, set
  <2>3. apiStatusVersions' \in [PodUids -> Nat]
    BY <1>2, <2>1
  <2> QED BY <1>1, <2>1, <2>2, <2>3, TakesUpKeeps
<1> QED BY <1>3, <1>4

LEMMA ReadPodKeeps == ASSUME StatusInv, NEW t \in sender.todo, ReadPod(t) PROVE StatusInv'
<1> DEFINE left == sender.todo \ {t}
<1>1. /\ StatusTyped /\ StatusesFair /\ SetFollows /\ TerminalIsTrue /\ TodoFollows
      /\ t[1] \in PodUids /\ t[2] \in Settings
      /\ left \in SUBSET (PodUids \X Settings) /\ 0 \notin PodUids
  BY DEF StatusInv, StatusTyped, Senders, PodUids
<1>2. /\ podStatuses' = IF api.uid \in {0, t[1]} THEN podStatuses
                       ELSE [podStatuses EXCEPT ![t[1]] = Unset]
      /\ UNCHANGED <<api, known, node, apiStatusVersions>>
  BY DEF ReadPod
<1>3. /\ podStatuses' \in [PodUids -> Settings] /\ KeptOrDropped
      /\ api.uid \in PodUids => podStatuses'[api.uid] = podStatuses[api.uid]
      /\ apiStatusVersions' \in [PodUids -> Nat]
  BY <1>1, <1>2, StatusConstants DEF StatusTyped, KeptOrDropped
<1>4. CASE api.uid # t[1]
  <2>1. sender' = Next_(left)
    BY <1>4 DEF ReadPod
  <2> HIDE DEF left
  <2>2. sender' \in Senders /\ sender'.pc \in {"idle", "next"} /\ sender'.todo = left
    BY <1>1, <2>1, NextIs
  <2>3. left \subseteq sender.todo
    BY DEF left
  <2> QED BY <1>2, <1>3, <2>2, <2>3, SenderRests
<1>5. CASE api.uid = t[1]
  <2>1. /\ sender' = [pc |-> "patch", todo |-> left, uid |-> t[1], set |-> t[2], pod |-> api,
                      ran |-> CouldHaveRunningContainers(t[1])]
        /\ UNCHANGED podStatuses
    BY <1>2, <1>5 DEF ReadPod
  <2>2. \A o \in left : o[1] # t[1]
    BY <1>1 DEF TodoFollows
  <2>3. left \subseteq sender.todo
    OBVIOUS
  <2> HIDE DEF left
  <2>4. /\ sender'.pc = "patch" /\ sender'.todo = left /\ sender'.uid = t[1] /\ sender'.set = t[2]
        /\ sender'.pod = api /\ (sender'.ran <=> ~Stopped(t[1]))
    BY <2>1 DEF Stopped
  <2>5. sender' \in Senders
    <3>1. t[1] \in 0 .. MaxPods /\ api \in Copies
      BY <1>1 DEF PodUids, StatusTyped
    <3>2. CouldHaveRunningContainers(t[1]) \in BOOLEAN
      BY DEF CouldHaveRunningContainers
    <3> QED BY <1>1, <2>1, <3>1, <3>2 DEF Senders
  <2>6. EndsStay(api.status, api.status) /\ EndsStay(api.status, podStatuses[t[1]].status)
    BY <1>1, <1>5 DEF SetFollows, EndsStay
  <2>7. StatusTyped' /\ InOrder' /\ DraftsFit' /\ StatusesFair' /\ SetFollows'
    BY <1>1, <1>2, <1>3, <1>5, <2>1, <2>5, <2>6, ApiStepKeeps DEF StatusesFair, StatusTyped
  <2>8. TodoFollows'
    BY <1>2, <2>1, <2>2, <2>3, <2>4, TodoKeeps
  <2>9. SendsWhatIs'
    <3>1. t[2].version # 0 /\ GoodSetting(node[t[1]].stage, t[2]) /\ Between(t[1], t[2])
      BY <1>1 DEF TodoFollows
    <3>2. Fair(api.status) /\ TerminalStopped(t[1], api.status)
      BY <1>1, <1>5 DEF StatusesFair, TerminalIsTrue, TerminalStopped, Stopped
    <3>3. Between(t[1], t[2])' /\ TerminalStopped(t[1], api.status)' /\ (Stopped(t[1])' <=> Stopped(t[1]))
      BY <1>2, <2>1, <3>1, <3>2 DEF Between, TerminalStopped, Stopped, CouldHaveRunningContainers
    <3> QED
      BY <1>1, <1>2, <1>5, <2>4, <3>1, <3>2, <3>3 DEF SendsWhatIs, Between, TerminalStopped
  <2>10. TerminalIsTrue'
    BY <1>1, <1>2 DEF TerminalIsTrue, CouldHaveRunningContainers
  <2> QED BY <2>7, <2>8, <2>9, <2>10 DEF StatusInv
<1> QED BY <1>4, <1>5

LEMMA NothingToDoKeeps == ASSUME StatusInv, NothingToDo PROVE StatusInv'
<1>1. sender' = Waiting /\ UNCHANGED <<api, known, node, podStatuses, apiStatusVersions>>
  BY DEF NothingToDo, managerVars
<1>2. podStatuses' \in [PodUids -> Settings] /\ apiStatusVersions' \in [PodUids -> Nat] /\ KeptOrDropped
  BY <1>1 DEF StatusInv, StatusTyped, KeptOrDropped
<1> QED BY <1>1, <1>2, StatusConstants, SenderRests

LEMMA RemoveOrphansKeeps == ASSUME StatusInv, RemoveOrphanedStatuses PROVE StatusInv'
<1>1. StatusTyped /\ InOrder /\ StatusesFair /\ SetFollows /\ TodoFollows /\ SendsWhatIs /\ TerminalIsTrue
  BY DEF StatusInv
<1>2. /\ podStatuses' = [u \in PodUids |-> IF known.uid = u THEN podStatuses[u] ELSE Unset]
      /\ UNCHANGED <<api, known, node, apiStatusVersions, sender>>
  BY DEF RemoveOrphanedStatuses
<1>3. api.uid \in PodUids => podStatuses'[api.uid] = podStatuses[api.uid]
  BY <1>1, <1>2 DEF InOrder, SetFollows, GoodSetting
<1>4. podStatuses' \in [PodUids -> Settings] /\ KeptOrDropped
  BY <1>1, <1>2, StatusConstants DEF StatusTyped, KeptOrDropped
<1>5. /\ EndsStay(api.status, api.status)
      /\ api.uid \in PodUids => EndsStay(api.status, podStatuses[api.uid].status)
  BY <1>1 DEF SetFollows, EndsStay
<1>6. StatusTyped' /\ InOrder' /\ DraftsFit' /\ StatusesFair' /\ SetFollows'
  BY <1>1, <1>2, <1>3, <1>4, <1>5, ApiStepKeeps DEF StatusesFair, StatusTyped
<1>7. TodoFollows'
  <2>1. sender.pc \in {"patch", "delete"} => \A t \in sender.todo : t[1] # sender.uid
    BY <1>1 DEF TodoFollows
  <2>2. \A t \in sender.todo : t[1] \in PodUids
    BY <1>1 DEF StatusTyped, Senders
  <2> QED BY <1>2, <1>3, <2>1, <2>2, TodoKeeps
<1>8. SendsWhatIs'
  BY <1>1, <1>2, <1>3 DEF SendsWhatIs, Between, TerminalStopped, Stopped, CouldHaveRunningContainers
<1>9. TerminalIsTrue'
  BY <1>1, <1>2 DEF TerminalIsTrue, CouldHaveRunningContainers
<1> QED BY <1>6, <1>7, <1>8, <1>9 DEF StatusInv

LEMMA DeleteFinishedKeeps == ASSUME StatusInv, DeleteFinished PROVE StatusInv'
<1>1. /\ StatusTyped /\ sender.todo \in SUBSET (PodUids \X Settings)
      /\ sender.uid \in PodUids
  BY DEF StatusInv, StatusTyped, Senders, SendsWhatIs, DeleteFinished
<1>2. /\ sender' = Next_(sender.todo) /\ UNCHANGED <<known, node, apiStatusVersions>>
      /\ \/ api' = NoApiPod /\ podStatuses' = [podStatuses EXCEPT ![sender.uid] = Unset]
         \/ UNCHANGED <<api, podStatuses>>
  BY DEF DeleteFinished
<1>3. sender' \in Senders /\ sender'.pc \in {"idle", "next"} /\ sender'.todo = sender.todo
  BY <1>1, <1>2, NextIs
<1>4. /\ podStatuses' \in [PodUids -> Settings] /\ KeptOrDropped
      /\ apiStatusVersions' \in [PodUids -> Nat]
  BY <1>1, <1>2, StatusConstants DEF StatusTyped, KeptOrDropped
<1> QED BY <1>2, <1>3, <1>4, SenderRests

\* mergePodStatus: what is sent follows what is there, and what was set follows it.
LEMMA MergedIs ==
    ASSUME StatusInv, sender.pc = "patch", NEW merged \in MergedStatuses
    PROVE  /\ merged \in Statuses /\ Fair(merged) /\ merged.ctr = sender.set.status.ctr
           /\ merged.cond => merged.ready /\ merged.phase \notin Terminals
           /\ TerminalStopped(sender.uid, merged) /\ EndsStay(merged, sender.set.status)
           /\ api.uid = sender.uid => EndsStay(api.status, merged)
<1> DEFINE before == sender.pod.status
           new == sender.set.status
<1>1. before \in Statuses /\ new \in Statuses /\ sender.ran \in BOOLEAN
  BY DEF StatusInv, StatusTyped, Senders, Copies, Settings
<1>2. /\ Fair(new) /\ TerminalStopped(sender.uid, before) /\ (~sender.ran => Stopped(sender.uid))
      /\ api.uid = sender.uid => api.status = before /\ EndsStay(api.status, new)
  BY DEF StatusInv, SendsWhatIs, GoodSetting, Between
<1>3. PICK r \in {sender.ran, CouldHaveRunningContainers(sender.uid)} :
        merged = mergePodStatus(before, new, r)
  BY DEF MergedStatuses
<1>4. r \/ Stopped(sender.uid)
  BY <1>2, <1>3 DEF Stopped
<1> DEFINE phase == IF before.phase \notin Terminals /\ new.phase \in Terminals /\ r
                    THEN before.phase ELSE new.phase
           kept == [new EXCEPT !.phase = phase]
<1>5. phase \in Phases
  BY <1>1 DEF Statuses
<1>6. merged = IF kept.phase \in Terminals THEN [kept EXCEPT !.cond = FALSE] ELSE kept
  BY <1>1, <1>3 DEF mergePodStatus, Statuses
<1>7. /\ phase \in Terminals => phase = new.phase
      /\ phase \in Terminals => Stopped(sender.uid)
      /\ before.phase \in Terminals => phase = new.phase
  BY <1>2, <1>4 DEF TerminalStopped
<1> HIDE DEF phase
<1>8. kept \in Statuses /\ kept.phase = phase /\ kept.ctr = new.ctr /\ (kept.ready <=> new.ready)
      /\ (kept.cond <=> new.cond)
  BY <1>1, <1>5 DEF Statuses
<1> HIDE DEF kept
<1>9. merged \in Statuses /\ merged.phase = phase /\ merged.ctr = new.ctr /\ (merged.ready <=> new.ready)
      /\ (merged.cond <=> phase \notin Terminals /\ new.cond)
  <2>1. CASE phase \in Terminals
    BY <1>6, <1>8, <2>1 DEF Statuses
  <2>2. CASE phase \notin Terminals
    BY <1>6, <1>8, <2>2
  <2> QED BY <2>1, <2>2
<1> HIDE DEF before, new
<1>10. Fair(merged) /\ (merged.cond => merged.ready /\ merged.phase \notin Terminals)
  BY <1>2, <1>9 DEF Fair
<1>11. TerminalStopped(sender.uid, merged) /\ EndsStay(merged, new)
  BY <1>7, <1>9 DEF TerminalStopped, EndsStay
<1>12. api.uid = sender.uid => EndsStay(api.status, merged)
  BY <1>2, <1>7, <1>9 DEF EndsStay
<1> QED BY <1>9, <1>10, <1>11, <1>12 DEF new

\* A pod is deleted with the status it ended with: its worker set that one last.
LEMMA DeletableIsOver ==
    ASSUME StatusInv, sender.pc = "patch", NEW merged \in MergedStatuses, NEW pod,
           canBeDeleted(pod, sender.set.finished), pod.status = merged
    PROVE  /\ node[sender.uid].stage = "finished" /\ merged.ctr = "terminated"
           /\ merged.phase \in Terminals
BY MergedIs DEF canBeDeleted, StatusInv, SendsWhatIs, GoodSetting

\* The status is there, and the sender goes on to delete the pod or to the next.
LEMMA PatchedKeeps ==
    ASSUME StatusInv, sender.pc = "patch", NEW merged \in MergedStatuses, NEW pod, Patched(pod),
           pod.status = merged, UNCHANGED <<known, node, podStatuses>>,
           \/ UNCHANGED api /\ pod = sender.pod
           \/ api.uid = sender.uid /\ api' = [api EXCEPT !.status = merged] /\ pod = api'
    PROVE  StatusInv'
<1> DEFINE uid == sender.uid
<1>1. /\ StatusTyped /\ StatusesFair /\ SetFollows /\ TodoFollows /\ SendsWhatIs /\ TerminalIsTrue
      /\ sender \in Senders /\ sender.todo \in SUBSET (PodUids \X Settings) /\ uid \in PodUids
      /\ sender.set \in Settings /\ 0 \notin PodUids
  BY DEF StatusInv, StatusTyped, Senders, SendsWhatIs, PodUids
<1>2. /\ merged \in Statuses /\ Fair(merged) /\ TerminalStopped(uid, merged)
      /\ merged.cond => merged.ready /\ merged.phase \notin Terminals
      /\ EndsStay(merged, sender.set.status)
      /\ api.uid = uid => EndsStay(api.status, merged)
  BY MergedIs
<1>3. /\ api' \in Copies /\ api'.uid = api.uid
      /\ UNCHANGED api \/ (api.uid = uid /\ api'.status = merged)
      /\ api.uid = uid => api'.status = merged
  <2>1. CASE UNCHANGED api /\ pod = sender.pod
    BY <1>1, <2>1 DEF StatusTyped, SendsWhatIs
  <2>2. CASE api.uid = sender.uid /\ api' = [api EXCEPT !.status = merged]
    BY <1>1, <1>2, <2>2 DEF StatusTyped, Copies
  <2> QED BY <2>1, <2>2
<1>4. /\ apiStatusVersions' = [apiStatusVersions EXCEPT ![uid] = sender.set.version]
      /\ sender' = IF canBeDeleted(pod, sender.set.finished)
                   THEN [sender EXCEPT !.pc = "delete"] ELSE Next_(sender.todo)
  BY DEF Patched
<1>5. apiStatusVersions' \in [PodUids -> Nat]
  BY <1>1, <1>4 DEF StatusTyped, Settings
<1>6. /\ sender' \in Senders /\ sender'.todo = sender.todo
      /\ \/ sender'.pc \in {"idle", "next"}
         \/ /\ sender'.pc = "delete" /\ sender'.uid = uid /\ sender'.set = sender.set
            /\ canBeDeleted(pod, sender.set.finished)
  <2>1. CASE canBeDeleted(pod, sender.set.finished)
    <3>1. sender' = [sender EXCEPT !.pc = "delete"]
      BY <1>4, <2>1
    <3> QED BY <1>1, <2>1, <3>1 DEF Senders
  <2>2. CASE ~canBeDeleted(pod, sender.set.finished)
    BY <1>1, <1>4, <2>2, NextIs
  <2> QED BY <2>1, <2>2
<1>7. KeptOrDropped /\ podStatuses' \in [PodUids -> Settings]
  BY <1>1 DEF KeptOrDropped, StatusTyped
<1>8. EndsStay(api.status, api'.status) /\ Fair(api'.status)
  BY <1>1, <1>2, <1>3 DEF EndsStay, StatusesFair
<1>9. api.uid \in PodUids => EndsStay(api'.status, podStatuses[api.uid].status)
  <2>1. api.uid = uid => EndsStay(sender.set.status, podStatuses[uid].status)
    BY <1>1 DEF SendsWhatIs, Between
  <2>2. CASE UNCHANGED api
    BY <1>1, <2>2 DEF SetFollows
  <2>3. CASE api.uid = uid /\ api'.status = merged
    BY <1>2, <2>1, <2>3, FollowsOn
  <2> QED BY <1>3, <2>2, <2>3
<1>10. StatusTyped' /\ InOrder' /\ DraftsFit' /\ StatusesFair' /\ SetFollows'
  BY <1>3, <1>5, <1>6, <1>7, <1>8, <1>9, ApiStepKeeps
<1>11. \A t \in sender.todo : t[1] # uid
  BY <1>1 DEF TodoFollows
<1>12. TodoFollows'
  BY <1>3, <1>6, <1>11, TodoKeeps
<1>13. SendsWhatIs'
  <2>1. CASE sender'.pc \in {"idle", "next"}
    BY <2>1 DEF SendsWhatIs
  <2>2. CASE sender'.pc = "delete"
    <3>1. sender'.uid = uid /\ sender'.set = sender.set /\ canBeDeleted(pod, sender.set.finished)
      BY <1>6, <2>2
    <3>2. /\ node[uid].stage = "finished" /\ merged.ctr = "terminated" /\ merged.phase \in Terminals
      BY <3>1, DeletableIsOver
    <3> QED BY <1>1, <1>3, <2>2, <3>1, <3>2 DEF SendsWhatIs
  <2> QED BY <1>6, <2>1, <2>2
<1>14. TerminalIsTrue'
  <2>1. CASE UNCHANGED api
    BY <1>1, <2>1 DEF TerminalIsTrue, CouldHaveRunningContainers
  <2>2. CASE api.uid = uid /\ api'.status = merged
    BY <1>2, <1>3, <2>2 DEF TerminalIsTrue, TerminalStopped, Stopped, CouldHaveRunningContainers
  <2> QED BY <1>3, <2>1, <2>2
<1> QED BY <1>10, <1>12, <1>13, <1>14 DEF StatusInv

LEMMA PatchKeeps == ASSUME StatusInv, Patch PROVE StatusInv'
<1>1. sender.pc = "patch" /\ UNCHANGED <<known, node, podStatuses>>
  BY DEF Patch
<1>2. PICK merged \in MergedStatuses :
        \/ merged = sender.pod.status /\ Patched(sender.pod) /\ UNCHANGED api
        \/ api.uid = sender.uid /\ api' = [api EXCEPT !.status = merged] /\ Patched(api')
        \/ sender' = Next_(sender.todo) /\ UNCHANGED <<api, apiStatusVersions>>
  BY DEF Patch
<1>3. CASE merged = sender.pod.status /\ Patched(sender.pod) /\ UNCHANGED api
  BY <1>1, <1>3, PatchedKeeps
<1>4. CASE api.uid = sender.uid /\ api' = [api EXCEPT !.status = merged] /\ Patched(api')
  <2>1. api'.status = merged
    BY <1>4 DEF StatusInv, StatusTyped, Copies
  <2> DEFINE pod == api'
  <2>2. Patched(pod) /\ pod.status = merged /\ pod = api'
    BY <1>4, <2>1
  <2> HIDE DEF pod
  <2> QED BY <1>1, <1>4, <2>2, PatchedKeeps
<1>5. CASE sender' = Next_(sender.todo) /\ UNCHANGED <<api, apiStatusVersions>>
  <2>1. /\ sender.todo \in SUBSET (PodUids \X Settings) /\ KeptOrDropped
        /\ podStatuses' \in [PodUids -> Settings] /\ apiStatusVersions' \in [PodUids -> Nat]
    BY <1>1, <1>5 DEF StatusInv, StatusTyped, Senders, KeptOrDropped
  <2>2. sender' \in Senders /\ sender'.pc \in {"idle", "next"} /\ sender'.todo = sender.todo
    BY <1>5, <2>1, NextIs
  <2> QED BY <1>1, <1>5, <2>1, <2>2, SenderRests
<1> QED BY <1>2, <1>3, <1>4, <1>5

LEMMA StatusKept == StatusInv /\ [StatusNext]_statusVars => StatusInv'
<1> SUFFICES ASSUME StatusInv, [StatusNext]_statusVars PROVE StatusInv'
  OBVIOUS
<1>1. CASE UNCHANGED statusVars
  BY <1>1 DEF statusVars, StatusInv, StatusTyped, InOrder, DraftsFit, StatusesFair, SetFollows, TodoFollows,
              SendsWhatIs, TerminalIsTrue, Unstarted, Between, TerminalStopped, Stopped,
              CouldHaveRunningContainers
<1>2. CASE SenderStep \/ SyncAll \/ RemoveOrphanedStatuses
  BY <1>2, SyncKeeps, ReadPodKeeps, NothingToDoKeeps, PatchKeeps, DeleteFinishedKeeps, RemoveOrphansKeeps
     DEF SenderStep
<1>3. CASE CreatePod \/ DeletePod \/ Observe
  BY <1>3, CreatePodKeeps, DeletePodKeeps, ObserveKeeps
<1>4. ASSUME NEW u \in PodUids, \/ ContainerStops(u) \/ Probed(u) \/ Generate(u) \/ SetPodStatus(u)
                                \/ TerminatePod(u) \/ SetContainerReadiness(u)
      PROVE  StatusInv'
  BY <1>4, StatusContainersKeep, GenerateKeeps, SetPodStatusKeeps, TerminatePodKeeps, ReadinessKeeps
<1> QED BY <1>1, <1>2, <1>3, <1>4 DEF StatusNext

\* mergePodStatus: the API server shows a terminal phase only of a pod whose worker has
\* stopped its containers, and Ready only of one that is not over.
THEOREM StatusSoundness == StatusSpec => []TerminalIsTrue
<1>1. StatusInv => TerminalIsTrue
  BY DEF StatusInv
<1> QED BY <1>1, StatusStarts, StatusKept, PTL DEF StatusSpec

LEMMA StatusStepsAreRight == StatusInv /\ [StatusNext]_statusVars => RemovedWhenOver
<1> SUFFICES ASSUME StatusInv, [StatusNext]_statusVars PROVE RemovedWhenOver
  OBVIOUS
<1>1. StatusTyped /\ SendsWhatIs /\ 0 \notin PodUids
  BY DEF StatusInv, PodUids
<1>2. sender.pc = "delete" /\ api.uid = sender.uid =>
         /\ node[api.uid].stage = "finished" /\ api.status.ctr = "terminated"
         /\ api.status.phase \in Terminals
  BY <1>1 DEF SendsWhatIs
<1>3. api.uid # 0 /\ api'.uid = api.uid => EndsStay(api.status, api'.status)
  <2>1. EndsStay(api.status, api.status)
    BY DEF EndsStay
  <2>2. CASE UNCHANGED api
    BY <2>1, <2>2
  <2>3. CASE CreatePod
    BY <2>3 DEF CreatePod
  <2>4. CASE DeletePod
    <3>1. api' = NoApiPod \/ api'.status = api.status
      BY <1>1, <2>4 DEF DeletePod, StatusTyped, Copies
    <3> QED BY <2>1, <3>1, StatusConstants
  <2>5. CASE Patch
    <3>1. UNCHANGED api \/ \E merged \in MergedStatuses :
            api.uid = sender.uid /\ api' = [api EXCEPT !.status = merged]
      BY <2>5 DEF Patch
    <3>2. ASSUME NEW merged \in MergedStatuses, api.uid = sender.uid, api' = [api EXCEPT !.status = merged]
          PROVE  EndsStay(api.status, api'.status)
      <4>1. api'.status = merged /\ sender.pc = "patch"
        BY <1>1, <2>5, <3>2 DEF StatusTyped, Copies, Patch
      <4> QED BY <3>2, <4>1, MergedIs
    <3> QED BY <2>2, <3>1, <3>2
  <2>6. CASE DeleteFinished
    BY <2>1, <2>6, StatusConstants DEF DeleteFinished
  <2> QED
    BY <2>2, <2>3, <2>4, <2>5, <2>6 DEF StatusNext, SenderStep, statusVars, Observe, SyncSome, ReadPod,
       NothingToDo, SyncAll, RemoveOrphanedStatuses, ContainerStops, Probed, Generate, SetPodStatus,
       TerminatePod, SetContainerReadiness
<1> QED BY <1>2, <1>3 DEF RemovedWhenOver, EndsStay

\* syncPod: a pod is removed only when its worker has finished and the status it ended with
\* is there to be seen, and what the API server shows as ended never runs again.
THEOREM PodsEndOnce == StatusSpec => StatusSteps
<1>1. StatusSpec => []StatusInv
  BY StatusStarts, StatusKept, PTL DEF StatusSpec
<1> QED BY <1>1, StatusStepsAreRight, PTL DEF StatusSpec, StatusSteps

----
(* Prober.  What is said of an instance of the container, a status or a     *)
(* result, is true of that instance whenever it is read (Truthful,          *)
(* Justified): an instance that is over stays so, and an answer is counted  *)
(* for the instance that gave it.  A running container with a readiness     *)
(* probe has its worker, as the workers of a pod that goes on are there     *)
(* together (WorkersFit).                                                   *)

ProbedStatuses ==
  [phase : {"none", "Running", "Failed"}, id : Instances, running : BOOLEAN, started : BOOLEAN,
   ready : BOOLEAN]
ProbeResults == Outcomes \cup {"none", "unknown"}
ProbeWorkers ==
  [pc : {"none", "delayed", "waiting", "turn", "probing"}, id : Instances, onHold : BOOLEAN,
   lastResult : Outcomes \cup {"none"}, resultRun : Nat, stopping : BOOLEAN]
ProbedPodWorkers ==
  [pc : {"idle", "generated", "starting", "killing"},
   stage : {"sync", "terminating", "terminated"}, pending : BOOLEAN, draft : ProbedStatuses]
ResultKeepers ==
  [cache : [Instances -> ProbeResults], updates : Seq([id : Instances, result : ProbeResults])]

ProbesTyped ==
  /\ probeSpec \in [types : SUBSET ProbeTypes, restarts : BOOLEAN, failures : Nat]
  /\ container \in [id : Instances, running : BOOLEAN]
  /\ probeStatus \in ProbedStatuses
  /\ podWorker \in ProbedPodWorkers
  /\ workers \in [ProbeTypes -> ProbeWorkers]
  /\ results \in [ProbeTypes -> ResultKeepers]
  /\ probed \in [ProbeTypes -> [Outcomes -> SUBSET Instances]]

Dead(i) == i < container.id \/ (i = container.id /\ ~container.running)
Readied(i) == i \in probed["readiness"]["success"]

\* A status, the one set or the one in hand.
Truthful(s) ==
  /\ ~s.running => Dead(s.id)
  /\ ~s.running /\ s.id # 0 /\ ~probeSpec.restarts => s.phase = "Failed"
  /\ s.phase = "Failed" => ~s.running /\ s.id = container.id
  /\ s.ready /\ "readiness" \in probeSpec.types => Readied(s.id)
SyncIsFit ==
  /\ container.running => container.id # 0 /\ podWorker.stage # "terminated"
  /\ Truthful(probeStatus) /\ Truthful(podWorker.draft)
  /\ probeStatus.phase = "Failed" => podWorker.stage # "sync"
  /\ podWorker.pc \in {"generated", "starting"} => podWorker.draft.id = container.id
  /\ podWorker.pc = "starting" => podWorker.stage = "sync" /\ podWorker.draft.phase # "Failed"
  /\ podWorker.pc = "killing" => podWorker.stage = "terminating"

\* The workers.
WorkerFit(t) ==
  /\ ~Exists(t) => workers[t].id = 0
  /\ workers[t].pc = "probing" => workers[t].id # 0
  /\ workers[t].stopping => podWorker.stage # "sync"
  /\ t = "readiness" /\ workers[t].stopping => podWorker.stage = "terminated"
WorkersFit ==
  /\ \A t \in ProbeTypes : WorkerFit(t)
  /\ podWorker.stage = "sync" => \/ \A t \in probeSpec.types : Exists(t)
                                 \/ \A t \in probeSpec.types : ~Exists(t)
  /\ (container.running \/ podWorker.pc = "starting") /\ "readiness" \in probeSpec.types =>
       Exists("readiness")

\* A result, cached or sent.
Justified(t, i, result) ==
  /\ t = "readiness" /\ result = "success" => Readied(i)
  /\ t \in {"liveness", "startup"} /\ result = "failure" => Dead(i) \/ i \in probed[t]["failure"]
KeptFor(r, id) == r.cache[0] = "none" /\ \A i \in Instances : r.cache[i] # "none" => i = id
AllJustified(t, r) ==
  /\ \A i \in Instances : Justified(t, i, r.cache[i])
  /\ \A k \in 1 .. Len(r.updates) : Justified(t, r.updates[k].id, r.updates[k].result)
ResultsFit ==
  \A t \in ProbeTypes : KeptFor(results[t], workers[t].id) /\ AllJustified(t, results[t])

ProberInv == ProbesTyped /\ SyncIsFit /\ WorkersFit /\ ResultsFit

----
\* What a step leaves as it was.
ProbingMovesOn ==
  /\ probeSpec' = probeSpec
  /\ container' = container \/ container'.id > container.id
       \/ (container'.id = container.id /\ ~container'.running)
  /\ \A t \in ProbeTypes, o \in Outcomes : probed[t][o] \subseteq probed'[t][o]

\* The instances of a container are numbers, and there may be none.
LEMMA ZeroIsInstance == 0 \in Instances /\ Instances \subseteq Int
BY ProberAssumption DEF ProberAssumption, Instances

\* What is over stays over, what has answered has answered: a result that is justified
\* stays so.
LEMMA StaysJustified ==
  ASSUME ProbesTyped, container' \in [id : Instances, running : BOOLEAN], ProbingMovesOn
  PROVE  /\ \A i \in Instances : Dead(i) => Dead(i)'
         /\ \A i \in Instances : Readied(i) => Readied(i)'
         /\ \A t \in ProbeTypes, i \in Instances, v \in ProbeResults :
              Justified(t, i, v) => Justified(t, i, v)'
<1>1. \A i \in Instances : Dead(i) => Dead(i)'
  <2>1. container.id \in Int /\ container'.id \in Int /\ Instances \subseteq Int
    BY ZeroIsInstance DEF ProbesTyped
  <2> QED BY <2>1 DEF ProbingMovesOn, Dead
<1>2. \A i \in Instances : Readied(i) => Readied(i)'
  BY DEF ProbingMovesOn, Readied, ProbeTypes, Outcomes
<1>3. ASSUME NEW t \in ProbeTypes, NEW i \in Instances, NEW v \in ProbeResults, Justified(t, i, v)
      PROVE  Justified(t, i, v)'
  <2>1. i \in probed[t]["failure"] => i \in probed'[t]["failure"]
    BY DEF ProbingMovesOn, Outcomes
  <2> QED BY <1>1, <1>2, <1>3, <2>1 DEF Justified
<1> QED BY <1>1, <1>2, <1>3

\* ResultsManager.set: the result is cached, and sent behind what is on its way.
LEMMA SetResultIs ==
  ASSUME NEW r \in ResultKeepers, NEW i \in Instances, NEW v \in ProbeResults
  PROVE  /\ SetResult(r, i, v) \in ResultKeepers
         /\ SetResult(r, i, v).cache = [r.cache EXCEPT ![i] = v]
         /\ \A k \in 1 .. Len(SetResult(r, i, v).updates) :
              \/ SetResult(r, i, v).updates[k] = [id |-> i, result |-> v]
              \/ k \in 1 .. Len(r.updates) /\ SetResult(r, i, v).updates[k] = r.updates[k]
<1> DEFINE U == [id : Instances, result : ProbeResults]
           a == Append(r.updates, [id |-> i, result |-> v])
<1>1. /\ r.cache \in [Instances -> ProbeResults] /\ r.updates \in Seq(U)
      /\ r = [cache |-> r.cache, updates |-> r.updates]
  BY DEF ResultKeepers
<1>2. [id |-> i, result |-> v] \in U
  OBVIOUS
<1> HIDE DEF U
<1>3. /\ a \in Seq(U) /\ Len(a) = Len(r.updates) + 1 /\ Len(r.updates) \in Nat
      /\ \A k \in 1 .. Len(a) : a[k] = IF k <= Len(r.updates) THEN r.updates[k]
                                       ELSE [id |-> i, result |-> v]
  BY <1>1, <1>2
<1>4. \A k \in 1 .. Len(a) : \/ a[k] = [id |-> i, result |-> v]
                             \/ k \in 1 .. Len(r.updates) /\ a[k] = r.updates[k]
  BY <1>3
<1>5. CASE r.cache[i] = v
  <2>1. SetResult(r, i, v) = r
    BY <1>5 DEF SetResult
  <2>2. [r.cache EXCEPT ![i] = v] = r.cache
    BY <1>1, <1>5
  <2> QED BY <2>1, <2>2
<1>6. CASE r.cache[i] # v
  <2>1. SetResult(r, i, v) = [cache |-> [r.cache EXCEPT ![i] = v], updates |-> a]
    BY <1>6 DEF SetResult
  <2>2. [r.cache EXCEPT ![i] = v] \in [Instances -> ProbeResults]
    BY <1>1
  <2> HIDE DEF a
  <2>3. SetResult(r, i, v) \in ResultKeepers
    BY <1>3, <2>1, <2>2 DEF ResultKeepers, U
  <2> QED BY <1>4, <2>1, <2>3
<1> QED BY <1>5, <1>6

\* The results of a worker that goes on with another instance, or ends.
Cleared(r, id) == IF id = 0 THEN r ELSE RemoveResult(r, id)

\* ResultsManager.remove: nothing is cached any more, what was sent stays justified.
LEMMA ClearedIs ==
  ASSUME NEW t \in ProbeTypes, NEW r \in ResultKeepers, NEW id \in Instances, KeptFor(r, id),
         AllJustified(t, r)
  PROVE  /\ Cleared(r, id) \in ResultKeepers /\ AllJustified(t, Cleared(r, id))
         /\ \A i \in Instances : Cleared(r, id).cache[i] = "none"
         /\ \A n \in Instances : KeptFor(Cleared(r, id), n)
<1>1. /\ r.cache \in [Instances -> ProbeResults]
      /\ Cleared(r, id).updates = r.updates
      /\ r.updates \in Seq([id : Instances, result : ProbeResults])
  BY DEF Cleared, RemoveResult, ResultKeepers
<1>2. \A i \in Instances : Cleared(r, id).cache[i] = "none"
  BY <1>1, ZeroIsInstance DEF Cleared, RemoveResult, KeptFor, ResultKeepers
<1>3. Cleared(r, id) \in ResultKeepers
  <2>1. [r.cache EXCEPT ![id] = "none"] \in [Instances -> ProbeResults]
    BY <1>1 DEF ProbeResults
  <2>2. id # 0 => Cleared(r, id) = [cache   |-> [r.cache EXCEPT ![id] = "none"],
                                    updates |-> r.updates]
    BY DEF Cleared, RemoveResult, ResultKeepers
  <2> QED BY <1>1, <2>1, <2>2 DEF Cleared, ResultKeepers
<1>4. AllJustified(t, Cleared(r, id))
  BY <1>1, <1>2 DEF AllJustified, Justified
<1> QED BY <1>2, <1>3, <1>4, ZeroIsInstance DEF KeptFor

\* ResultsManager.set keeps the results of one instance and its worker.
LEMMA SetFits ==
  ASSUME NEW t \in ProbeTypes, NEW r \in ResultKeepers, NEW id \in Instances, id # 0,
         KeptFor(r, id), AllJustified(t, r), NEW v \in ProbeResults, Justified(t, id, v)
  PROVE  /\ SetResult(r, id, v) \in ResultKeepers /\ KeptFor(SetResult(r, id, v), id)
         /\ AllJustified(t, SetResult(r, id, v))
<1> DEFINE n == SetResult(r, id, v)
<1>1. /\ n \in ResultKeepers /\ n.cache = [r.cache EXCEPT ![id] = v]
      /\ \A k \in 1 .. Len(n.updates) :
           \/ n.updates[k] = [id |-> id, result |-> v]
           \/ k \in 1 .. Len(r.updates) /\ n.updates[k] = r.updates[k]
  BY SetResultIs
<1>2. r.cache \in [Instances -> ProbeResults]
  BY DEF ResultKeepers
<1> HIDE DEF n
<1>3. \A i \in Instances : n.cache[i] = IF i = id THEN v ELSE r.cache[i]
  BY <1>1, <1>2
<1>4. KeptFor(n, id)
  BY <1>3, ZeroIsInstance DEF KeptFor
<1>5. AllJustified(t, n)
  <2>1. \A i \in Instances : Justified(t, i, n.cache[i])
    BY <1>3 DEF AllJustified
  <2>2. ASSUME NEW k \in 1 .. Len(n.updates)
        PROVE  Justified(t, n.updates[k].id, n.updates[k].result)
    BY <1>1 DEF AllJustified
  <2> QED BY <2>1, <2>2 DEF AllJustified
<1> QED BY <1>1, <1>4, <1>5 DEF n

\* All that a ResultsManager holds stays justified.
LEMMA AllStayJustified ==
  ASSUME ProbesTyped, container' \in [id : Instances, running : BOOLEAN], ProbingMovesOn,
         NEW t \in ProbeTypes, NEW r \in ResultKeepers, AllJustified(t, r)
  PROVE  AllJustified(t, r)'
<1>1. \A i \in Instances, v \in ProbeResults : Justified(t, i, v) => Justified(t, i, v)'
  BY StaysJustified
<1>2. \A i \in Instances : r.cache[i] \in ProbeResults
  BY DEF ResultKeepers
<1>3. \A k \in 1 .. Len(r.updates) :
        r.updates[k].id \in Instances /\ r.updates[k].result \in ProbeResults
  <2> DEFINE U == [id : Instances, result : ProbeResults]
  <2>1. r.updates \in Seq(U)
    BY DEF ResultKeepers
  <2> HIDE DEF U
  <2>2. \A k \in 1 .. Len(r.updates) : r.updates[k] \in U
    BY <2>1
  <2> QED BY <2>2 DEF U
<1>4. \A i \in Instances : Justified(t, i, r.cache[i])'
  BY <1>1, <1>2 DEF AllJustified
<1>5. \A k \in 1 .. Len(r.updates) : Justified(t, r.updates[k].id, r.updates[k].result)'
  BY <1>1, <1>3 DEF AllJustified
<1> QED BY <1>4, <1>5 DEF AllJustified

\* A status stays true as the container goes on, unless one that failed is replaced.
LEMMA StaysTruthful ==
  ASSUME ProbesTyped, NEW s \in ProbedStatuses, Truthful(s), ProbingMovesOn,
         container' \in [id : Instances, running : BOOLEAN],
         s.phase = "Failed" => container'.id = container.id
  PROVE  Truthful(s)'
<1>1. /\ \A i \in Instances : Dead(i) => Dead(i)'
      /\ \A i \in Instances : Readied(i) => Readied(i)'
  BY StaysJustified
<1>2. s.id \in Instances
  BY DEF ProbedStatuses
<1> QED BY <1>1, <1>2 DEF Truthful, ProbingMovesOn

----
\* A worker that is there moves, with its results: the invariant asks of the worker's next
\* state only that it does not end before the pod does.
LEMMA WorkerKeepsInv ==
  ASSUME ProberInv, NEW t \in ProbeTypes, Exists(t),
         NEW w \in ProbeWorkers, NEW r \in ResultKeepers,
         workers' = [workers EXCEPT ![t] = w], results' = [results EXCEPT ![t] = r],
         UNCHANGED <<probeSpec, container, probeStatus, podWorker>>,
         probed' \in [ProbeTypes -> [Outcomes -> SUBSET Instances]], ProbingMovesOn,
         w.pc = "none" => /\ w.id = 0 /\ podWorker.stage # "sync"
                          /\ t = "readiness" => ~container.running,
         w.pc = "probing" => w.id # 0, w.stopping => workers[t].stopping,
         KeptFor(r, w.id), AllJustified(t, r)'
  PROVE  ProberInv'
<1>1. ProbesTyped'
  BY DEF ProberInv, ProbesTyped
<1>2. /\ container' \in [id : Instances, running : BOOLEAN]
      /\ container' = container /\ podWorker' = podWorker
  BY DEF ProberInv, ProbesTyped
<1>3. SyncIsFit'
  <2>1. probeStatus \in ProbedStatuses /\ podWorker.draft \in ProbedStatuses
    BY DEF ProberInv, ProbesTyped, ProbedPodWorkers
  <2>2. \A s \in ProbedStatuses : Truthful(s) => Truthful(s)'
    BY <1>2, StaysTruthful DEF ProberInv
  <2>3. Truthful(probeStatus)' /\ Truthful(podWorker.draft)'
    BY <2>1, <2>2 DEF ProberInv, SyncIsFit
  <2> QED BY <2>3 DEF ProberInv, SyncIsFit
<1>4. /\ DOMAIN workers = ProbeTypes /\ DOMAIN results = ProbeTypes
      /\ workers'[t] = w /\ \A u \in ProbeTypes : u # t => workers'[u] = workers[u]
      /\ results'[t] = r /\ \A u \in ProbeTypes : u # t => results'[u] = results[u]
      /\ \A u \in ProbeTypes : results[u] \in ResultKeepers
  BY DEF ProberInv, ProbesTyped
<1>5. WorkersFit'
  <2>1. \A u \in ProbeTypes : WorkerFit(u)'
    BY <1>2, <1>4 DEF ProberInv, WorkersFit, WorkerFit, Exists
  <2>2. podWorker.stage = "sync" => \A u \in ProbeTypes : Exists(u)' = Exists(u)
    BY <1>4 DEF Exists
  <2>3. probeSpec.types \subseteq ProbeTypes
    BY DEF ProberInv, ProbesTyped
  <2>4. (podWorker.stage = "sync" => \/ \A u \in probeSpec.types : Exists(u)
                                     \/ \A u \in probeSpec.types : ~Exists(u))'
    BY <1>2, <2>2, <2>3 DEF ProberInv, WorkersFit
  <2>5. ((container.running \/ podWorker.pc = "starting") /\ "readiness" \in probeSpec.types =>
           Exists("readiness"))'
    <3>1. podWorker.pc = "starting" => podWorker.stage = "sync"
      BY DEF ProberInv, SyncIsFit
    <3> QED BY <1>2, <1>4, <2>3, <3>1 DEF ProberInv, WorkersFit, Exists
  <2> QED BY <2>1, <2>4, <2>5 DEF WorkersFit
<1>6. ResultsFit'
  <2>1. ASSUME NEW u \in ProbeTypes, u # t
        PROVE  KeptFor(results'[u], workers'[u].id) /\ AllJustified(u, results[u])'
    <3>1. PICK x \in ResultKeepers : x = results[u]
      BY <1>4
    <3>2. AllJustified(u, x) => AllJustified(u, x)'
      BY <1>2, AllStayJustified DEF ProberInv
    <3>3. results'[u] = x /\ workers'[u] = workers[u]
      BY <1>4, <2>1, <3>1
    <3>4. AllJustified(u, results[u])' <=> AllJustified(u, x)'
      BY <3>3 DEF AllJustified
    <3> QED BY <3>1, <3>2, <3>3, <3>4 DEF ProberInv, ResultsFit
  <2>2. AllJustified(t, results[t])' <=> AllJustified(t, r)'
    BY <1>4 DEF AllJustified
  <2> QED BY <1>4, <2>1, <2>2 DEF ResultsFit
<1> QED BY <1>1, <1>3, <1>5, <1>6 DEF ProberInv

\* What a worker starts from, and the first result of an instance.
LEMMA ProbesConstants ==
  /\ \A t \in ProbeTypes : initialValue(t) \in ProbeResults
                           /\ \A i : Justified(t, i, initialValue(t))
  /\ NoProbeWorker \in ProbeWorkers /\ Outcomes \subseteq ProbeResults
  /\ \A r, w : Cleared(r, w) = IF w = 0 THEN r ELSE RemoveResult(r, w)
BY ZeroIsInstance DEF ProbeTypes, initialValue, ProbeResults, Outcomes, Justified, NoProbeWorker,
   ProbeWorkers, Cleared

\* What the invariant says of one worker.
LEMMA WorkerFacts ==
  ASSUME ProberInv, NEW t \in ProbeTypes
  PROVE  /\ workers[t] \in ProbeWorkers /\ results[t] \in ResultKeepers /\ WorkerFit(t)
         /\ KeptFor(results[t], workers[t].id) /\ AllJustified(t, results[t])
         /\ workers[t].id \in Instances /\ probeStatus.id \in Instances
         /\ container' = container => container' \in [id : Instances, running : BOOLEAN]
BY DEF ProberInv, ProbesTyped, WorkersFit, ResultsFit, ProbeWorkers, ProbedStatuses

\* A worker moves, and no probe has answered.
LEMMA QuietStep ==
  ASSUME ProberInv, NEW t \in ProbeTypes, Exists(t),
         NEW w \in ProbeWorkers, NEW r \in ResultKeepers,
         workers' = [workers EXCEPT ![t] = w], results' = [results EXCEPT ![t] = r],
         UNCHANGED <<probeSpec, container, probeStatus, podWorker, probed>>,
         w.pc = "none" => /\ w.id = 0 /\ podWorker.stage # "sync"
                          /\ t = "readiness" => ~container.running,
         w.pc = "probing" => w.id # 0, w.stopping => workers[t].stopping,
         KeptFor(r, w.id), AllJustified(t, r)
  PROVE  ProberInv'
<1>1. ProbingMovesOn
  BY DEF ProbingMovesOn
<1>2. AllJustified(t, r)'
  BY <1>1, AllStayJustified, WorkerFacts DEF ProberInv
<1>3. probed' \in [ProbeTypes -> [Outcomes -> SUBSET Instances]]
  BY DEF ProberInv, ProbesTyped
<1> QED BY <1>1, <1>2, <1>3, WorkerKeepsInv

\* A worker ends, and takes what it knows of its container with it.
LEMMA EndKeepsInv ==
  ASSUME ProberInv, NEW t \in ProbeTypes, Exists(t), ProbingEnds(t, workers[t], results[t]),
         UNCHANGED <<probeSpec, container, probeStatus, podWorker, probed>>,
         podWorker.stage # "sync", t = "readiness" => ~container.running
  PROVE  ProberInv'
<1>1. PICK r : r = Cleared(results[t], workers[t].id)
  OBVIOUS
<1>2. /\ workers' = [workers EXCEPT ![t] = NoProbeWorker]
      /\ results' = [results EXCEPT ![t] = r]
  BY <1>1 DEF ProbingEnds, Cleared
<1>3. /\ r \in ResultKeepers /\ AllJustified(t, r) /\ KeptFor(r, 0)
  BY <1>1, ClearedIs, WorkerFacts, ZeroIsInstance
<1>4. NoProbeWorker.pc = "none" /\ NoProbeWorker.id = 0 /\ NoProbeWorker.stopping = FALSE
  BY DEF NoProbeWorker
<1>5. PICK w \in ProbeWorkers : w = NoProbeWorker
  BY ProbesConstants
<1>6. w.pc = "none" /\ w.id = 0 /\ w.stopping = FALSE /\ workers' = [workers EXCEPT ![t] = w]
  BY <1>2, <1>4, <1>5
<1> QED BY <1>2, <1>3, <1>6, QuietStep

\* A stopped worker ends only as its pod does.
LEMMA StopsWaitingKeeps ==
  ASSUME ProberInv, NEW t \in ProbeTypes, StopsWaiting(t)
  PROVE  ProberInv'
<1>1. podWorker.stage # "sync" /\ (t = "readiness" => podWorker.stage = "terminated")
  BY WorkerFacts DEF StopsWaiting, WorkerFit
<1>2. t = "readiness" => ~container.running
  BY <1>1 DEF ProberInv, SyncIsFit
<1> QED BY <1>1, <1>2, EndKeepsInv DEF StopsWaiting, Exists

\* A worker goes on.
LEMMA StayKeepsInv ==
  ASSUME ProberInv, NEW t \in ProbeTypes, Exists(t),
         NEW x \in ProbeWorkers, NEW r \in ResultKeepers,
         NEW pc \in {"waiting", "turn", "probing"}, ProbingStays(t, x, r, pc),
         UNCHANGED <<probeSpec, container, probeStatus, podWorker, probed>>,
         pc = "probing" => x.id # 0, x.stopping => workers[t].stopping,
         KeptFor(r, x.id), AllJustified(t, r)
  PROVE  ProberInv'
<1>1. PICK w : w = [x EXCEPT !.pc = pc]
  OBVIOUS
<1>2. w \in ProbeWorkers /\ w.pc = pc /\ w.id = x.id /\ w.stopping = x.stopping
  BY <1>1 DEF ProbeWorkers
<1>3. workers' = [workers EXCEPT ![t] = w] /\ results' = [results EXCEPT ![t] = r]
  BY <1>1 DEF ProbingStays
<1> QED BY <1>2, <1>3, QuietStep

\* run: the worker's turn.
LEMMA TurnComesKeeps ==
  ASSUME ProberInv, NEW t \in ProbeTypes, TurnComes(t)
  PROVE  ProberInv'
BY StayKeepsInv, WorkerFacts DEF TurnComes, Exists

\* A probe that could not be made changes nothing.
LEMMA ProbeFailsKeeps ==
  ASSUME ProberInv, NEW t \in ProbeTypes, ProbeFails(t)
  PROVE  ProberInv'
BY StayKeepsInv, WorkerFacts DEF ProbeFails, Exists

\* doProbe: the worker of another instance than the status names forgets what it knew and
\* starts from the initial value.
LEMMA ResumedIs ==
  ASSUME ProberInv, NEW t \in ProbeTypes, probeStatus.id # 0
  PROVE  /\ Resumed(t).w \in ProbeWorkers /\ Resumed(t).r \in ResultKeepers
         /\ Resumed(t).w.id = probeStatus.id /\ Resumed(t).w.stopping = workers[t].stopping
         /\ KeptFor(Resumed(t).r, probeStatus.id) /\ AllJustified(t, Resumed(t).r)
<1>1. CASE workers[t].id = probeStatus.id
  BY <1>1, WorkerFacts DEF Resumed
<1>2. CASE workers[t].id # probeStatus.id
  <2> DEFINE w == [workers[t] EXCEPT !.id = probeStatus.id, !.onHold = FALSE]
             c == Cleared(results[t], workers[t].id)
             r == SetResult(c, probeStatus.id, initialValue(t))
  <2>1. Resumed(t) = [w |-> w, r |-> r]
    BY <1>2 DEF Resumed, Cleared
  <2>2. w \in ProbeWorkers /\ w.id = probeStatus.id /\ w.stopping = workers[t].stopping
    BY WorkerFacts DEF ProbeWorkers
  <2>3. c \in ResultKeepers /\ AllJustified(t, c) /\ KeptFor(c, probeStatus.id)
    BY ClearedIs, WorkerFacts
  <2>4. initialValue(t) \in ProbeResults /\ Justified(t, probeStatus.id, initialValue(t))
    BY ProbesConstants
  <2> HIDE DEF w, c
  <2>5. r \in ResultKeepers /\ KeptFor(r, probeStatus.id) /\ AllJustified(t, r)
    BY <2>3, <2>4, SetFits, WorkerFacts
  <2> HIDE DEF r
  <2> QED BY <2>1, <2>2, <2>5
<1> QED BY <1>1, <1>2

\* doProbe: a worker gives up only a pod that has failed, and sets a failure itself only for
\* an instance that is over.
LEMMA DoProbeKeeps ==
  ASSUME ProberInv, NEW t \in ProbeTypes, doProbe(t)
  PROVE  ProberInv'
<1>1. Exists(t) /\ UNCHANGED <<probeSpec, container, probeStatus, podWorker, probed>>
  BY DEF doProbe, Exists
<1>2. Truthful(probeStatus) /\ (probeStatus.phase = "Failed" => podWorker.stage # "sync")
  BY DEF ProberInv, SyncIsFit
<1>3. CASE probeStatus.phase = "Failed"
  <2>1. ProbingEnds(t, workers[t], results[t])
    BY <1>3 DEF doProbe
  <2>2. Dead(container.id) /\ container.id \in Int
    BY <1>2, <1>3, ZeroIsInstance DEF Truthful, ProberInv, ProbesTyped
  <2>3. ~container.running
    BY <2>2 DEF Dead
  <2> QED BY <1>1, <1>2, <1>3, <2>1, <2>3, EndKeepsInv
<1>4. CASE probeStatus.phase # "Failed" /\ probeStatus.id = 0
  BY <1>1, <1>4, StayKeepsInv, WorkerFacts DEF doProbe
<1>5. CASE probeStatus.phase # "Failed" /\ probeStatus.id # 0
  <2>1. PICK w, r : w = Resumed(t).w /\ r = Resumed(t).r
    OBVIOUS
  <2>2. /\ w \in ProbeWorkers /\ r \in ResultKeepers
        /\ w.id = probeStatus.id /\ probeStatus.id \in Instances
        /\ w.stopping = workers[t].stopping /\ KeptFor(r, w.id) /\ AllJustified(t, r)
    BY <1>5, <2>1, ResumedIs, WorkerFacts
  <2>3. \/ ProbingStays(t, w, r, "waiting") \/ ProbingStays(t, w, r, "probing")
        \/ ~probeStatus.running /\ probeSpec.restarts
           /\ ProbingStays(t, w, SetResult(r, w.id, "failure"), "waiting")
        \/ ~probeStatus.running /\ ~probeSpec.restarts
    BY <1>5, <2>1 DEF doProbe
  <2>4. CASE ProbingStays(t, w, r, "waiting") \/ ProbingStays(t, w, r, "probing")
    BY <1>1, <1>5, <2>2, <2>4, StayKeepsInv
  <2>5. CASE ~probeStatus.running /\ probeSpec.restarts
             /\ ProbingStays(t, w, SetResult(r, w.id, "failure"), "waiting")
    <3>1. PICK f : f = SetResult(r, w.id, "failure")
      OBVIOUS
    <3>2. Justified(t, w.id, "failure")
      BY <1>2, <2>2, <2>5 DEF Truthful, Justified
    <3>3. "failure" \in ProbeResults
      BY DEF ProbeResults, Outcomes
    <3>4. f \in ResultKeepers /\ KeptFor(f, w.id) /\ AllJustified(t, f)
      BY <1>5, <2>2, <3>1, <3>2, <3>3, SetFits
    <3>5. ProbingStays(t, w, f, "waiting")
      BY <2>5, <3>1
    <3> QED BY <1>1, <2>2, <3>4, <3>5, StayKeepsInv
  <2>6. CASE ~probeStatus.running /\ ~probeSpec.restarts
    BY <1>2, <1>5, <2>6 DEF Truthful
  <2> QED BY <2>3, <2>4, <2>5, <2>6
<1> QED BY <1>3, <1>4, <1>5

\* The history takes in an answer.
LEMMA AnswerFits ==
  ASSUME ProberInv, NEW t \in ProbeTypes, NEW outcome \in Outcomes, ProbeAnswers(t, outcome)
  PROVE  /\ probed' \in [ProbeTypes -> [Outcomes -> SUBSET Instances]] /\ ProbingMovesOn
         /\ workers[t].id \in probed'[t][outcome]
<1>1. /\ probed \in [ProbeTypes -> [Outcomes -> SUBSET Instances]]
      /\ probed' = [probed EXCEPT ![t][outcome] = @ \cup {workers[t].id}]
      /\ workers[t].id \in Instances
  BY WorkerFacts DEF ProbeAnswers, ProberInv, ProbesTyped
<1>2. UNCHANGED <<probeSpec, container>>
  BY DEF ProbeAnswers
<1> QED BY <1>1, <1>2 DEF ProbingMovesOn

\* A probe's answer is set for the instance that the worker probed.
LEMMA ProbeAnswersKeeps ==
  ASSUME ProberInv, NEW t \in ProbeTypes, NEW outcome \in Outcomes, ProbeAnswers(t, outcome)
  PROVE  ProberInv'
<1>1. /\ Exists(t) /\ UNCHANGED <<probeSpec, container, probeStatus, podWorker>>
      /\ workers[t].pc = "probing" /\ workers[t].id # 0
  BY WorkerFacts DEF ProbeAnswers, Exists, WorkerFit
<1>2. PICK id \in Instances : id = workers[t].id
  BY WorkerFacts
<1>3. /\ probed' \in [ProbeTypes -> [Outcomes -> SUBSET Instances]] /\ ProbingMovesOn
      /\ Justified(t, id, outcome)'
  <2>1. /\ probed' \in [ProbeTypes -> [Outcomes -> SUBSET Instances]] /\ ProbingMovesOn
        /\ id \in probed'[t][outcome]
    BY <1>2, AnswerFits
  <2> QED BY <2>1 DEF Justified, Readied
<1>4. /\ AllJustified(t, results[t]) /\ results[t] \in ResultKeepers
      /\ KeptFor(results[t], id) /\ id # 0
  BY <1>1, <1>2, WorkerFacts
<1>5. PICK r \in ResultKeepers : r = results[t]
  BY <1>4
<1>6. AllJustified(t, r)'
  BY <1>1, <1>3, <1>4, <1>5, AllStayJustified, WorkerFacts DEF ProberInv
<1>7. PICK s : s = SetResult(r, id, outcome)
  OBVIOUS
<1>8. /\ s \in ResultKeepers /\ s.cache = [r.cache EXCEPT ![id] = outcome]
      /\ \A k \in 1 .. Len(s.updates) :
           \/ s.updates[k] = [id |-> id, result |-> outcome]
           \/ k \in 1 .. Len(r.updates) /\ s.updates[k] = r.updates[k]
  BY <1>7, SetResultIs, ProbesConstants
<1>9. KeptFor(s, id) /\ \A i \in Instances : s.cache[i] = IF i = id THEN outcome ELSE r.cache[i]
  <2>1. r.cache \in [Instances -> ProbeResults]
    BY DEF ResultKeepers
  <2> QED BY <1>4, <1>5, <1>8, <2>1, ZeroIsInstance DEF KeptFor
<1>10. AllJustified(t, s)'
  <2>1. Justified(t, id, outcome)'
    BY <1>3
  <2>2. \A i \in Instances : Justified(t, i, s.cache[i])'
    BY <1>6, <1>9, <2>1 DEF AllJustified
  <2>3. ASSUME NEW k \in 1 .. Len(s.updates)
        PROVE  Justified(t, s.updates[k].id, s.updates[k].result)'
    BY <1>6, <1>8, <2>1 DEF AllJustified
  <2> QED BY <2>2, <2>3 DEF AllJustified
<1>11. PICK w \in ProbeWorkers, q \in {r, s} :
         /\ workers' = [workers EXCEPT ![t] = w] /\ results' = [results EXCEPT ![t] = q]
         /\ w.pc = "waiting" /\ w.id = id /\ w.stopping = workers[t].stopping
  <2> DEFINE run == Least(Run(workers[t], outcome), Threshold(outcome))
             x == [workers[t] EXCEPT !.lastResult = outcome, !.resultRun = run]
             y == [x EXCEPT !.onHold = TRUE, !.resultRun = 0]
  <2>1. run \in Nat
    BY WorkerFacts, ProberAssumption
       DEF Least, Run, Threshold, ProberAssumption, ProbeWorkers, ProberInv, ProbesTyped
  <2>2. \/ ProbingStays(t, x, r, "waiting") \/ ProbingStays(t, x, s, "waiting")
        \/ ProbingStays(t, y, s, "waiting")
    <3>1. x.id = id
      BY <1>2, WorkerFacts DEF ProbeWorkers
    <3> QED BY <1>5, <1>7, <3>1 DEF ProbeAnswers
  <2> HIDE DEF run
  <2>3. /\ x \in ProbeWorkers /\ x.id = id /\ x.stopping = workers[t].stopping
        /\ y \in ProbeWorkers /\ y.id = id /\ y.stopping = workers[t].stopping
    BY <1>2, <2>1, WorkerFacts DEF ProbeWorkers
  <2> HIDE DEF x, y
  <2>4. \A v \in ProbeWorkers : LET w == [v EXCEPT !.pc = "waiting"]
                                IN  /\ w \in ProbeWorkers /\ w.pc = "waiting" /\ w.id = v.id
                                    /\ w.stopping = v.stopping
    BY DEF ProbeWorkers
  <2>5. PICK v \in ProbeWorkers, q \in {r, s} :
          v.id = id /\ v.stopping = workers[t].stopping /\ ProbingStays(t, v, q, "waiting")
    BY <2>2, <2>3
  <2>6. PICK w : w = [v EXCEPT !.pc = "waiting"]
    OBVIOUS
  <2>7. /\ w \in ProbeWorkers /\ w.pc = "waiting" /\ w.id = id
        /\ w.stopping = workers[t].stopping
    BY <2>4, <2>5, <2>6
  <2>8. workers' = [workers EXCEPT ![t] = w] /\ results' = [results EXCEPT ![t] = q]
    BY <2>5, <2>6 DEF ProbingStays
  <2> QED BY <2>7, <2>8
<1>12. q \in ResultKeepers /\ KeptFor(q, w.id) /\ AllJustified(t, q)'
  BY <1>4, <1>5, <1>6, <1>8, <1>9, <1>10, <1>11
<1> QED BY <1>1, <1>3, <1>11, <1>12, WorkerKeepsInv

----
\* A step that leaves the results and the instances of the workers alone.
LEMMA ResultsStayFit ==
  ASSUME ProberInv, ProbingMovesOn, container' \in [id : Instances, running : BOOLEAN],
         results' = results,
         \A t \in ProbeTypes : workers'[t].id = workers[t].id
  PROVE  ResultsFit'
<1>1. ASSUME NEW t \in ProbeTypes
      PROVE  KeptFor(results'[t], workers'[t].id) /\ AllJustified(t, results[t])'
  <2>1. PICK r \in ResultKeepers : r = results[t]
    BY WorkerFacts
  <2>2. AllJustified(t, r)'
    BY <2>1, AllStayJustified, WorkerFacts DEF ProberInv
  <2> QED BY <2>1, <2>2, WorkerFacts DEF AllJustified
<1> QED BY <1>1 DEF ResultsFit

\* The first of the updates, and the others.
LEMMA TailIsJustified ==
  ASSUME NEW t \in ProbeTypes, NEW r \in ResultKeepers, AllJustified(t, r), r.updates # <<>>
  PROVE  /\ Head(r.updates).id \in Instances
         /\ Justified(t, Head(r.updates).id, Head(r.updates).result)
         /\ [r EXCEPT !.updates = Tail(r.updates)] \in ResultKeepers
         /\ [r EXCEPT !.updates = Tail(r.updates)].cache = r.cache
         /\ AllJustified(t, [r EXCEPT !.updates = Tail(r.updates)])
<1> DEFINE U == [id : Instances, result : ProbeResults]
           b == Tail(r.updates)
           n == [r EXCEPT !.updates = b]
<1>1. r.updates \in Seq(U)
  BY DEF ResultKeepers
<1>2. /\ n \in [cache : [Instances -> ProbeResults], updates : Seq(U)]
      /\ n.cache = r.cache /\ n.updates = b
  <2> HIDE DEF U
  <2>1. b \in Seq(U)
    BY <1>1
  <2>2. r.cache \in [Instances -> ProbeResults] /\ r = [cache |-> r.cache, updates |-> r.updates]
    BY DEF ResultKeepers
  <2> HIDE DEF b
  <2> QED BY <2>1, <2>2
<1>3. /\ Head(r.updates) = r.updates[1] /\ 1 \in 1 .. Len(r.updates)
      /\ \A k \in 1 .. Len(b) : k + 1 \in 1 .. Len(r.updates) /\ b[k] = r.updates[k + 1]
      /\ Head(r.updates) \in U
  <2> HIDE DEF U
  <2> QED BY <1>1
<1> HIDE DEF b, n
<1>4. AllJustified(t, n)
  BY <1>2, <1>3 DEF AllJustified
<1> QED BY <1>2, <1>3, <1>4 DEF AllJustified, ResultKeepers, n, b

\* A step that leaves workers and container alone, and the pod's worker where it is.
LEMMA WorkersStayFit ==
  ASSUME ProberInv, workers' = workers, probeSpec' = probeSpec, podWorker'.stage = podWorker.stage,
         container' = container, podWorker'.pc = podWorker.pc
  PROVE  WorkersFit'
BY DEF ProberInv, WorkersFit, WorkerFit, Exists

\* setContainerReadiness, setContainerStartup: an update makes an instance ready only if that
\* instance answered.
LEMMA TakeUpdateKeeps ==
  ASSUME ProberInv, NEW t \in ProbeTypes, TakeUpdate(t)
  PROVE  ProberInv'
<1>1. /\ results[t].updates # <<>> /\ UNCHANGED <<probeSpec, container, workers, probed>>
      /\ probeStatus' = Told(t, Head(results[t].updates))
      /\ results' = [results EXCEPT ![t] = [results[t] EXCEPT !.updates = Tail(results[t].updates)]]
      /\ podWorker' = [podWorker EXCEPT !.pending = @ \/ Wakes(t, Head(results[t].updates))]
  BY DEF TakeUpdate
<1>2. PICK r \in ResultKeepers : r = results[t]
  BY WorkerFacts
<1>3. PICK u, n : u = Head(r.updates) /\ n = [r EXCEPT !.updates = Tail(r.updates)]
  OBVIOUS
<1>4. /\ u.id \in Instances /\ Justified(t, u.id, u.result) /\ n \in ResultKeepers
      /\ n.cache = r.cache /\ AllJustified(t, n)
  BY <1>1, <1>2, <1>3, TailIsJustified, WorkerFacts
<1>5. ProbingMovesOn /\ container' \in [id : Instances, running : BOOLEAN]
  BY <1>1, WorkerFacts DEF ProbingMovesOn
<1>6. /\ results' = [results EXCEPT ![t] = n] /\ results' \in [ProbeTypes -> ResultKeepers]
      /\ results'[t] = n /\ \A s \in ProbeTypes : s # t => results'[s] = results[s]
  <2>1. results \in [ProbeTypes -> ResultKeepers]
    BY DEF ProberInv, ProbesTyped
  <2> QED BY <1>1, <1>2, <1>3, <1>4, <2>1
<1>7. ResultsFit'
  <2>1. ASSUME NEW s \in ProbeTypes
        PROVE  KeptFor(results'[s], workers'[s].id) /\ AllJustified(s, results[s])'
    <3>1. PICK x \in ResultKeepers : x = results'[s]
      BY <1>6
    <3>2. x.cache = results[s].cache /\ AllJustified(s, x)
      BY <1>2, <1>4, <1>6, <3>1, WorkerFacts
    <3>3. AllJustified(s, x)'
      BY <1>5, <3>2, AllStayJustified DEF ProberInv
    <3> QED BY <1>1, <3>1, <3>2, <3>3, WorkerFacts DEF AllJustified, KeptFor
  <2> QED BY <2>1 DEF ResultsFit
<1>8. /\ podWorker'.pc = podWorker.pc /\ podWorker'.stage = podWorker.stage
      /\ podWorker'.draft = podWorker.draft
      /\ podWorker' \in ProbedPodWorkers
  <2>1. Wakes(t, Head(results[t].updates)) \in BOOLEAN
    BY DEF Wakes
  <2> QED BY <1>1, <2>1 DEF ProberInv, ProbesTyped, ProbedPodWorkers
<1>9. /\ probeStatus' \in ProbedStatuses /\ probeStatus'.id = probeStatus.id
      /\ probeStatus'.phase = probeStatus.phase /\ probeStatus'.running = probeStatus.running
      /\ probeStatus'.ready => probeStatus.ready \/ Readied(probeStatus.id)
  <2>1. probeStatus \in ProbedStatuses
    BY DEF ProberInv, ProbesTyped
  <2>2. probeStatus' = Told(t, u)
    BY <1>1, <1>2, <1>3
  <2>3. CASE u.id # probeStatus.id
    BY <2>1, <2>2, <2>3 DEF Told
  <2>4. CASE u.id = probeStatus.id /\ t = "readiness"
    <3>1. probeStatus' = [probeStatus EXCEPT !.ready = (u.result = "success")]
      BY <2>2, <2>4 DEF Told
    <3>2. u.result = "success" => Readied(u.id)
      BY <1>4, <2>4 DEF Justified
    <3>3. (u.result = "success") \in BOOLEAN
      OBVIOUS
    <3> QED BY <2>1, <2>4, <3>1, <3>2, <3>3 DEF ProbedStatuses
  <2>5. CASE u.id = probeStatus.id /\ t # "readiness"
    <3>1. (u.result = "success") \in BOOLEAN
      OBVIOUS
    <3>2. \/ probeStatus' = [probeStatus EXCEPT !.started = (u.result = "success")]
          \/ probeStatus' = probeStatus
      BY <2>2, <2>5 DEF Told
    <3> QED BY <2>1, <3>1, <3>2 DEF ProbedStatuses
  <2> QED BY <2>3, <2>4, <2>5
<1>10. SyncIsFit'
  <2>1. Truthful(probeStatus)'
    BY <1>1, <1>9 DEF ProberInv, SyncIsFit, Truthful, Dead, Readied
  <2>2. Truthful(podWorker.draft)'
    BY <1>1, <1>8 DEF ProberInv, SyncIsFit, Truthful, Dead, Readied
  <2> QED BY <1>1, <1>8, <1>9, <2>1, <2>2 DEF ProberInv, SyncIsFit
<1>11. ProbesTyped' /\ WorkersFit'
  BY <1>1, <1>6, <1>8, <1>9, WorkersStayFit DEF ProberInv, ProbesTyped
<1> QED BY <1>7, <1>10, <1>11 DEF ProberInv

----
\* A generated status is true: it says ready of the instance that answered, as a running
\* container with a readiness probe has its worker.
LEMMA GeneratedIs ==
  ASSUME ProberInv, GenerateStatus
  PROVE  /\ podWorker'.draft \in ProbedStatuses /\ Truthful(podWorker'.draft)
         /\ podWorker'.draft.id = container.id
         /\ podWorker' = [podWorker EXCEPT !.pc = "generated", !.pending = FALSE,
                                           !.draft = podWorker'.draft]
<1> DEFINE failed == ~container.running /\ container.id # 0 /\ ~probeSpec.restarts
<1>1. PICK d : d = [phase   |-> IF failed THEN "Failed" ELSE "Running",
                    id      |-> container.id,
                    running |-> container.running,
                    started |-> isContainerStarted,
                    ready   |-> IsReady]
  OBVIOUS
<1>2. podWorker' = [podWorker EXCEPT !.pc = "generated", !.pending = FALSE, !.draft = d]
  BY <1>1 DEF GenerateStatus
<1>3. podWorker'.draft = d
  BY <1>2 DEF ProberInv, ProbesTyped
<1>4. isContainerStarted \in BOOLEAN /\ IsReady \in BOOLEAN
  BY DEF isContainerStarted, IsReady
<1>5. container.id \in Instances /\ container.running \in BOOLEAN /\ container.id \in Int
  BY ZeroIsInstance DEF ProberInv, ProbesTyped
<1>6. IsReady /\ "readiness" \in probeSpec.types => Readied(container.id)
  <2>1. IsReady => container.running
    BY DEF IsReady, isContainerStarted
  <2>2. container.running /\ "readiness" \in probeSpec.types => Exists("readiness")
    BY DEF ProberInv, WorkersFit
  <2>3. results["readiness"].cache[container.id] = "success" => Readied(container.id)
    BY <1>5 DEF ProberInv, ResultsFit, AllJustified, Justified, ProbeTypes
  <2> QED BY <2>1, <2>2, <2>3 DEF IsReady
<1>7. d \in ProbedStatuses
  BY <1>1, <1>4, <1>5 DEF ProbedStatuses
<1>8. Truthful(d)
  BY <1>1, <1>5, <1>6 DEF Truthful, Dead
<1> QED BY <1>1, <1>2, <1>3, <1>7, <1>8

\* The types of the container, the statuses and the pod's worker.
LEMMA PodTypes ==
  ASSUME ProberInv
  PROVE  /\ container \in [id : Instances, running : BOOLEAN] /\ container.id \in Int
         /\ probeStatus \in ProbedStatuses /\ podWorker.draft \in ProbedStatuses
         /\ podWorker \in ProbedPodWorkers
         /\ probeSpec.types \subseteq ProbeTypes /\ probeSpec.restarts \in BOOLEAN
BY ZeroIsInstance DEF ProberInv, ProbesTyped, ProbedPodWorkers

\* generateAPIPodStatus.
LEMMA GenerateStatusKeeps ==
  ASSUME ProberInv, GenerateStatus
  PROVE  ProberInv'
<1>1. UNCHANGED <<probeSpec, container, probeStatus, workers, results, probed>>
  BY DEF GenerateStatus
<1>2. PICK d \in ProbedStatuses :
        /\ Truthful(d) /\ d.id = container.id
        /\ podWorker' = [podWorker EXCEPT !.pc = "generated", !.pending = FALSE, !.draft = d]
  BY GeneratedIs
<1>3. /\ podWorker'.draft = d /\ podWorker'.pc = "generated" /\ podWorker'.stage = podWorker.stage
      /\ podWorker' \in ProbedPodWorkers
  BY <1>2, PodTypes DEF ProbedPodWorkers
<1>4. ProbingMovesOn
  BY <1>1 DEF ProbingMovesOn
<1>5. ProbesTyped'
  BY <1>1, <1>3 DEF ProberInv, ProbesTyped
<1>6. SyncIsFit'
  <2>1. Truthful(d)' /\ Truthful(probeStatus)'
    BY <1>1, <1>2 DEF Truthful, Dead, Readied, ProberInv, SyncIsFit
  <2>2. Truthful(podWorker.draft)'
    BY <1>3, <2>1 DEF Truthful
  <2> QED BY <1>1, <1>2, <1>3, <2>1, <2>2 DEF ProberInv, SyncIsFit
<1>7. WorkersFit'
  BY <1>1, <1>3 DEF ProberInv, WorkersFit, WorkerFit, Exists
<1>8. ResultsFit'
  BY <1>1, <1>4, ResultsStayFit, PodTypes
<1> QED BY <1>5, <1>6, <1>7, <1>8 DEF ProberInv

\* addPod: all the workers or none were there, and all are.
LEMMA AddPodIs ==
  ASSUME ProberInv
  PROVE  /\ addPod \in [ProbeTypes -> ProbeWorkers]
         /\ \A t \in ProbeTypes : /\ addPod[t].id = workers[t].id
                                  /\ addPod[t].stopping => workers[t].stopping
                                  /\ addPod[t].pc = "probing" => workers[t].pc = "probing"
                                  /\ Exists(t) => addPod[t].pc # "none"
                                  /\ addPod[t].pc = "none" => addPod[t].id = 0
         /\ podWorker.stage = "sync" => \A t \in probeSpec.types : addPod[t].pc # "none"
<1> DEFINE new == [NoProbeWorker EXCEPT !.pc = "delayed"]
<1>1. /\ new \in ProbeWorkers /\ new.pc = "delayed" /\ new.id = 0 /\ new.stopping = FALSE
  BY ProbesConstants DEF NoProbeWorker, ProbeWorkers
<1> HIDE DEF new
<1>2. ASSUME NEW t \in ProbeTypes
      PROVE  \/ addPod[t] = new /\ ~Exists(t)
             \/ addPod[t] = workers[t]
  <2>1. addPod[t] = IF /\ t \in probeSpec.types
                       /\ \A s \in (First(t) \cup {t}) \cap probeSpec.types : ~Exists(s)
                    THEN new ELSE workers[t]
    BY DEF addPod, new
  <2> QED BY <2>1
<1>3. addPod = [t \in ProbeTypes |-> addPod[t]]
  BY DEF addPod
<1>4. addPod \in [ProbeTypes -> ProbeWorkers]
  BY <1>1, <1>2, <1>3, WorkerFacts
<1>5. \A t \in ProbeTypes : WorkerFit(t)
  BY DEF ProberInv, WorkersFit
<1>6. \A t \in ProbeTypes : /\ addPod[t].id = workers[t].id
                            /\ addPod[t].stopping => workers[t].stopping
                            /\ addPod[t].pc = "probing" => workers[t].pc = "probing"
                            /\ Exists(t) => addPod[t].pc # "none"
                            /\ addPod[t].pc = "none" => addPod[t].id = 0
  BY <1>1, <1>2, <1>5 DEF WorkerFit, Exists
<1>7. ASSUME podWorker.stage = "sync", NEW t \in probeSpec.types
      PROVE  addPod[t].pc # "none"
  <2>1. CASE \A s \in probeSpec.types : Exists(s)
    BY <1>6, <2>1, PodTypes
  <2>2. CASE \A s \in probeSpec.types : ~Exists(s)
    BY <1>1, <2>2, PodTypes DEF addPod, new
  <2> QED BY <1>7, <2>1, <2>2 DEF ProberInv, WorkersFit
<1> QED BY <1>4, <1>6, <1>7

\* syncPod, up to the runtime's: the status in hand is set and the workers are there.
LEMMA SyncPodKeeps ==
  ASSUME ProberInv, SyncPod
  PROVE  ProberInv'
<1>1. /\ UNCHANGED <<probeSpec, container, results, probed>> /\ probeStatus' = podWorker.draft
      /\ podWorker.pc = "generated" /\ podWorker.stage = "sync"
  BY DEF SyncPod
<1>2. PICK failed \in BOOLEAN : failed = (podWorker.draft.phase = "Failed")
  OBVIOUS
<1>3. /\ podWorker' = [podWorker EXCEPT !.pc = IF failed THEN "idle" ELSE "starting",
                                        !.stage = IF failed THEN "terminating" ELSE @,
                                        !.pending = @ \/ failed]
      /\ workers' = IF failed THEN workers ELSE addPod
  BY <1>1, <1>2 DEF SyncPod
<1>4. /\ podWorker' \in ProbedPodWorkers
      /\ podWorker'.draft = podWorker.draft
      /\ failed => podWorker'.pc = "idle" /\ podWorker'.stage = "terminating"
      /\ ~failed => podWorker'.pc = "starting" /\ podWorker'.stage = "sync"
  <2>1. podWorker.pending \/ failed \in BOOLEAN
    BY PodTypes
  <2> QED BY <1>1, <1>3, PodTypes DEF ProbedPodWorkers
<1>5. /\ workers' \in [ProbeTypes -> ProbeWorkers]
      /\ \A t \in ProbeTypes : workers'[t].id = workers[t].id
  BY <1>3, AddPodIs DEF ProberInv, ProbesTyped
<1>6. ProbingMovesOn
  BY <1>1 DEF ProbingMovesOn
<1>7. ProbesTyped'
  BY <1>1, <1>4, <1>5, PodTypes DEF ProberInv, ProbesTyped
<1>8. SyncIsFit'
  <2>1. Truthful(probeStatus)' /\ Truthful(podWorker.draft)'
    BY <1>1, <1>4 DEF Truthful, Dead, Readied, ProberInv, SyncIsFit
  <2> QED BY <1>1, <1>2, <1>4, <2>1 DEF ProberInv, SyncIsFit
<1>9. WorkersFit'
  <2>1. CASE failed
    <3>1. workers' = workers /\ podWorker'.pc = "idle" /\ podWorker'.stage = "terminating"
      BY <1>3, <1>4, <2>1
    <3> QED BY <1>1, <3>1 DEF ProberInv, WorkersFit, WorkerFit, Exists
  <2>2. CASE ~failed
    <3>1. /\ workers' = addPod /\ podWorker'.pc = "starting" /\ podWorker'.stage = "sync"
      BY <1>3, <1>4, <2>2
    <3>2. \A t \in ProbeTypes : WorkerFit(t)'
      BY <1>1, <3>1, AddPodIs DEF ProberInv, WorkersFit, WorkerFit, Exists
    <3>3. \A t \in probeSpec.types : Exists(t)'
      BY <1>1, <3>1, AddPodIs DEF Exists
    <3> QED BY <1>1, <3>2, <3>3 DEF WorkersFit
  <2> QED BY <2>1, <2>2
<1>10. ResultsFit'
  BY <1>1, <1>5, <1>6, ResultsStayFit, PodTypes
<1> QED BY <1>7, <1>8, <1>9, <1>10 DEF ProberInv

\* The status and the one in hand stay true as the container goes on.
LEMMA StatusStaysFit ==
  ASSUME ProberInv, ProbingMovesOn, container' \in [id : Instances, running : BOOLEAN],
         probeStatus' \in {probeStatus, podWorker.draft}, podWorker'.draft = podWorker.draft,
         \/ container'.id = container.id
         \/ probeStatus'.phase # "Failed" /\ podWorker.draft.phase # "Failed"
  PROVE  Truthful(probeStatus)' /\ Truthful(podWorker.draft)'
<1>1. PICK s, d \in ProbedStatuses : s = probeStatus' /\ d = podWorker.draft
  BY PodTypes
<1>2. Truthful(s) /\ Truthful(d)
  BY <1>1 DEF ProberInv, SyncIsFit
<1>3. Truthful(s)' /\ Truthful(d)'
  BY <1>1, <1>2, StaysTruthful DEF ProberInv
<1> QED BY <1>1, <1>3 DEF Truthful

\* The runtime's syncPod: kills, starts, both or neither.
LEMMA StartContainerKeeps ==
  ASSUME ProberInv, StartContainer
  PROVE  ProberInv'
<1>1. /\ UNCHANGED <<probeSpec, probeStatus, workers, results, probed>>
      /\ podWorker.pc = "starting" /\ podWorker.stage = "sync" /\ podWorker.draft.phase # "Failed"
      /\ probeStatus.phase # "Failed"
  BY DEF StartContainer, ProberInv, SyncIsFit
<1>2. /\ podWorker' \in ProbedPodWorkers /\ podWorker'.draft = podWorker.draft
      /\ podWorker'.pc = "idle" /\ podWorker'.stage = "sync"
  <2>1. podWorker.pending \/ Starts \/ Kills \in BOOLEAN
    BY PodTypes DEF Starts, Kills
  <2>2. podWorker' = [podWorker EXCEPT !.pc = "idle",
                                       !.pending = podWorker.pending \/ Starts \/ Kills]
    BY DEF StartContainer
  <2> QED BY <1>1, <2>1, <2>2, PodTypes DEF ProbedPodWorkers
<1>3. /\ container' \in [id : Instances, running : BOOLEAN] /\ ProbingMovesOn
      /\ container'.running => container'.id # 0
  <2>1. CASE Starts
    <3>1. container.id < MaxContainers /\ container' = [id |-> container.id + 1, running |-> TRUE]
      BY <2>1 DEF StartContainer
    <3>2. container.id + 1 \in Instances /\ container.id + 1 # 0
      BY <3>1, PodTypes, ProberAssumption DEF Instances, ProberAssumption
    <3> QED BY <1>1, <3>1, <3>2, PodTypes DEF ProbingMovesOn
  <2>2. CASE ~Starts
    <3>1. container' = [container EXCEPT !.running = container.running /\ ~Kills]
      BY <2>2 DEF StartContainer
    <3>2. (container.running /\ ~Kills) \in BOOLEAN
      OBVIOUS
    <3>3. /\ container' \in [id : Instances, running : BOOLEAN] /\ container'.id = container.id
          /\ container'.running = (container.running /\ ~Kills)
      BY <3>1, <3>2, PodTypes
    <3>4. container' = container \/ ~container'.running
      BY <3>3, PodTypes
    <3> QED BY <1>1, <3>3, <3>4 DEF ProbingMovesOn, ProberInv, SyncIsFit
  <2> QED BY <2>1, <2>2
<1>4. ProbesTyped'
  BY <1>1, <1>2, <1>3 DEF ProberInv, ProbesTyped, ProbedPodWorkers
<1>5. SyncIsFit'
  <2>1. Truthful(probeStatus)' /\ Truthful(podWorker.draft)'
    BY <1>1, <1>2, <1>3, StatusStaysFit
  <2> QED BY <1>1, <1>2, <1>3, <2>1 DEF SyncIsFit
<1>6. WorkersFit'
  BY <1>1, <1>2 DEF ProberInv, WorkersFit, WorkerFit, Exists
<1>7. ResultsFit'
  BY <1>1, <1>3, ResultsStayFit
<1> QED BY <1>4, <1>5, <1>6, <1>7 DEF ProberInv

\* stopLivenessAndStartup, removePod: workers are told to stop, none ends.
LEMMA StoppedIs ==
  ASSUME ProberInv, NEW types \in SUBSET ProbeTypes, workers' = StoppedWorkers(types)
  PROVE  /\ workers' \in [ProbeTypes -> ProbeWorkers]
         /\ \A t \in ProbeTypes : /\ workers'[t].id = workers[t].id
                                  /\ workers'[t].pc = workers[t].pc
                                  /\ t \notin types => workers'[t] = workers[t]
<1>1. ASSUME NEW t \in ProbeTypes
      PROVE  /\ workers'[t] \in ProbeWorkers
             /\ workers'[t].id = workers[t].id /\ workers'[t].pc = workers[t].pc
             /\ t \notin types => workers'[t] = workers[t]
  <2>1. workers'[t] = IF t \in types /\ Exists(t) THEN [workers[t] EXCEPT !.stopping = TRUE]
                      ELSE workers[t]
    BY DEF StoppedWorkers
  <2>2. [workers[t] EXCEPT !.stopping = TRUE] \in ProbeWorkers
        /\ [workers[t] EXCEPT !.stopping = TRUE].id = workers[t].id
        /\ [workers[t] EXCEPT !.stopping = TRUE].pc = workers[t].pc
    BY WorkerFacts DEF ProbeWorkers
  <2> QED BY <2>1, <2>2, WorkerFacts
<1>2. workers' = [t \in ProbeTypes |-> workers'[t]]
  BY DEF StoppedWorkers
<1> QED BY <1>1, <1>2

\* syncTerminatingPod, up to killPod: the readiness worker goes on.
LEMMA SyncTerminatingPodKeeps ==
  ASSUME ProberInv, SyncTerminatingPod
  PROVE  ProberInv'
<1>1. /\ UNCHANGED <<probeSpec, container, results, probed>> /\ probeStatus' = podWorker.draft
      /\ podWorker.stage = "terminating"
  BY DEF SyncTerminatingPod
<1>2. /\ podWorker' \in ProbedPodWorkers /\ podWorker'.draft = podWorker.draft
      /\ podWorker'.pc = "killing" /\ podWorker'.stage = "terminating"
  BY <1>1, PodTypes DEF SyncTerminatingPod, ProbedPodWorkers
<1>3. /\ workers' \in [ProbeTypes -> ProbeWorkers] /\ workers'["readiness"] = workers["readiness"]
      /\ \A t \in ProbeTypes : workers'[t].id = workers[t].id /\ workers'[t].pc = workers[t].pc
  BY StoppedIs DEF SyncTerminatingPod, ProbeTypes
<1>4. ProbingMovesOn /\ container' \in [id : Instances, running : BOOLEAN]
  BY <1>1, PodTypes DEF ProbingMovesOn
<1>5. ProbesTyped'
  BY <1>1, <1>2, <1>3, PodTypes DEF ProberInv, ProbesTyped, ProbedPodWorkers
<1>6. SyncIsFit'
  <2>1. Truthful(probeStatus)' /\ Truthful(podWorker.draft)'
    BY <1>1, <1>2, <1>4, StatusStaysFit
  <2> QED BY <1>1, <1>2, <2>1 DEF ProberInv, SyncIsFit
<1>7. WorkersFit'
  <2>1. \A t \in ProbeTypes : WorkerFit(t)'
    BY <1>1, <1>2, <1>3 DEF ProberInv, WorkersFit, WorkerFit, Exists
  <2> QED BY <1>1, <1>2, <1>3, <2>1 DEF ProberInv, WorkersFit, Exists
<1>8. ResultsFit'
  BY <1>1, <1>3, <1>4, ResultsStayFit
<1> QED BY <1>5, <1>6, <1>7, <1>8 DEF ProberInv

\* The container ends.
LEMMA EndedIs ==
  ASSUME ProberInv, container' = [container EXCEPT !.running = FALSE],
         probeSpec' = probeSpec, probed' = probed
  PROVE  /\ container' \in [id : Instances, running : BOOLEAN] /\ ProbingMovesOn
         /\ container'.id = container.id /\ container'.running = FALSE
<1>1. /\ container' \in [id : Instances, running : BOOLEAN]
      /\ container'.id = container.id /\ container'.running = FALSE
  BY PodTypes
<1> QED BY <1>1 DEF ProbingMovesOn

\* killPod and removePod.
LEMMA KillPodKeeps ==
  ASSUME ProberInv, KillPod
  PROVE  ProberInv'
<1>1. UNCHANGED <<probeSpec, probeStatus, results, probed>>
  BY DEF KillPod
<1>2. /\ podWorker' \in ProbedPodWorkers /\ podWorker'.draft = podWorker.draft
      /\ podWorker'.pc = "idle" /\ podWorker'.stage = "terminated"
  BY <1>1, PodTypes DEF KillPod, ProbedPodWorkers
<1>3. /\ workers' \in [ProbeTypes -> ProbeWorkers]
      /\ \A t \in ProbeTypes : workers'[t].id = workers[t].id /\ workers'[t].pc = workers[t].pc
  BY StoppedIs DEF KillPod
<1>4. /\ container' \in [id : Instances, running : BOOLEAN] /\ ProbingMovesOn
      /\ container'.id = container.id /\ container'.running = FALSE
  BY <1>1, EndedIs DEF KillPod
<1>5. ProbesTyped'
  BY <1>1, <1>2, <1>3, <1>4 DEF ProberInv, ProbesTyped, ProbedPodWorkers
<1>6. SyncIsFit'
  <2>1. Truthful(probeStatus)' /\ Truthful(podWorker.draft)'
    BY <1>1, <1>2, <1>4, StatusStaysFit
  <2> QED BY <1>1, <1>2, <1>4, <2>1 DEF SyncIsFit
<1>7. WorkersFit'
  BY <1>1, <1>2, <1>3, <1>4 DEF ProberInv, WorkersFit, WorkerFit, Exists
<1>8. ResultsFit'
  BY <1>1, <1>3, <1>4, ResultsStayFit
<1> QED BY <1>5, <1>6, <1>7, <1>8 DEF ProberInv

\* The container ends by itself, and what asks for a sync.
LEMMA AskedKeeps ==
  ASSUME ProberInv, DeleteProbedPod \/ ContainerExits \/ OtherSync
  PROVE  ProberInv'
<1>1. UNCHANGED <<probeSpec, probeStatus, workers, results, probed>>
  BY DEF DeleteProbedPod, ContainerExits, OtherSync
<1>2. /\ podWorker' \in ProbedPodWorkers /\ podWorker'.draft = podWorker.draft
      /\ podWorker'.pc = podWorker.pc
      /\ \/ podWorker'.stage = podWorker.stage
         \/ podWorker.pc = "idle" /\ podWorker.stage = "sync" /\ podWorker'.stage = "terminating"
  BY PodTypes DEF DeleteProbedPod, ContainerExits, OtherSync, ProbedPodWorkers
<1>3. /\ container' \in [id : Instances, running : BOOLEAN] /\ ProbingMovesOn
      /\ container'.id = container.id /\ (container'.running => container.running)
  <2>1. CASE container' = container
    BY <1>1, <2>1, PodTypes DEF ProbingMovesOn
  <2>2. CASE container' = [container EXCEPT !.running = FALSE]
    BY <1>1, <2>2, EndedIs
  <2> QED BY <2>1, <2>2 DEF DeleteProbedPod, ContainerExits, OtherSync
<1>4. ProbesTyped'
  BY <1>1, <1>2, <1>3 DEF ProberInv, ProbesTyped, ProbedPodWorkers
<1>5. SyncIsFit'
  <2>1. Truthful(probeStatus)' /\ Truthful(podWorker.draft)'
    BY <1>1, <1>2, <1>3, StatusStaysFit
  <2> QED BY <1>1, <1>2, <1>3, <2>1 DEF ProberInv, SyncIsFit
<1>6. WorkersFit'
  BY <1>1, <1>2, <1>3 DEF ProberInv, WorkersFit, WorkerFit, Exists
<1>7. ResultsFit'
  BY <1>1, <1>3, ResultsStayFit
<1> QED BY <1>4, <1>5, <1>6, <1>7 DEF ProberInv

----
\* Initially.
LEMMA ProberStarts == ProbeInit => ProberInv
<1> SUFFICES ASSUME ProbeInit PROVE ProberInv
  OBVIOUS
<1>1. 0 \in Instances /\ Unsent \in ProbedStatuses
  BY ZeroIsInstance DEF Unsent, ProbedStatuses
<1>2. ProbesTyped
  <2> DEFINE r == [cache |-> [i \in Instances |-> "none"], updates |-> <<>>]
  <2>1. r \in ResultKeepers
    BY DEF ResultKeepers, ProbeResults
  <2>2. /\ probeSpec \in [types : SUBSET ProbeTypes, restarts : BOOLEAN, failures : Nat]
        /\ container \in [id : Instances, running : BOOLEAN]
    BY <1>1, ProberAssumption DEF ProbeInit, ProberAssumption, ProbeTypes
  <2> HIDE DEF r
  <2>3. results \in [ProbeTypes -> ResultKeepers]
    BY <2>1 DEF ProbeInit, r
  <2> QED BY <1>1, <2>2, <2>3, ProbesConstants DEF ProbeInit, ProbesTyped, ProbedPodWorkers
<1>3. SyncIsFit
  BY <1>1 DEF ProbeInit, SyncIsFit, Truthful, Dead, Unsent
<1>4. WorkersFit
  BY ProberAssumption
     DEF ProbeInit, WorkersFit, WorkerFit, Exists, NoProbeWorker, ProbeTypes, ProberAssumption
<1>5. ResultsFit
  BY <1>1 DEF ProbeInit, ResultsFit, KeptFor, AllJustified, Justified
<1> QED BY <1>2, <1>3, <1>4, <1>5 DEF ProberInv

\* Every step.
LEMMA ProberKept == ProberInv /\ [ProbeNext]_probeVars => ProberInv'
<1> SUFFICES ASSUME ProberInv, [ProbeNext]_probeVars PROVE ProberInv'
  OBVIOUS
<1>1. CASE UNCHANGED probeVars
  BY <1>1 DEF probeVars, ProberInv, ProbesTyped, SyncIsFit, Truthful, Dead, Readied, WorkersFit,
     WorkerFit, Exists, ResultsFit, KeptFor, AllJustified, Justified
<1>2. ASSUME NEW t \in probeSpec.types, ProbeWorkerStep(t) \/ TakeUpdate(t)
      PROVE  ProberInv'
  <2>1. t \in ProbeTypes
    BY PodTypes
  <2> QED
    BY <1>2, <2>1, StopsWaitingKeeps, TurnComesKeeps, DoProbeKeeps, ProbeFailsKeeps,
       ProbeAnswersKeeps, TakeUpdateKeeps DEF ProbeWorkerStep
<1>3. CASE PodWorkerStep
  BY <1>3, GenerateStatusKeeps, SyncPodKeeps, StartContainerKeeps, SyncTerminatingPodKeeps,
     KillPodKeeps DEF PodWorkerStep
<1>4. CASE DeleteProbedPod \/ ContainerExits \/ OtherSync
  BY <1>4, AskedKeeps
<1> QED BY <1>1, <1>2, <1>3, <1>4 DEF ProbeNext

\* The invariant implies what the runs check.
LEMMA ProberIsSound == ProberInv => ProbesAreSound
BY DEF ProberInv, SyncIsFit, Truthful, Readied, ResultsFit, KeptFor, ProbesAreSound, ReadyWasProbed,
   ResultsHaveWorkers

\* updatePodStatus, setContainerReadiness, doProbe: a container is ready only if it answered a
\* readiness probe itself, and results are kept just for the instance its worker probes.
THEOREM ProberSoundness == ProbeSpec => []ProbesAreSound
BY ProberStarts, ProberKept, ProberIsSound, PTL DEF ProbeSpec

\* computePodActions: the container in hand is the one that runs, and a failure cached for a
\* running instance is its own.
LEMMA RestartsAreEarned == ProberInv /\ [ProbeNext]_probeVars => ReplacedAfterFailing
<1> SUFFICES ASSUME ProberInv, [ProbeNext]_probeVars, container.running, container' # container,
                    podWorker.pc = "starting", podWorker'.pc = "idle"
             PROVE  \E t \in {"liveness", "startup"} : container.id \in probed[t]["failure"]
  BY DEF ReplacedAfterFailing
<1>1. StartContainer
  <2>1. ~DeleteProbedPod /\ ~GenerateStatus /\ ~SyncPod /\ ~SyncTerminatingPod /\ ~KillPod
    BY DEF DeleteProbedPod, GenerateStatus, SyncPod, SyncTerminatingPod, KillPod
  <2>2. ~ContainerExits /\ ~OtherSync
    BY PodTypes DEF ContainerExits, OtherSync, ProbedPodWorkers
  <2>3. \A t : ~ProbeWorkerStep(t) /\ ~TakeUpdate(t)
    BY DEF ProbeWorkerStep, TakeUpdate, StopsWaiting, TurnComes, doProbe, ProbeFails, ProbeAnswers
  <2> QED BY <2>1, <2>2, <2>3 DEF ProbeNext, PodWorkerStep, probeVars
<1>2. podWorker.draft.running /\ container.id # 0
  <2>1. Truthful(podWorker.draft) /\ podWorker.draft.id = container.id /\ container.id # 0
    BY DEF ProberInv, SyncIsFit
  <2>2. ~Dead(container.id)
    BY PodTypes DEF Dead
  <2> QED BY <2>1, <2>2 DEF Truthful
<1>3. Unhealthy
  <2>1. CASE Starts
    BY <1>2, <2>1 DEF Starts
  <2>2. CASE ~Starts
    <3>1. container' = [container EXCEPT !.running = container.running /\ ~Kills]
      BY <1>1, <2>2 DEF StartContainer
    <3>2. Kills
      BY <3>1, PodTypes
    <3> QED BY <3>2 DEF Kills
  <2> QED BY <2>1, <2>2
<1>4. PICK t \in {"liveness", "startup"} : results[t].cache[container.id] = "failure"
  BY <1>3 DEF Unhealthy
<1>5. Dead(container.id) \/ container.id \in probed[t]["failure"]
  BY <1>4, PodTypes DEF ProberInv, ResultsFit, AllJustified, Justified, ProbeTypes
<1>6. ~Dead(container.id)
  BY PodTypes DEF Dead
<1> QED BY <1>5, <1>6

\* computePodActions, ResultsManager: the sync of a pod stops or replaces a running container
\* only if that container failed a liveness or startup probe.
THEOREM ReplacedOnlyForItsOwn == ProbeSpec => ReplacedForItsOwn
<1>1. ProbeSpec => []ProberInv
  BY ProberStarts, ProberKept, PTL DEF ProbeSpec
<1> QED BY <1>1, RestartsAreEarned, PTL DEF ProbeSpec, ReplacedForItsOwn
=============================================================================

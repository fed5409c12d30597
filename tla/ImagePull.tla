----------------------------- MODULE ImagePull -----------------------------
(***************************************************************************)
(* The kubelet's image manager: EnsureImageExists and pullImage            *)
(* (kubelet/images/image-manager.ts), the puller that shares a few tokens  *)
(* among all pods of the node (puller.ts), the pull limiter (helpers.ts,   *)
(* flowcontrol/throttle.ts), the back-off between a pod's failed pulls     *)
(* (flowcontrol/backoff.ts) and the runtime's images (cri).                *)
(*                                                                         *)
(* A pod's worker makes one call at a time; between two awaits of a call   *)
(* other pods, pulls and the clock move on.  A call moves through          *)
(*   idle       not called, or answered                                    *)
(*   inspecting the runtime is asked for the image                         *)
(*   deciding   the pull's intent is being recorded                        *)
(*   starting   the event "Pulling" is being written                       *)
(*   selecting  waiting for the pull or for its context                    *)
(*   failing    the event "Failed" is being written                        *)
(*   finishing  the event "Pulled" is being written                        *)
(*   ended      thrown, its context being cancelled                        *)
(* and the pull it starts goes on by itself.                               *)
(*                                                                         *)
(* Every pod has one image, so a pod's name stands for its back-off key.   *)
(* Left out: image names that don't parse, failing inspections (the        *)
(* runtime's imageStatus never fails), pull secrets, and jitter (the       *)
(* kubelet's back-off has none).                                           *)
(***************************************************************************)
EXTENDS Integers, Sequences, FiniteSets, FiniteSetsExt

CONSTANTS
    PullPods,     \* pods of the node
    Images,       \* images that may be registered
    PullPolicies, \* imagePullPolicy of their containers
    MaxParallel,  \* maxParallelImagePulls, 0 for no limit
    Initial,      \* the back-off after a first failure, more than 0
    Most,         \* the longest back-off
    Burst,        \* tokens of the pull limiter
    Rate,         \* tokens it gains per tick
    MaxClock,     \* bound on time
    MaxPulls      \* bound on pulls

VARIABLES
    registry, \* images the runtime has
    asks,     \* each pod's call of EnsureImageExists
    pulls,    \* every goroutine of the puller, in the order they were started
    bucket,   \* the limiter's tokens
    backOff,  \* Backoff.perItemBackoff, a wait of 0 for no entry
    prevErr,  \* keys of prevPullErrMsg
    clock,
    failed    \* when each pod's pulls failed, in order (history)

imageVars == <<registry, asks, pulls, bucket, backOff, prevErr, clock, failed>>

FullBucket == Burst
BackOffEntries == [wait : 0..Most, since : 0..MaxClock]
NoEntry == [wait |-> 0, since |-> 0]
PcNames == {"idle", "inspecting", "deciding", "starting", "selecting", "failing", "finishing",
            "ended"}

ImageTypeOK ==
    /\ registry \subseteq Images
    /\ asks \in [PullPods -> [image : Images, policy : PullPolicies, pc : PcNames,
                              cancelled : BOOLEAN, pull : Nat]]
    /\ pulls \in Seq([pod : PullPods, ok : BOOLEAN,
                      stage : {"queued", "pulling", "sending", "stuck", "leaving", "done"}])
    /\ bucket \in 0..Burst
    /\ backOff \in [PullPods -> BackOffEntries]
    /\ prevErr \subseteq PullPods
    /\ clock \in 0..MaxClock
    /\ failed \in [PullPods -> Seq(0..MaxClock)]

ImageInit ==
    /\ registry \in SUBSET Images
    /\ asks \in [PullPods -> [image : Images, policy : PullPolicies, pc : {"idle"},
                              cancelled : {FALSE}, pull : {0}]]
    /\ pulls = <<>> /\ bucket = FullBucket /\ clock = 0
    /\ backOff = [p \in PullPods |-> NoEntry]
    /\ prevErr = {} /\ failed = [p \in PullPods |-> <<>>]

----------------------------------------------------------------------------
(* Back-off.                                                               *)

\* Backoff.hasExpired
Expired(e) == clock - e.since > 2 * Most

\* Backoff.isInBackOffSinceUpdate
InBackOff(p) ==
    /\ backOff[p].wait > 0
    /\ ~Expired(backOff[p])
    /\ clock - backOff[p].since < backOff[p].wait

\* Mutant: the wait does not grow.
NextConstant(p) == [wait |-> Initial, since |-> clock]

\* Backoff.next: a new entry, or twice the wait, up to the longest.
NextEntry(p) ==
    LET e == backOff[p]
    IN  [wait  |-> IF e.wait = 0 \/ Expired(e) THEN Initial ELSE Min({2 * e.wait, Most}),
         since |-> clock]

\* Backoff.gc
Collected == [p \in PullPods |-> IF Expired(backOff[p]) THEN NoEntry ELSE backOff[p]]

----------------------------------------------------------------------------
(* Tokens.                                                                 *)

HoldingStages == {"pulling", "sending", "stuck", "leaving"}
Queued   == {n \in DOMAIN pulls : pulls[n].stage = "queued"}
Holders  == {n \in DOMAIN pulls : pulls[n].stage \in HoldingStages}
HasRoom  == MaxParallel = 0 \/ Cardinality(Holders) < MaxParallel

\* tokens.send: a token, or a place among those that wait for one.
TakesToken == IF HasRoom THEN "pulling" ELSE "queued"

\* Mutant: a token that is returned goes to nobody.
HandedToNobody(s) == s

\* tokens.receive: the token goes to the pull that has waited longest.
Handed(s) == IF Queued = {} THEN s ELSE [s EXCEPT ![Min(Queued)].stage = "pulling"]

----------------------------------------------------------------------------
(* The runtime's images.                                                   *)

\* getImageRef: the runtime's imageStatus names the images that are registered.
Found(p) == asks[p].image \in registry

\* What the runtime's pullImage makes of it: an image is there, or not found.
Pullable(n) == Found(pulls[n].pod)

----------------------------------------------------------------------------
(* A call of EnsureImageExists.                                            *)

Asks(p, pc) == asks[p].pc = pc
Goes(p, pc) == asks' = [asks EXCEPT ![p].pc = pc]
Answered(p) == asks' = [asks EXCEPT ![p].pc = "idle", ![p].pull = 0]

\* Calls that may still start a pull, for the bound.
Underway == {p \in PullPods : asks[p].pc \in {"inspecting", "deciding", "starting"}}

EnsureImageExists(p) ==
    /\ Asks(p, "idle") /\ ~asks[p].cancelled
    /\ Len(pulls) + Cardinality(Underway) < MaxPulls
    /\ Goes(p, IF asks[p].policy = "Always" THEN "deciding" ELSE "inspecting")
    /\ UNCHANGED <<registry, pulls, bucket, backOff, prevErr, clock, failed>>

\* imagePullPrecheck: the pull manager never asks for another pull of what is
\* there, and what is not there must not be pulled under the policy Never.
imagePullPrecheck(p) ==
    /\ Asks(p, "inspecting")
    /\ IF Found(p) \/ asks[p].policy = "Never"
       THEN Answered(p) ELSE Goes(p, "deciding")
    /\ UNCHANGED <<registry, pulls, bucket, backOff, prevErr, clock, failed>>

\* pullImage, up to its first event.
pullImage(p) ==
    /\ Asks(p, "deciding")
    /\ IF InBackOff(p)
       THEN Answered(p) /\ UNCHANGED prevErr
       ELSE Goes(p, "starting") /\ prevErr' = prevErr \ {p}
    /\ UNCHANGED <<registry, pulls, bucket, backOff, clock, failed>>

\* puller.pullImage starts its goroutine, and a select waits for its result or
\* for ctx.done(), which may be closed by now; the result is not there yet.
StartPull(p) ==
    /\ Asks(p, "starting")
    /\ pulls' = Append(pulls, [pod |-> p, ok |-> FALSE, stage |-> TakesToken])
    /\ IF asks[p].cancelled THEN Goes(p, "ended")
       ELSE asks' = [asks EXCEPT ![p].pc = "selecting", ![p].pull = Len(pulls) + 1]
    /\ UNCHANGED <<registry, bucket, backOff, prevErr, clock, failed>>

PullFailed(p) ==
    /\ Asks(p, "failing")
    /\ backOff' = [backOff EXCEPT ![p] = NextEntry(p)]
    /\ prevErr' = prevErr \cup {p}
    /\ failed' = [failed EXCEPT ![p] = Append(@, clock)]
    /\ Answered(p)
    /\ UNCHANGED <<registry, pulls, bucket, clock>>

PullSucceeded(p) ==
    /\ Asks(p, "finishing")
    /\ backOff' = Collected
    /\ Answered(p)
    /\ UNCHANGED <<registry, pulls, bucket, prevErr, clock, failed>>

AskNext(p) ==
    \/ imagePullPrecheck(p) \/ pullImage(p) \/ StartPull(p)
    \/ PullFailed(p) \/ PullSucceeded(p)

----------------------------------------------------------------------------
(* A goroutine of the puller.                                              *)

TryAccept == bucket > 0

\* PullImage of the throttled service and the runtime: without a token of the
\* limiter it fails, and so it does for an image that is not registered.
PullImage(n) ==
    /\ pulls[n].stage = "pulling"
    /\ bucket' = IF TryAccept THEN bucket - 1 ELSE bucket
    /\ pulls' = [pulls EXCEPT ![n].stage = "sending",
                              ![n].ok = TryAccept /\ Pullable(n)]
    /\ UNCHANGED <<registry, asks, backOff, prevErr, clock, failed>>

\* pullChan.send: the channel has no buffer.  A call that still listens goes on
\* with the result; without one the goroutine parks, and nobody will ever receive.
Listens(p, n) == Asks(p, "selecting") /\ asks[p].pull = n
SendResult(n) ==
    LET p == pulls[n].pod
    IN  /\ pulls[n].stage = "sending"
        /\ IF Listens(p, n)
           THEN /\ Goes(p, IF pulls[n].ok THEN "finishing" ELSE "failing")
                /\ pulls' = [pulls EXCEPT ![n].stage = "leaving"]
           ELSE /\ pulls' = [pulls EXCEPT ![n].stage = "stuck"]
                /\ UNCHANGED asks
        /\ UNCHANGED <<registry, bucket, backOff, prevErr, clock, failed>>

\* finally: the token is returned.
ReturnToken(n) ==
    /\ pulls[n].stage = "leaving"
    /\ pulls' = Handed([pulls EXCEPT ![n].stage = "done"])
    /\ UNCHANGED <<registry, asks, bucket, backOff, prevErr, clock, failed>>

PullNext(n) == PullImage(n) \/ SendResult(n) \/ ReturnToken(n)

----------------------------------------------------------------------------
(* What the rest of the kubelet and the user do.                           *)

\* The pod workers cancel the context of a pod's sync when the pod is to end;
\* there is no sync with its image after that one.  A select that waits is woken
\* by ctx.done(), and the call throws.
CancelPod(p) ==
    /\ ~asks[p].cancelled
    /\ asks' = [asks EXCEPT ![p].cancelled = TRUE,
                            ![p].pc = IF @ = "selecting" THEN "ended" ELSE @]
    /\ UNCHANGED <<registry, pulls, bucket, backOff, prevErr, clock, failed>>

\* ImageRegistry.register and remove
ChangeImages ==
    /\ \E i \in Images :
         registry' = IF i \in registry THEN registry \ {i} ELSE registry \cup {i}
    /\ UNCHANGED <<asks, pulls, bucket, backOff, prevErr, clock, failed>>

\* Time passes; the limiter's refill() adds up what it has gained.
Tick ==
    /\ clock < MaxClock
    /\ clock' = clock + 1
    /\ bucket' = Min({Burst, bucket + Rate})
    /\ UNCHANGED <<registry, asks, pulls, backOff, prevErr, failed>>

ImageNext ==
    \/ \E p \in PullPods : EnsureImageExists(p) \/ AskNext(p) \/ CancelPod(p)
    \/ \E n \in DOMAIN pulls : PullNext(n)
    \/ ChangeImages
    \/ Tick

ImageSpec == ImageInit /\ [][ImageNext]_imageVars

\* Calls and pulls run on the event loop.
ImageFair ==
    /\ \A p \in PullPods : WF_imageVars(AskNext(p))
    /\ \A n \in 1..MaxPulls : WF_imageVars(n \in DOMAIN pulls /\ PullNext(n))
FairImageSpec == ImageSpec /\ ImageFair

----------------------------------------------------------------------------
(* Properties.                                                             *)

\* Never more pulls at a time than there are tokens, and no pull waits while a
\* token is free.
TokensInUse ==
    /\ MaxParallel > 0 => Cardinality(Holders) <= MaxParallel
    /\ Queued # {} => ~HasRoom

\* Between two failures of a pod's pulls at least the back-off passes: Initial
\* after the first, twice as much after each one more, Most at most; a pause of
\* more than twice Most starts again from Initial.
Streak(p, i) ==
    i - Max({1} \cup {j \in 2..i : failed[p][j] - failed[p][j - 1] > 2 * Most})
BackOffHonoured ==
    \A p \in PullPods : \A i \in 1..Len(failed[p]) - 1 :
        failed[p][i + 1] - failed[p][i] >= Min({Initial * 2^Streak(p, i), Most})

\* A pod that is told to wait can be told of the failure it waits for.
BackOffExplained == \A p \in PullPods : InBackOff(p) => p \in prevErr

\* A pull's result is kept for the call that asked for it, and for no other.
PullsHaveOneAsker ==
    \A p \in PullPods : Asks(p, "selecting") =>
        /\ asks[p].pull \in DOMAIN pulls
        /\ pulls[asks[p].pull].pod = p
        /\ pulls[asks[p].pull].stage \in {"queued", "pulling", "sending"}

PullsAreSound == ImageTypeOK /\ TokensInUse /\ BackOffHonoured /\ BackOffExplained
                 /\ PullsHaveOneAsker

\* A pull that nobody listens to when it has its result keeps its token.
TokenIsLost == \E n \in DOMAIN pulls : pulls[n].stage = "stuck"

Waits(p) == Asks(p, "selecting")

\* image-manager.test.ts, "limits concurrent pulls": pulls beyond the limit wait
\* for the ones before them, and then every one of them is made.
EveryPullIsMade == \A p \in PullPods : Waits(p) ~> ~Waits(p)
============================================================================

---------------------------- MODULE ServiceStore ----------------------------
(***************************************************************************)
(* Services and what they are given: the ServiceStore's hooks into Store   *)
(* (cluster/storage/service.ts) that claim or allocate a cluster IP and    *)
(* node ports before an object is committed, and release them when the     *)
(* commit fails, when an update drops them, or when the service goes.      *)
(*                                                                         *)
(* The two ranges are AllocatableRanges: each claim, allocate and release  *)
(* runs under the range's lock, so each is one step here, as               *)
(* AllocatableRange shows.  Node ports are inherited by position alone: a  *)
(* port's identity includes its index, so the fallback to the old port at  *)
(* the same index gives what the identity would.                           *)
(*                                                                         *)
(* A service of type ExternalName keeps the address it is created with, an *)
(* address outside the range too, though nobody claims it; that address is *)
(* the service's from then on, for later claims and releases.  An update   *)
(* may give two ports of a service one node port.  The history variables   *)
(* stray and lost say which values that concerns.  The list clusterIPs is  *)
(* taken to hold what clusterIP holds; an address "None", which no service *)
(* counts and no update to another type can keep, is left out.             *)
(***************************************************************************)
EXTENDS Integers, Sequences, SequencesExt, FiniteSets

CONSTANTS
    Requesters,    \* concurrent API requests
    ServiceNames,
    IPs,           \* the cluster IP range
    NodePorts,     \* the node port range
    MaxPorts,      \* bound: ports of a service
    Submissions,   \* the services requests may ask for
    ServiceMaxRev  \* bound: commits in a behaviour

NotSet == "unset"
Elsewhere == "elsewhere"   \* an address outside the range
Ranges == IPs \cup NodePorts

Types == {"ClusterIP", "NodePort", "ExternalName"}
RequiresClusterIP(type) == type # "ExternalName"
RequiresNodePorts(type) == type = "NodePort"

PortLists == UNION {[1 .. n -> NodePorts \cup {NotSet}] : n \in 0 .. MaxPorts}
Addresses == IPs \cup {NotSet, Elsewhere}
Services  == [mod : Nat, ip : Addresses, ports : PortLists]
\* What a request asks for: the rest of a service is not the store's concern.
Requested == [type : Types, ip : Addresses, ports : PortLists]

\* The ranges are apart, and neither has what is not set or outside.
ServiceAssumption ==
    /\ IPs \cap NodePorts = {} /\ NotSet \notin Ranges /\ Elsewhere \notin Ranges
    /\ MaxPorts \in Nat /\ Submissions \subseteq Requested
ASSUME ServicesAreGiven == ServiceAssumption

Asked(ip, ports) == [mod |-> 0, ip |-> ip, ports |-> ports]
NoService == Asked(NotSet, <<>>)

VARIABLES
    serviceRev, \* etcd's revision
    services,   \* the stored services by name
    allocated,  \* the cluster IPs and node ports that are taken
    request,    \* what each caller is doing
    stray,      \* history: values stored for a service that did not claim them, or twice
    lost        \* history: values not reached, as the release of a stray one failed

serviceVars == <<serviceRev, services, allocated, request, stray, lost>>

(* spec is the service being written, seen the one Store read, next the     *)
(* port whose turn it is, took what this call has claimed or allocated,     *)
(* todo what remains to be released.                                        *)
AtEase == [pc |-> "idle", name |-> NotSet, type |-> "ClusterIP", spec |-> NoService,
           seen |-> NoService, next |-> 1, took |-> <<>>, todo |-> <<>>]

ServiceInit ==
    /\ serviceRev = 0
    /\ services = [n \in ServiceNames |-> NoService]
    /\ allocated = {}
    /\ request = [c \in Requesters |-> AtEase]
    /\ stray = {} /\ lost = {}

Does(c, pc) == request[c].pc = pc
Continues(c, frame) == request' = [request EXCEPT ![c] = frame]

(* serviceAllocations: the IP, then the node ports, a port as often as it   *)
(* is listed.                                                               *)
Values == Ranges \cup {Elsewhere}

\* The elements of a sequence that are in a set, in their order.
Those(seq, set) ==
    LET those[i \in 0 .. Len(seq)] ==
            IF i = 0 THEN <<>>
            ELSE IF seq[i] \in set THEN Append(those[i - 1], seq[i]) ELSE those[i - 1]
    IN  those[Len(seq)]

Allocations(s) == Those(<<s.ip>> \o s.ports, Values)
Difference(old, new) == Those(old, Values \ ToSet(new))

(* releaseAllocations, in order; the call ends afterwards.                  *)
Releasing(c, values) ==
    Continues(c, IF values = <<>> THEN AtEase ELSE [AtEase EXCEPT !.pc = "release", !.todo = values])

(* The range refuses to release what is not allocated, and the rest of the  *)
(* list is not reached; but when the ports of a refused call go back, its   *)
(* address, which beginCreate's own handler releases, still does.           *)
Reached(v, rest) ==
    IF v \in allocated THEN rest ELSE IF v \in NodePorts THEN Those(rest, IPs) ELSE <<>>

ReleaseOne(c) ==
    /\ Does(c, "release")
    /\ LET v    == Head(request[c].todo)
           rest == Tail(request[c].todo)
       IN  /\ allocated' = allocated \ {v}
           /\ Releasing(c, Reached(v, rest))
           /\ lost' = IF v \in stray THEN lost \cup (ToSet(rest) \ ToSet(Reached(v, rest))) ELSE lost
    /\ UNCHANGED <<serviceRev, services, stray>>

----------------------------------------------------------------------------
(* Store.create, up to the allocations *)
Create(c) ==
    /\ Does(c, "idle")
    /\ \E n \in ServiceNames, a \in Submissions :
           /\ services[n] = NoService
           /\ Continues(c, [AtEase EXCEPT !.pc = "clusterIP", !.name = n, !.type = a.type,
                                   !.spec = Asked(a.ip, a.ports)])
    /\ UNCHANGED <<serviceRev, services, allocated, stray, lost>>

(* preserveClusterIP and preserveNodePorts                                  *)
PreservedIP(t, ip, old) ==
    IF ~RequiresClusterIP(t) THEN NotSet ELSE IF ip = NotSet THEN old.ip ELSE ip
PreservedPorts(t, ports, old) ==
    [i \in DOMAIN ports |->
        IF ~RequiresNodePorts(t) THEN NotSet
        ELSE IF ports[i] = NotSet /\ i \in DOMAIN old.ports THEN old.ports[i]
        ELSE ports[i]]

(* Store.update, up to the allocations *)
Update(c) ==
    /\ Does(c, "idle")
    /\ \E n \in ServiceNames, a \in Submissions :
           LET old == services[n]
           IN  /\ old # NoService
               /\ Continues(c, [AtEase EXCEPT !.pc = "clusterIP", !.name = n, !.type = a.type,
                                       !.seen = old,
                                       !.spec = Asked(PreservedIP(a.type, a.ip, old),
                                                      PreservedPorts(a.type, a.ports, old))])
    /\ UNCHANGED <<serviceRev, services, allocated, stray, lost>>

----------------------------------------------------------------------------
(* Claiming a value: one the stored service had is kept, a free one is      *)
(* taken, any other is refused and everything taken so far goes back, first *)
(* the ports and then the address.                                          *)
anyFree(v) == TRUE   \* mutant: claim does not look at the bitmap
Free(v) == v \notin allocated

Undo(c) == Releasing(c, Those(request[c].took, NodePorts) \o Those(request[c].took, IPs))

(* Taking a free value gives the frame "kept" one more value to give back.  *)
Taking(c, v, kept) ==
    /\ allocated' = allocated \cup {v}
    /\ Continues(c, [kept EXCEPT !.took = Append(@, v)])

Claim(c, v, kept) ==
    IF v \in ToSet(Allocations(request[c].seen))
    THEN Continues(c, kept) /\ UNCHANGED allocated
    ELSE IF Free(v)
    THEN Taking(c, v, kept)
    ELSE Undo(c) /\ UNCHANGED allocated

(* A service of type ClusterIP that names a node port is refused, on create *)
(* (an update has dropped them), after its IP was taken. A value that is    *)
(* not named is any free one of the range (nextClusterIP, nextNodePort).    *)
AllocateClusterIP(c) ==
    LET ip   == request[c].spec.ip
        kept == [request[c] EXCEPT !.pc = "nodePorts"]
    IN  /\ Does(c, "clusterIP")
        /\ IF ~RequiresClusterIP(request[c].type)
           THEN Continues(c, kept) /\ UNCHANGED allocated
           ELSE IF ip = Elsewhere
           THEN Undo(c) /\ UNCHANGED allocated
           ELSE IF ip # NotSet
           THEN Claim(c, ip, kept)
           ELSE IF IPs \subseteq allocated
           THEN Undo(c) /\ UNCHANGED allocated
           ELSE \E v \in IPs \ allocated : Taking(c, v, [kept EXCEPT !.spec.ip = v])
        /\ UNCHANGED <<serviceRev, services, stray, lost>>

(* The loop of allocateNodePorts, one port a step.                          *)
AllocateNodePort(c, i) ==
    LET port == request[c].spec.ports[i]
        kept == [request[c] EXCEPT !.next = i + 1]
    IN  IF port # NotSet
        THEN Claim(c, port, kept)
        ELSE IF NodePorts \subseteq allocated
        THEN Undo(c) /\ UNCHANGED allocated
        ELSE \E v \in NodePorts \ allocated : Taking(c, v, [kept EXCEPT !.spec.ports[i] = v])

AllocateNodePorts(c) ==
    /\ Does(c, "nodePorts")
    /\ IF ~RequiresNodePorts(request[c].type)
       THEN /\ IF \E i \in DOMAIN request[c].spec.ports : request[c].spec.ports[i] # NotSet
               THEN Undo(c)
               ELSE Continues(c, [request[c] EXCEPT !.pc = "commit"])
            /\ UNCHANGED allocated
       ELSE IF request[c].next > Len(request[c].spec.ports)
       THEN Continues(c, [request[c] EXCEPT !.pc = "commit"]) /\ UNCHANGED allocated
       ELSE AllocateNodePort(c, request[c].next)
    /\ UNCHANGED <<serviceRev, services, stray, lost>>

----------------------------------------------------------------------------
(* The conditional put, and finish(success).                                *)
Current(c) == services[request[c].name].mod = request[c].seen.mod

Finished(c) == Releasing(c, Difference(Allocations(request[c].seen), Allocations(request[c].spec)))
Reverted(c) == Releasing(c, request[c].took)

(* An address that is stored though allocateClusterIP claimed none, and node *)
(* ports that two ports of the service name.                                *)
Astray(type, s) ==
    {v \in Values :
        \/ v = s.ip /\ ~RequiresClusterIP(type)
        \/ \E i, j \in DOMAIN s.ports : i # j /\ s.ports[i] = v /\ s.ports[j] = v}

Commit(c) ==
    /\ Does(c, "commit")
    /\ IF Current(c)
       THEN /\ serviceRev < ServiceMaxRev
            /\ serviceRev' = serviceRev + 1
            /\ services' = [services EXCEPT ![request[c].name] =
                                [request[c].spec EXCEPT !.mod = serviceRev + 1]]
            /\ stray' = stray \cup Astray(request[c].type, request[c].spec)
            /\ Finished(c)
       ELSE /\ Reverted(c)
            /\ UNCHANGED <<serviceRev, services, stray>>
    /\ UNCHANGED <<allocated, lost>>

(* Store.delete and afterDelete                                             *)
DeleteService(c) ==
    /\ Does(c, "idle")
    /\ \E n \in ServiceNames :
           /\ services[n] # NoService
           /\ Continues(c, [AtEase EXCEPT !.pc = "delete", !.name = n, !.seen = services[n]])
    /\ UNCHANGED <<serviceRev, services, allocated, stray, lost>>

CommitDelete(c) ==
    /\ Does(c, "delete")
    /\ LET n == request[c].name
       IN  IF Current(c)
           THEN /\ serviceRev < ServiceMaxRev
                /\ serviceRev' = serviceRev + 1
                /\ services' = [services EXCEPT ![n] = NoService]
                /\ Releasing(c, Allocations(request[c].seen))
           ELSE /\ Continues(c, IF services[n] = NoService THEN AtEase
                                   ELSE [request[c] EXCEPT !.seen = services[n]])
                /\ UNCHANGED <<serviceRev, services>>
    /\ UNCHANGED <<allocated, stray, lost>>

ServiceNext ==
    \E c \in Requesters :
        \/ Create(c) \/ Update(c) \/ DeleteService(c)
        \/ AllocateClusterIP(c) \/ AllocateNodePorts(c)
        \/ Commit(c) \/ CommitDelete(c) \/ ReleaseOne(c)

ServiceSpec == ServiceInit /\ [][ServiceNext]_serviceVars

----------------------------------------------------------------------------
(* Properties *)

ServiceFrames == [pc : {"idle", "clusterIP", "nodePorts", "commit", "delete", "release"},
           name : ServiceNames \cup {NotSet}, type : Types, spec : Services, seen : Services,
           next : 1 .. MaxPorts + 1, took : Seq(Ranges), todo : Seq(Values)]

(* The variables have the shapes declared above.                            *)
ServiceTypeOK ==
    /\ serviceRev \in Nat
    /\ services \in [ServiceNames -> Services]
    /\ allocated \subseteq Ranges /\ stray \subseteq Values /\ lost \subseteq Values
    /\ request \in [Requesters -> ServiceFrames]

InUse == UNION {ToSet(Allocations(services[n])) : n \in ServiceNames}

(* No two services have a cluster IP or a node port in common, whatever     *)
(* creates, updates and deletes of the two raced: a service stored with a   *)
(* value that it did not claim, or claimed once and has twice, may share    *)
(* that value and no other.                                                 *)
NothingShared ==
    \A n, m \in ServiceNames :
        n # m => ToSet(Allocations(services[n])) \cap ToSet(Allocations(services[m])) \subseteq stray

(* What a stored service uses is allocated, so nobody else can be given it. *)
InUseIsAllocated == InUse \subseteq allocated \cup stray

(* What losing calls took and what updates and deletes dropped comes back:  *)
(* between calls nothing is allocated that no service uses, but for what    *)
(* came after a stray value in a list to release.                           *)
NothingLeaked ==
    (\A c \in Requesters : Does(c, "idle")) => allocated \subseteq InUse \cup stray \cup lost

(* What services use, what is taken and what requests hold, together.       *)
AllocationsAreSound == ServiceTypeOK /\ NothingShared /\ InUseIsAllocated /\ NothingLeaked
=============================================================================

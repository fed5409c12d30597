------------------------------ MODULE Network -------------------------------
(***************************************************************************)
(* The virtual network (cluster/cni/network.ts): addresses of pod          *)
(* sandboxes, the listeners of their processes, the tables of nodes and    *)
(* services requests are routed by, and the requests themselves, from      *)
(* fetch() through name resolution and latency to the answer.              *)
(*                                                                         *)
(* Addresses are numbers: 1 .. LastAddress are the usable ones of the      *)
(* pods' CIDR, those of services and nodes are larger.  Every listener     *)
(* listens on the one port of its protocol.  A sandbox has two processes,  *)
(* its container's main one and one started by exec, which a stop of the   *)
(* container does not end.                                                 *)
(***************************************************************************)
EXTENDS Integers, Sequences, SequencesExt, FiniteSets

CONSTANTS
    NetworkPods, DnsPods,  \* pods, and those whose main process serves DNS
    MaxSandboxes,      \* bound: sandboxes ever run
    LastAddress,       \* the last usable address of the pods' CIDR
    Names,             \* services
    ClusterIPs, NodePorts, NodeIPs, Nodes, Aliases,
    DnsIP,             \* the cluster's DNS server: an address of a service
    Hosts,             \* what requests are sent to
    MaxRequests        \* bound: requests

VARIABLES
    net,        \* ClusterNetwork
    sandboxes,  \* the sandboxes and their processes
    fetches    \* calls of fetch

netVars == <<net, sandboxes, fetches>>

PodIPs  == 1 .. LastAddress
Ids     == 1 .. MaxSandboxes
Procs   == Ids \X {"main", "exec"}
NoProc  == <<0, "none">>
NoName  == "no service"
NoService == [ip |-> 0, nodePort |-> 0]
NoTargets == [list |-> <<>>, at |-> 0]     \* no TargetList
NoInfo    == [ips |-> <<>>, aliases |-> {}]

EmptyNetwork ==
    [cursor     |-> 0,                                \* the allocator's, 0: undefined
     ipOf       |-> [i \in Ids |-> 0],                \* podsBySandboxId
     podsByIp   |-> [a \in PodIPs |-> 0],
     dnsConfigs |-> {},                               \* podDnsConfigsByUid
     http       |-> [a \in PodIPs |-> NoProc],        \* httpListeners
     dns        |-> [a \in PodIPs |-> NoProc],        \* dnsListeners
     svc        |-> [s \in Names |-> NoService],      \* servicesByKey
     byIP       |-> [c \in ClusterIPs |-> NoName],    \* servicesByClusterIp
     byPort     |-> [p \in NodePorts |-> NoName],     \* servicesByNodePort
     targets    |-> [s \in Names |-> NoTargets],      \* targetListsByServicePort
     info       |-> [n \in Nodes |-> NoInfo],         \* nodesByName and what it is indexed by
     namesByIp  |-> [a \in NodeIPs |-> {}],           \* nodeNamesByIp
     ipsByAlias |-> [a \in Aliases |-> {}]]           \* nodeIpsByAlias

NoSandbox == [uid |-> "", state |-> "none", ip |-> 0, main |-> "none", exec |-> "none"]

NetworkInit ==
    /\ net = EmptyNetwork
    /\ sandboxes = [i \in Ids |-> NoSandbox]
    /\ fetches = <<>>

----------------------------------------------------------------------------
(* Addresses of pods *)

(* What the first try takes: the address after the last one given, or the   *)
(* first one, when none was given (0) or the last one was.                  *)
addressAfter(a) == IF a < LastAddress THEN a + 1 ELSE 1

(* allocatePodIp makes as many tries as there are addresses, each for the   *)
(* one after the try before; past the last one the i-th try is the i-th     *)
(* address.                                                                 *)
Tried(cursor, i) ==
    LET candidate == addressAfter(cursor) + i - 1
    IN  IF candidate \in PodIPs THEN candidate ELSE i

FreeTry(n, i) == n.podsByIp[Tried(n.cursor, i)] = 0

(* runPodSandbox and setupPodSandbox: the first free address is given; with *)
(* none left it fails.                                                      *)
RunSandbox(uid, i) ==
    /\ sandboxes[i].state = "none" /\ (\A j \in Ids : j < i => sandboxes[j].state # "none")
    /\ \/ /\ \A t \in PodIPs : ~FreeTry(net, t)
          /\ sandboxes' = [sandboxes EXCEPT ![i] = [@ EXCEPT !.uid = uid, !.state = "failed"]]
          /\ UNCHANGED net
       \/ \E t \in PodIPs :
             /\ FreeTry(net, t) /\ (\A u \in PodIPs : u < t => ~FreeTry(net, u))
             /\ LET ip == Tried(net.cursor, t)
                IN  /\ sandboxes' = [sandboxes EXCEPT ![i] =
                                       [@ EXCEPT !.uid = uid, !.state = "Ready", !.ip = ip]]
                    /\ net' = [net EXCEPT !.cursor = ip, !.ipOf[i] = ip, !.podsByIp[ip] = i,
                                          !.dnsConfigs = @ \cup {uid}]
    /\ UNCHANGED fetches

(* unregisterPod, called through the sandbox's registration, which is gone  *)
(* after the first call.                                                    *)
Without(i, n) ==
    LET ip == n.ipOf[i]
        m  == [n EXCEPT !.ipOf[i] = 0, !.podsByIp[ip] = 0,
                        !.http[ip] = NoProc, !.dns[ip] = NoProc]
    IN  IF ip = 0 THEN n
        ELSE [m EXCEPT !.dnsConfigs =
                 IF \E j \in Ids : m.ipOf[j] # 0 /\ sandboxes[j].uid = sandboxes[i].uid
                 THEN @ ELSE @ \ {sandboxes[i].uid}]
WithoutKeepingListeners(i, n) ==  \* mutant: the address stays bound
    LET ip == n.ipOf[i] IN IF ip = 0 THEN n ELSE [n EXCEPT !.ipOf[i] = 0, !.podsByIp[ip] = 0]
unregisterPod(i, n) == Without(i, n)

----------------------------------------------------------------------------
(* Processes and their listeners: a container is started, and restarted, in *)
(* its sandbox; exec runs a process in a container of any state.            *)

Kind(i, p) == IF p = "main" /\ sandboxes[i].uid \in DnsPods THEN "dns" ELSE "http"

Start(i, p) ==
    /\ IF p = "main" THEN sandboxes[i].state = "Ready" /\ sandboxes[i].main \in {"none", "ended"}
       ELSE /\ sandboxes[i].state \in {"Ready", "NotReady"}
            /\ sandboxes[i].exec = "none" /\ sandboxes[i].main # "none"
    /\ sandboxes' = [sandboxes EXCEPT ![i][p] = "running"]
    /\ UNCHANGED <<net, fetches>>

(* listenHttp, listenDns: refused, which ends the process, when the sandbox *)
(* has left the network or the address is bound.                            *)
Listen(i, p) ==
    LET ip == net.ipOf[i]
        k  == Kind(i, p)
        ok == ip # 0 /\ net[k][ip] = NoProc
    IN  /\ sandboxes[i][p] = "running"
        /\ sandboxes' = [sandboxes EXCEPT ![i][p] = IF ok THEN "listening" ELSE "ended"]
        /\ net' = IF ok THEN [net EXCEPT ![k][ip] = <<i, p>>] ELSE net
        /\ UNCHANGED fetches

(* The close of a listener bound at ip: the binding goes if it is its own.  *)
Unbinds(n, k, ip, proc) == IF n[k][ip] = proc THEN [n EXCEPT ![k][ip] = NoProc] ELSE n

(* ProcessInstance.finish.  The listener remembers its address, which the   *)
(* sandbox may have lost since.                                             *)
ProcessEnds(i, p) ==
    /\ sandboxes[i][p] \in {"running", "listening"}
    /\ sandboxes' = [sandboxes EXCEPT ![i][p] = "ended"]
    /\ net' = IF sandboxes[i][p] = "listening"
              THEN Unbinds(net, Kind(i, p), sandboxes[i].ip, <<i, p>>) ELSE net
    /\ UNCHANGED fetches

(* stopPodSandbox, also as removePodSandbox calls it again: the containers' *)
(* main processes are killed first.                                         *)
StopSandbox(i) ==
    /\ sandboxes[i].state \in {"Ready", "NotReady"}
    /\ sandboxes[i].main \notin {"running", "listening"}
    /\ sandboxes' = [sandboxes EXCEPT ![i].state = IF @ = "Ready" THEN "NotReady" ELSE "removed"]
    /\ net' = unregisterPod(i, net)
    /\ UNCHANGED fetches
----------------------------------------------------------------------------
(* Nodes: what a node's status says, [ips, aliases], indexed by address and *)
(* by name; a name stands for the node's first address.                     *)

unregisterNode(n, node) ==
    LET i    == n.info[node]
        gone == [n EXCEPT !.info[node] = NoInfo,
                          !.namesByIp = [a \in NodeIPs |-> @[a] \ (IF a \in Range(i.ips) THEN {node} ELSE {})],
                          !.ipsByAlias = [a \in Aliases |->
                              IF a \in i.aliases THEN @[a] \ Range(i.ips) ELSE @[a]]]
    IN  IF i = NoInfo THEN n ELSE gone

registerNode(n, node, i) ==
    LET m == unregisterNode(n, node)
    IN  [m EXCEPT !.info[node] = i,
                  !.namesByIp = [a \in NodeIPs |-> @[a] \cup (IF a \in Range(i.ips) THEN {node} ELSE {})],
                  !.ipsByAlias = [a \in Aliases |->
                      IF a \in i.aliases /\ i.ips # <<>> THEN @[a] \cup {i.ips[1]} ELSE @[a]]]

----------------------------------------------------------------------------
(* Services *)

unregisterService(n, s) ==
    LET old == n.svc[s]
        m   == [n EXCEPT !.svc[s] = NoService, !.byIP[old.ip] = NoName, !.targets[s] = NoTargets]
    IN  IF old = NoService THEN n
        ELSE IF old.nodePort = 0 THEN m ELSE [m EXCEPT !.byPort[old.nodePort] = NoName]

(* registerService throws, with the service registered but for its NodePort *)
(* and its targets, when the NodePort is another service's.                 *)
PortIsTaken(n, s, new) == new.nodePort # 0 /\ unregisterService(n, s).byPort[new.nodePort] # NoName
registerService(n, s, new) ==
    LET m == [unregisterService(n, s) EXCEPT
                 !.svc[s] = new, !.byIP[new.ip] = s, !.targets[s] = [list |-> <<>>, at |-> 1]]
    IN  IF new.nodePort = 0 \/ PortIsTaken(n, s, new) THEN m
        ELSE [m EXCEPT !.byPort[new.nodePort] = s]

(* TargetList: setTargets, and next, which takes turns.                     *)
setServiceTargets(n, s, list) ==
    [n EXCEPT !.targets[s] =
        [list |-> list, at |-> IF list = <<>> THEN 1 ELSE 1 + ((@.at - 1) % Len(list))]]
TakeTurn(n, s) == [n EXCEPT !.targets[s].at = 1 + (@ % Len(n.targets[s].list))]
NextTarget(n, s) == n.targets[s].list[n.targets[s].at]
HasTarget(n, s)  == n.targets[s] # NoTargets /\ n.targets[s].list # <<>>

----------------------------------------------------------------------------
(* Requests *)

Nowhere == 0

(* routeFetchEndpoint: a node's address stands for the service of the       *)
(* NodePort, a cluster IP for its service, any other address for itself.    *)
Route(n, ip, port) ==
    LET s == IF ip \in NodeIPs THEN (IF port \in NodePorts THEN n.byPort[port] ELSE NoName)
             ELSE IF ip \in ClusterIPs THEN n.byIP[ip] ELSE NoName
        isService == IF ip \in NodeIPs THEN n.namesByIp[ip] # {} ELSE s # NoName
    IN  IF isService
        THEN IF s # NoName /\ HasTarget(n, s)
             THEN [net |-> TakeTurn(n, s), to |-> NextTarget(n, s)]
             ELSE [net |-> n, to |-> Nowhere]
        ELSE [net |-> n, to |-> ip]

Bound(n, kind, to) == to \in PodIPs /\ n[kind][to] # NoProc

(* The rest of fetch once it has an address: the route, and the check that  *)
(* somebody listens there; then the request is under way.                   *)
Dispatches(n, req, ip) ==
    LET route == Route(n, ip, req.host.port)
    IN  [net |-> route.net,
         req |-> [req EXCEPT !.pc = IF Bound(n, "http", route.to) THEN "sent" ELSE "refused",
                             !.to = route.to,
                             !.owner = IF route.to \in PodIPs THEN n.podsByIp[route.to] ELSE 0]]

(* resolveDns, one name at a time: a pod with a DNS config looks the name   *)
(* up with its search domain first.  CoreDNS, if it listens, answers what   *)
(* it knows at that moment; known is the address of the service, 0 if it    *)
(* knows none.  With no listener fetch fails.                               *)
Lookups(uid) == IF uid \in net.dnsConfigs THEN <<"searched", "bare">> ELSE <<"bare">>
Asks(n, req, lookups, known) ==
    LET route == Route(n, DnsIP, 53)
    IN  [net |-> route.net,
         req |-> [req EXCEPT !.pc = IF Bound(n, "dns", route.to) THEN "resolving" ELSE "refused",
                             !.answer = IF Head(lookups) = "searched" THEN known ELSE 0,
                             !.lookups = Tail(lookups)]]

Proceeds(r, w) == net' = w.net /\ fetches' = [fetches EXCEPT ![r] = w.req] /\ UNCHANGED sandboxes

(* podOriginIP: the address of a sandbox of the pod.                        *)
OriginIPs(uid) == {net.ipOf[i] : i \in {j \in Ids : net.ipOf[j] # 0 /\ sandboxes[j].uid = uid}}

(* fetch, up to its first await.                                            *)
Fetch(uid, host, known) ==
    LET req == [pc |-> "new", origin |-> uid, host |-> host, lookups |-> <<>>, answer |-> 0,
                to |-> Nowhere, owner |-> 0, by |-> NoProc]
        Starts(w) == net' = w.net /\ fetches' = Append(fetches, w.req) /\ UNCHANGED sandboxes
    IN  /\ Len(fetches) < MaxRequests
        /\ \/ /\ host.kind = "ip"
              /\ Starts(Dispatches(net, req, host.ip))
           \/ /\ host.kind = "localhost"
              /\ \E ip \in OriginIPs(uid) : Starts(Dispatches(net, req, ip))
           \/ /\ host.kind = "alias"
              /\ \E ip \in net.ipsByAlias[host.alias] : Starts(Dispatches(net, req, ip))
           \/ /\ host.kind = "name"
              /\ Starts(Asks(net, req, Lookups(uid), known))

(* The DNS answer arrives: the next name is looked up, or the request goes  *)
(* to the address, or out of the cluster when no name is known.             *)
Resumes(r, known) ==
    LET req == fetches[r]
    IN  /\ req.pc = "resolving"
        /\ \/ /\ req.answer # 0
              /\ Proceeds(r, Dispatches(net, req, req.answer))
           \/ /\ req.answer = 0 /\ req.lookups # <<>>
              /\ Proceeds(r, Asks(net, req, req.lookups, known))
           \/ /\ req.answer = 0 /\ req.lookups = <<>>
              /\ Proceeds(r, [net |-> net, req |-> [req EXCEPT !.pc = "external"]])

(* dispatchHttp, after the request's latency: whoever listens there now     *)
(* handles it.                                                              *)
Arrives(r) ==
    LET req == fetches[r]
    IN  /\ req.pc = "sent"
        /\ Proceeds(r, [net |-> net, req |->
               IF Bound(net, "http", req.to)
               THEN [req EXCEPT !.pc = "handling", !.by = net.http[req.to]]
               ELSE [req EXCEPT !.pc = "refused"]])

(* The handler's answer and the response's latency are over.                *)
Responds(r) ==
    /\ fetches[r].pc = "handling"
    /\ Proceeds(r, [net |-> net, req |-> [fetches[r] EXCEPT !.pc = "answered"]])

Cancels(r) ==
    /\ fetches[r].pc \in {"sent", "handling"}
    /\ Proceeds(r, [net |-> net, req |-> [fetches[r] EXCEPT !.pc = "canceled"]])

PodStep ==
    \/ \E uid \in NetworkPods, i \in Ids : RunSandbox(uid, i)
    \/ \E proc \in Procs : Start(proc[1], proc[2]) \/ Listen(proc[1], proc[2]) \/ ProcessEnds(proc[1], proc[2])
    \/ \E i \in Ids : StopSandbox(i)
    \/ \E r \in DOMAIN fetches : Arrives(r) \/ Responds(r) \/ Cancels(r)

----------------------------------------------------------------------------
(* The network by itself, whoever keeps its tables (KubeProxy does) and     *)
(* whatever CoreDNS answers: each operation may be called at any time, a    *)
(* list of targets only for a service that is registered.                   *)

Services     == [ip : ClusterIPs, nodePort : NodePorts \cup {0}]
NodeStatuses == [ips : Seq(NodeIPs), aliases : SUBSET Aliases]

TableStep ==
    /\ \/ \E s \in Names, new \in Services : net' = registerService(net, s, new)
       \/ \E s \in Names : net' = unregisterService(net, s)
       \/ \E s \in Names, list \in Seq(Int) :
             net.svc[s] # NoService /\ net' = setServiceTargets(net, s, list)
       \/ \E n \in Nodes, i \in NodeStatuses : net' = registerNode(net, n, i)
       \/ \E n \in Nodes : net' = unregisterNode(net, n)
    /\ UNCHANGED <<sandboxes, fetches>>

RequestStep ==
    \E known \in ClusterIPs \cup {0} :
       \/ \E uid \in NetworkPods, host \in Hosts : Fetch(uid, host, known)
       \/ \E r \in DOMAIN fetches : Resumes(r, known)

NetworkNext == PodStep \/ TableStep \/ RequestStep
NetworkSpec == NetworkInit /\ [][NetworkNext]_netVars

----------------------------------------------------------------------------
(* Properties *)

(* The tables agree: a registered sandbox owns its address alone, a         *)
(* listener is that of a live process of the sandbox that owns its address, *)
(* whatever ended, left or was reused before, and a pod's DNS config is     *)
(* there as long as one of its sandboxes is on the network.                 *)
ListensAt(i, p, a) == net[Kind(i, p)][a] = <<i, p>>
NetworkIsSound ==
    /\ \A i \in Ids, a \in PodIPs : net.podsByIp[a] = i <=> net.ipOf[i] = a
    /\ \A a \in PodIPs, k \in {"http", "dns"} : net[k][a] # NoProc =>
           LET proc == net[k][a]
           IN  net.ipOf[proc[1]] = a /\ sandboxes[proc[1]][proc[2]] = "listening"
    /\ \A proc \in Procs : LET i == proc[1] IN
           sandboxes[i][proc[2]] = "listening" /\ net.ipOf[i] # 0 => ListensAt(i, proc[2], net.ipOf[i])
    /\ net.dnsConfigs = {sandboxes[i].uid : i \in {j \in Ids : net.ipOf[j] # 0}}

(* A request is handled by the sandbox that owned its address when it was   *)
(* routed, unless that one has left the network since: with the latency     *)
(* between, a later owner of the address may answer in its place.           *)
HandledByOwner ==
    \A r \in DOMAIN fetches : fetches[r].by # NoProc =>
        fetches[r].by[1] = fetches[r].owner \/ net.ipOf[fetches[r].owner] = 0

(* A turn always leads to a target: the round robin of a service stays in   *)
(* its list when the list shrinks under it.                                 *)
TurnsStayInList ==
    \A s \in Names : HasTarget(net, s) => net.targets[s].at \in DOMAIN net.targets[s].list

(* The tables agree with the sandboxes, requests are handled by whom they   *)
(* were for, and turns stay in their lists.                                 *)
NetworkServes == NetworkIsSound /\ HandledByOwner /\ TurnsStayInList

(* setupPodSandbox fails with "no free pod IPs" only when every address is  *)
(* some sandbox's.  Violated: the n-th try past the end of the range is the *)
(* n-th address, so those before it are never tried.                        *)
FailsWhenFull ==
    [][\A i \in Ids : sandboxes[i].state = "none" /\ sandboxes'[i].state = "failed" =>
           \A a \in PodIPs : net.podsByIp[a] # 0]_netVars
=============================================================================

----------------------------- MODULE KubeProxy -----------------------------
(***************************************************************************)
(* kube-proxy (cluster/images/proxy.ts) keeps the virtual network's        *)
(* services and nodes those of the API server, and CoreDNS                 *)
(* (cluster/images/coredns.ts) answers with the services.  Both follow     *)
(* informers: once one watches, its callbacks run inside the write they    *)
(* are about (Informer).  Both run as containers, which may end and be     *)
(* restarted; the network is the cluster's and keeps what it was told.     *)
(*                                                                         *)
(* A service has one EndpointSlice, that of the endpoint slice controller  *)
(* (EndpointSlices): the sequence of its endpoints, each [ip, ready].      *)
(***************************************************************************)
EXTENDS Network

CONSTANTS
    SliceChoices,   \* what a slice may say
    NodeInfos,      \* what a node's status may say, for each node
    MaxApiChanges,  \* bound: writes of users and of the slice controller
    MaxRestarts     \* bound: starts of the proxy

Headless == [ip |-> -1, nodePort |-> 0]
NoSlice  == <<[ip |-> 0, ready |-> FALSE]>>

VARIABLES
    api,    \* the services, slices and nodes of the API server
    proxy   \* KubeProxy: its caches, and the start of its informers

proxyVars == <<netVars, api, proxy>>

Down(starts) ==
    [at |-> "down", services |-> [s \in Names |-> NoService], slices |-> [s \in Names |-> NoSlice],
     answered |-> FALSE, listed |-> <<>>, missed |-> <<>>, threw |-> {}, starts |-> starts]

KubeProxyInit ==
    /\ NetworkInit
    /\ api = [services |-> [s \in Names |-> NoService], slices |-> [s \in Names |-> NoSlice],
              nodes |-> [n \in Nodes |-> NoInfo], changes |-> 0, unseen |-> FALSE]
    /\ proxy = Down(0)

----------------------------------------------------------------------------
(* The callbacks, on w = [net, px]: the network and the proxy's caches.     *)

isRoutableService(s) == s.ip \in ClusterIPs

EachReady(slice) == slice  \* mutant: also the endpoints that are not ready
Ready(slice)     == SelectSeq(slice, LAMBDA e : e.ready)
TargetsOf(slice) ==
    IF slice = NoSlice THEN <<>>
    ELSE LET es == Ready(slice) IN [i \in DOMAIN es |-> es[i].ip]

(* reconcileService; registerService throws when the NodePort is taken, and *)
(* the targets are not set.                                                 *)
reconcileService(w, s) ==
    LET new   == w.px.services[s]
        throws == isRoutableService(new) /\ PortIsTaken(w.net, s, new)
    IN  [net |-> IF ~isRoutableService(new) THEN unregisterService(w.net, s)
                 ELSE IF throws THEN registerService(w.net, s, new)
                 ELSE setServiceTargets(registerService(w.net, s, new), s,
                                        TargetsOf(w.px.slices[s])),
         px  |-> [w.px EXCEPT !.threw = IF throws THEN @ \cup {s} ELSE @ \ {s}]]

upsertService(w, s, new) == reconcileService([w EXCEPT !.px.services[s] = new], s)
deleteService(w, s) ==
    [net |-> unregisterService(w.net, s),
     px  |-> [w.px EXCEPT !.services[s] = NoService, !.threw = @ \ {s}]]
upsertEndpointSlice(w, s, new) ==
    LET cached == [w EXCEPT !.px.slices[s] = new]
    IN  IF w.px.services[s] = NoService THEN cached ELSE reconcileService(cached, s)
deleteEndpointSlice(w, s) == upsertEndpointSlice(w, s, NoSlice)
upsertNode(w, n, new) == [w EXCEPT !.net = registerNode(w.net, n, new)]
deleteNode(w, n)      == [w EXCEPT !.net = unregisterNode(w.net, n)]

(* What a change of the API server does through the informer of its kind.   *)
Handled(w, c) ==
    CASE c.kind = "services" /\ c.new = NoService -> deleteService(w, c.name)
      [] c.kind = "services" /\ c.new # NoService -> upsertService(w, c.name, c.new)
      [] c.kind = "slices" /\ c.new = NoSlice     -> deleteEndpointSlice(w, c.name)
      [] c.kind = "slices" /\ c.new # NoSlice     -> upsertEndpointSlice(w, c.name, c.new)
      [] c.kind = "nodes" /\ c.new = NoInfo       -> deleteNode(w, c.name)
      [] c.kind = "nodes" /\ c.new # NoInfo       -> upsertNode(w, c.name, c.new)

(* The informers start one after the other; those that have watch.          *)
Order == <<"nodes", "services", "slices", "up">>
At(k) == CHOOSE i \in 1 .. 4 : Order[i] = k
Watches(kind) == proxy.at # "down" /\ At(kind) < At(proxy.at)

Absent(kind) == CASE kind = "nodes" -> NoInfo [] kind = "services" -> NoService [] OTHER -> NoSlice

(* A write, with the callback in it, or put aside for the informer that has *)
(* its list's answer, or unseen.  That a service or a node the network      *)
(* holds went unseen is remembered: nothing tells the network later.        *)
Holds(kind, name) == \/ kind = "services" /\ net.svc[name] # NoService
                     \/ kind = "nodes" /\ net.info[name] # NoInfo
Writes(kind, name, new) ==
    LET c    == [kind |-> kind, name |-> name, new |-> new]
        w    == Handled([net |-> net, px |-> proxy], c)
        sees == Watches(kind) \/ (proxy.at = kind /\ proxy.answered)
    IN  /\ api.changes < MaxApiChanges
        /\ api' = [api EXCEPT ![kind][name] = new, !.changes = @ + 1,
                              !.unseen = @ \/ (~sees /\ new = Absent(kind) /\ Holds(kind, name))]
        /\ net' = IF Watches(kind) THEN w.net ELSE net
        /\ proxy' = IF Watches(kind) THEN w.px
                    ELSE IF sees THEN [proxy EXCEPT !.missed = Append(@, c)] ELSE proxy
        /\ UNCHANGED <<sandboxes, fetches>>

(* Users; the API server allocates cluster IPs and NodePorts (ServiceStore) *)
CreateService(s) ==
    /\ api.services[s] = NoService
    /\ \/ Writes("services", s, Headless)
       \/ \E ip \in ClusterIPs, port \in NodePorts \cup {0} :
             /\ \A t \in Names : api.services[t].ip # ip /\ (port # 0 => api.services[t].nodePort # port)
             /\ Writes("services", s, [ip |-> ip, nodePort |-> port])
UpdateService(s) ==
    /\ isRoutableService(api.services[s])
    /\ \E port \in NodePorts \cup {0} :
          /\ port # api.services[s].nodePort
          /\ port # 0 => \A t \in Names : api.services[t].nodePort # port
          /\ Writes("services", s, [api.services[s] EXCEPT !.nodePort = port])
DeleteService(s) == api.services[s] # NoService /\ Writes("services", s, NoService)

WriteSlice(s) ==
    \E new \in SliceChoices \cup {NoSlice} : new # api.slices[s] /\ Writes("slices", s, new)
WriteNode(n) ==
    \E new \in NodeInfos[n] \cup {NoInfo} : new # api.nodes[n] /\ Writes("nodes", n, new)

----------------------------------------------------------------------------
(* startServiceRouting *)

StartProxy ==
    /\ proxy.at = "down" /\ proxy.starts < MaxRestarts
    /\ proxy' = [proxy EXCEPT !.at = "nodes", !.starts = @ + 1]
    /\ UNCHANGED <<netVars, api>>

ListIsMade ==
    /\ proxy.at \in {"nodes", "services", "slices"} /\ ~proxy.answered
    /\ proxy' = [proxy EXCEPT !.answered = TRUE, !.listed = api[proxy.at]]
    /\ UNCHANGED <<netVars, api>>

(* The list arrives: an add for each of its items, then what was written    *)
(* since.  After the last kind every service is reconciled again.  A        *)
(* callback that throws for an item of the list ends the process; one that  *)
(* throws for a later write does not.                                       *)
ListArrives ==
    LET kind   == proxy.at
        names  == SetToSeq({x \in DOMAIN proxy.listed : proxy.listed[x] # Absent(kind)})
        Add(w, x) == IF w.px.threw # {} THEN w
                     ELSE Handled(w, [kind |-> kind, name |-> x, new |-> proxy.listed[x]])
        added  == FoldLeft(Add, [net |-> net, px |-> proxy], names)
        since  == FoldLeft(Handled, added, proxy.missed)
        all    == IF kind = "slices"
                  THEN FoldLeft(LAMBDA w, s : IF w.px.threw # {} \/ w.px.services[s] = NoService THEN w
                                              ELSE reconcileService(w, s),
                                since, SetToSeq(Names))
                  ELSE since
    IN  /\ proxy.answered
        /\ IF added.px.threw # {}
           THEN net' = added.net /\ proxy' = Down(proxy.starts)
           ELSE IF kind = "slices" /\ all.px.threw # {}
           THEN net' = all.net /\ proxy' = Down(proxy.starts)
           ELSE /\ net' = all.net
                /\ proxy' = [all.px EXCEPT !.at = Order[At(kind) + 1], !.answered = FALSE,
                                           !.listed = <<>>, !.missed = <<>>]
        /\ UNCHANGED <<sandboxes, fetches, api>>

(* The container ends; its informers are stopped.                           *)
ProxyEnds ==
    /\ proxy.at # "down" /\ proxy.starts < MaxRestarts
    /\ proxy' = Down(proxy.starts)
    /\ UNCHANGED <<netVars, api>>

----------------------------------------------------------------------------
(* CoreDNS follows the services alone; while its process listens it knows   *)
(* those of the API server.                                                 *)
Known(s) == IF api.services[s].ip \in ClusterIPs THEN api.services[s].ip ELSE 0
KnownTo(host) == IF host.kind = "name" THEN Known(host.name) ELSE 0

Requests ==
    /\ \/ \E uid \in NetworkPods, host \in Hosts : Fetch(uid, host, KnownTo(host))
       \/ \E r \in DOMAIN fetches : Resumes(r, KnownTo(fetches[r].host))
    /\ UNCHANGED <<api, proxy>>

Users ==
    \/ \E s \in Names : CreateService(s) \/ UpdateService(s) \/ DeleteService(s) \/ WriteSlice(s)
    \/ \E n \in Nodes : WriteNode(n)

ProxyStep == StartProxy \/ ListIsMade \/ ListArrives \/ ProxyEnds

KubeProxyNext ==
    \/ PodStep /\ UNCHANGED <<api, proxy>>
    \/ Requests
    \/ Users
    \/ ProxyStep

KubeProxySpec == KubeProxyInit /\ [][KubeProxyNext]_proxyVars

----------------------------------------------------------------------------
(* Properties *)

(* Once the proxy's informers watch, the network routes every service's     *)
(* address and NodePort to exactly its ready endpoints, and knows no other  *)
(* service, whatever the order services, slices and nodes were written and  *)
(* listed in and however often the proxy was restarted: except that what    *)
(* went while no proxy looked stays, and that a service a callback threw    *)
(* for waits for the next one.                                              *)
RoutedTo(s) ==
    LET v == api.services[s]
    IN  /\ net.svc[s] = v /\ net.byIP[v.ip] = s
        /\ net.targets[s].list = TargetsOf(api.slices[s])
        /\ v.nodePort # 0 => net.byPort[v.nodePort] = s
RoutesAreCurrent ==
    proxy.at = "up" /\ ~api.unseen =>
        /\ \A s \in Names :
              IF isRoutableService(api.services[s]) THEN s \in proxy.threw \/ RoutedTo(s)
              ELSE net.svc[s] = NoService /\ net.targets[s] = NoTargets
        /\ \A c \in ClusterIPs : net.byIP[c] # NoName => api.services[net.byIP[c]].ip = c
        /\ \A p \in NodePorts : net.byPort[p] # NoName => api.services[net.byPort[p]].nodePort = p

(* So does it for nodes: an address leads to the nodes that have it, and a  *)
(* name to the first addresses of those that go by it.                      *)
NodesAreCurrent ==
    Watches("nodes") /\ ~api.unseen =>
        /\ \A a \in NodeIPs : net.namesByIp[a] = {n \in Nodes : a \in Range(api.nodes[n].ips)}
        /\ \A a \in Aliases : net.ipsByAlias[a] =
               {api.nodes[n].ips[1] : n \in {m \in Nodes : a \in api.nodes[m].aliases /\ api.nodes[m].ips # <<>>}}

(* What the network routes is what the API server says.                     *)
RoutingIsCurrent == RoutesAreCurrent /\ NodesAreCurrent

(* While the proxy watches, a request for a service, by its address, by a   *)
(* node's address and the NodePort or by name, is sent to one of the        *)
(* endpoints that are ready at that moment, however long its name took to   *)
(* resolve.  (fetch, resolveDns, routeFetchEndpoint, TargetList.)           *)
AddressedTo(req, s) ==
    LET v  == api.services[s]
        ip == IF req.host.kind = "name" THEN req.answer ELSE req.host.ip
    IN  /\ isRoutableService(v)
        /\ \/ req.host.kind \in {"ip", "name"} /\ ip = v.ip
           \/ /\ req.host.kind = "ip" /\ ip \in NodeIPs /\ v.nodePort # 0 /\ req.host.port = v.nodePort
              /\ \E n \in Nodes : ip \in Range(api.nodes[n].ips)
           \/ req.host.kind = "alias" /\ v.nodePort # 0 /\ req.host.port = v.nodePort
FindsEndpoint ==
    proxy.at = "up" /\ ~api.unseen /\ proxy.threw = {} =>
        \A r \in DOMAIN fetches', s \in Names :
           /\ fetches'[r].pc = "sent" /\ (r \in DOMAIN fetches => fetches[r].pc = "resolving")
           /\ AddressedTo(fetches'[r], s)
           => [ip |-> fetches'[r].to, ready |-> TRUE] \in Range(api.slices[s])
RequestsFindEndpoints == [][FindsEndpoint]_proxyVars
=============================================================================

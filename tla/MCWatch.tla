------------------------------ MODULE MCWatch ------------------------------
(***************************************************************************)
(* etcd and those who follow what is written to it, each on a small        *)
(* instance of its own: a behaviour picks one of them and runs it while    *)
(* the others rest in their initial states.                                *)
(*                                                                         *)
(*  - etcd: two keys, transactions and a watcher                           *)
(*  - informer: an informer over two keys                                  *)
(*  - slices: the endpoint slice controller, a pod that changes             *)
(*  - services: the same, two lives of one service                         *)
(*  - source: the kubelet's pod source, two lives of one pod name          *)
(*  - proxy: kube-proxy and the network's tables, two services and two     *)
(*    nodes that share an alias                                            *)
(*  - routing: a request to a service of a network where DNS and kube-proxy*)
(*    run already                                                          *)
(*  - indexer: an indexed store of two keys, with two index functions, one *)
(*    of which fails for one object                                        *)
(*  - fifo: a FIFO of three keys and two consumers                         *)
(***************************************************************************)
EXTENDS MCEtcd, IndexedStore, Fifo, SequencesExt

CONSTANTS InformerRevs, Endpoints, ProxyChanges

VARIABLES
  part,                                                               \* what runs
  serverLog, floor, cache, rv, stopped, broken, pc, listed, stream,   \* Informer
  server, ctl, task, drops,                                           \* EndpointSlices
  podServer, reflector, store, storage, updates, manager, told,       \* PodSource
  net, sandboxes, fetches, api, proxy                                 \* KubeProxy

If == INSTANCE Informer WITH
        log <- serverLog, MatchChoices <- {TRUE}, ListFailures <- TRUE, Compactions <- TRUE,
        MaxRev <- InformerRevs
Sl == INSTANCE EndpointSlices WITH Policies <- {"Background"}, MaxServices <- 1, MaxPodChanges <- 2
Sv == INSTANCE EndpointSlices WITH Policies <- {"Background"}, MaxServices <- 2, MaxPodChanges <- 0
So == INSTANCE PodSource WITH
        server <- podServer, PodNames <- {"a"}, MaxUids <- 2, MaxChanges <- 1, MaxFaults <- 1,
        MaxCompacted <- 1, ResultSize <- 1, UpdatesSize <- 2

-----------------------------------------------------------------------------
(* The network with kube-proxy, twice.                                     *)

Ready(ips, unready) ==
  [k \in 1 .. Len(ips) |-> [ip |-> ips[k], ready |-> ips[k] # unready]]

NodeStatuses ==
  [n1 |-> {[ips |-> <<201>>, aliases |-> {"x"}], [ips |-> <<201, 203>>, aliases |-> {}]},
   n2 |-> {[ips |-> <<202>>, aliases |-> {"x"}]}]
Px == INSTANCE KubeProxy WITH
        NetworkPods <- {}, DnsPods <- {}, MaxSandboxes <- 0, LastAddress <- 2, Names <- {"a", "b"},
        ClusterIPs <- {101, 102}, NodePorts <- {301}, NodeIPs <- {201, 202, 203},
        Nodes <- {"n1", "n2"}, Aliases <- {"x"}, DnsIP <- 101, Hosts <- {}, MaxRequests <- 0,
        SliceChoices <- {Ready(<<1>>, 0), Ready(<<1, 2>>, 0), Ready(<<1, 2>>, 1)},
        NodeInfos <- NodeStatuses, MaxApiChanges <- ProxyChanges, MaxRestarts <- 2

Address(ip, port)    == [kind |-> "ip", ip |-> ip, port |-> port, name |-> "", alias |-> ""]
ServiceName(name)    == [kind |-> "name", ip |-> 0, port |-> 80, name |-> name, alias |-> ""]
NodeAlias(alias, port) == [kind |-> "alias", ip |-> 0, port |-> port, name |-> "", alias |-> alias]

Rt == INSTANCE KubeProxy WITH
        NetworkPods <- {"dns", "web"}, DnsPods <- {"dns"}, MaxSandboxes <- 2, LastAddress <- 2,
        Names <- {"dns", "web"}, ClusterIPs <- {101, 102}, NodePorts <- {301}, NodeIPs <- {201},
        Nodes <- {"n1"}, Aliases <- {"x"}, DnsIP <- 101, MaxRequests <- 1,
        Hosts <- {Address(201, 301), ServiceName("web"), NodeAlias("x", 301)},
        SliceChoices <- {Ready(<<2, 1>>, 1), Ready(<<2>>, 2), Ready(<<1>>, 0)},
        NodeInfos <- [n1 |-> {[ips |-> <<201>>, aliases |-> {"x"}]}],
        MaxApiChanges <- 1, MaxRestarts <- 1

\* The network once both pods run, and the proxy has handled these changes.
Change(kind, name, new) == [kind |-> kind, name |-> name, new |-> new]
Setup ==
  <<Change("services", "dns", [ip |-> 101, nodePort |-> 0]),
    Change("slices", "dns", Ready(<<1>>, 0)),
    Change("services", "web", [ip |-> 102, nodePort |-> 301]),
    Change("slices", "web", Ready(<<2>>, 0)),
    Change("nodes", "n1", [ips |-> <<201>>, aliases |-> {"x"}])>>
PodsUp ==
  [Rt!EmptyNetwork EXCEPT
     !.cursor = 2, !.ipOf = <<1, 2>>, !.podsByIp = <<1, 2>>, !.dnsConfigs = {"dns", "web"},
     !.http[2] = <<2, "main">>, !.dns[1] = <<1, "main">>]
Up == FoldLeft(Rt!Handled, [net |-> PodsUp, px |-> [Rt!Down(1) EXCEPT !.at = "up"]], Setup)
RoutingInit ==
  /\ net = Up.net /\ proxy = Up.px /\ fetches = <<>>
  /\ sandboxes = [i \in 1 .. 2 |-> [uid |-> <<"dns", "web">>[i], state |-> "Ready", ip |-> i,
                                    main |-> "listening", exec |-> "none"]]
  /\ api = [services |-> Up.px.services, slices |-> Up.px.slices, nodes |-> Up.net.info,
            changes |-> 0, unseen |-> FALSE]

-----------------------------------------------------------------------------
(* The constants of IndexedStore and Fifo.                                 *)

MCValuesOf == [n |-> [x |-> {1}, y |-> {1, 2}, z |-> {2}], m |-> [x |-> {1}, y |-> {1}, z |-> {}]]
MCFailing  == {<<"n", "z">>}
MCRevOf    == [x |-> 1, y |-> 2, z |-> 0]
MCBatches  == {<<>>, <<"a">>, <<"b", "a">>, <<"a", "b", "c">>}

-----------------------------------------------------------------------------
informerVars == <<serverLog, floor, cache, rv, stopped, broken, pc, listed, stream>>
slicesVars   == <<server, ctl, task, drops>>
sourceVars   == <<podServer, reflector, store, storage, updates, manager, told>>
proxyVars    == <<net, sandboxes, fetches, api, proxy>>
storesVars   == <<indexVars, fifoVars>>
followers    == <<informerVars, slicesVars, sourceVars, proxyVars>>
watchVars    == <<part, vars, followers, storesVars>>

\* A part that doesn't run has no state worth keeping; etcd, the indexed store and
\* the FIFO rest in an initial state.
Resting == "rests"
WatchInit ==
  /\ part \in {"etcd", "informer", "slices", "services", "source", "proxy", "routing",
              "indexer", "fifo"}
  /\ Init /\ IndexInit /\ FifoInit
  /\ part # "indexer" => indexers = {}
  /\ \/ part = "informer" /\ If!Init
     \/ /\ part # "informer" /\ serverLog = Resting /\ floor = Resting /\ cache = Resting
        /\ rv = Resting /\ stopped = Resting /\ broken = Resting /\ pc = Resting
        /\ listed = Resting /\ stream = Resting
  /\ \/ part = "slices" /\ Sl!SlicesInit
     \/ part = "services" /\ Sv!SlicesInit
     \/ /\ part \notin {"slices", "services"}
        /\ server = Resting /\ ctl = Resting /\ task = Resting /\ drops = Resting
  /\ \/ part = "source" /\ So!SourceInit
     \/ /\ part # "source" /\ podServer = Resting /\ reflector = Resting /\ store = Resting
        /\ storage = Resting /\ updates = Resting /\ manager = Resting /\ told = Resting
  /\ \/ part = "proxy" /\ Px!KubeProxyInit
     \/ part = "routing" /\ RoutingInit
     \/ /\ part \notin {"proxy", "routing"} /\ net = Resting /\ sandboxes = Resting
        /\ fetches = Resting /\ api = Resting /\ proxy = Resting

ProxyNext ==
  \/ part = "proxy"   /\ Px!KubeProxyNext
  \/ part = "routing" /\ Rt!KubeProxyNext

FollowersNext ==
  \/ part = "informer" /\ If!Next       /\ UNCHANGED <<slicesVars, sourceVars, proxyVars>>
  \/ part = "slices"   /\ Sl!SlicesNext /\ UNCHANGED <<informerVars, sourceVars, proxyVars>>
  \/ part = "services" /\ Sv!SlicesNext /\ UNCHANGED <<informerVars, sourceVars, proxyVars>>
  \/ part = "source"   /\ So!SourceNext /\ UNCHANGED <<informerVars, slicesVars, proxyVars>>
  \/ ProxyNext         /\ UNCHANGED <<informerVars, slicesVars, sourceVars>>

StoresNext ==
  \/ part = "indexer" /\ IndexNext /\ UNCHANGED fifoVars
  \/ part = "fifo"    /\ FifoNext  /\ UNCHANGED indexVars

WatchNext ==
  /\ UNCHANGED part
  /\ \/ part = "etcd" /\ Next /\ UNCHANGED <<followers, storesVars>>
     \/ FollowersNext /\ UNCHANGED <<vars, storesVars>>
     \/ StoresNext    /\ UNCHANGED <<vars, followers>>

WatchSpec == WatchInit /\ [][WatchNext]_watchVars

-----------------------------------------------------------------------------
(* Properties: those of Etcd, IndexedStore and Fifo as they stand, and      *)
(* these of the others.                                                    *)

\* Informer, PodSource: the cache is what the server holds, and may be resumed
\* from; one pod of a name at a time, and what was sent is known in the end.
\* EndpointSlices, KubeProxy: what follows the API server comes to agree with it;
\* what is under way ends with the slice as it should be, and the network
\* routes what the API server says, by tables that agree with each other.
CachesAreSound ==
  /\ (part = "informer" => If!CacheIsSound) /\ (part = "source" => So!SourceIsSound)
  /\ (part = "slices" => Sl!SlicesAreSound) /\ (part = "services" => Sv!SlicesAreSound)
  /\ part = "proxy" => Px!RoutingIsCurrent /\ Px!NetworkServes
  /\ part = "routing" => Rt!RoutingIsCurrent /\ Rt!NetworkServes

\* PodSource: what the kubelet has seen of a pod never gets older.
\* KubeProxy: a request is sent to an endpoint that is ready at that moment.
\* Fifo: nothing jumps the queue.
StepsFollow ==
  [][/\ part = "source" => So!GetsNoOlder
     /\ part = "routing" => Rt!FindsEndpoint
     /\ part = "fifo" => KeepsTheLine]_<<sourceVars, proxyVars, fifoVars>>
=============================================================================

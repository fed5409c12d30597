CONSTANTS
  NetworkPods = {v, w}
  DnsPods = {}
  MaxSandboxes = 4
  LastAddress = 2
  Names = {}
  ClusterIPs = {}
  NodePorts = {}
  NodeIPs = {}
  Nodes = {}
  Aliases = {}
  DnsIP = 0
  Hosts = {}
  MaxRequests = 0
  SliceChoices = {}
  NodeInfos = {}
  MaxApiChanges = 0
  MaxRestarts = 0
SPECIFICATION KubeProxySpec
PROPERTY FailsWhenFull
CHECK_DEADLOCK FALSE

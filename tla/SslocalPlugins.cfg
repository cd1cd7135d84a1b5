SPECIFICATION Spec
CONSTANTS
  Threads = {t1, t2}
  Runtimes = {r1, r2}
  Fds = {}
  Ports = {p1, p2}
  Addrs = {}
  Configs <- PluginConfigs
  NoThread = NoThread
  NoRuntime = NoRuntime
  NoFd = NoFd
  NegativeFd = NegativeFd
  NoSite = NoSite
  Remote = Remote
  NoAddr = NoAddr
  NoConfig = NoConfig
SYMMETRY Symmetry
INVARIANTS
  NoOrphans
  PluginsServed
PROPERTIES
  ABI

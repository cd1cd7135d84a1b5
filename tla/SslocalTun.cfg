SPECIFICATION Spec
CONSTANTS
  Threads = {t1}
  Runtimes = {r1, r2}
  Fds = {f1, f2, f3, f4}
  Ports = {}
  Addrs = {}
  Configs <- TunConfigs
  NoThread = NoThread
  NoRuntime = NoRuntime
  NoFd = NoFd
  NegativeFd = NegativeFd
  NoSite = NoSite
  Remote = Remote
  NoAddr = NoAddr
  NoConfig = NoConfig
SYMMETRY Symmetry
INVARIANTS
  NoStrayClose
  IndInv

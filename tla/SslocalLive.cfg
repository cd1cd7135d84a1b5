SPECIFICATION FairSpec
CONSTANTS
  Threads = {t1, t2}
  Runtimes = {r1, r2}
  Fds = {}
  Ports = {p1}
  Addrs = {}
  Configs <- LiveConfigs
  NoThread = NoThread
  NoRuntime = NoRuntime
  NoFd = NoFd
  NegativeFd = NegativeFd
  NoSite = NoSite
  Remote = Remote
  NoAddr = NoAddr
  NoConfig = NoConfig
PROPERTIES
  LockReleased

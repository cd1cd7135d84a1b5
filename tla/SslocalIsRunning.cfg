SPECIFICATION Spec
CONSTANTS
  Threads = {t1}
  Runtimes = {r1}
  Fds = {}
  Ports = {}
  Addrs = {}
  Configs <- OneTunConfig
  NoThread = NoThread
  NoRuntime = NoRuntime
  NoFd = NoFd
  NegativeFd = NegativeFd
  NoSite = NoSite
  Remote = Remote
  NoAddr = NoAddr
  NoConfig = NoConfig
PROPERTIES
  IsRunningTruthful

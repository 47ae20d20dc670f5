SPECIFICATION FairSpec
CONSTANTS
  m1 = m1
  m2 = m2
  server = server
  Nobody = Nobody
  Mutexes = {m1, m2}
  Processes = {m1, m2}
  ProcOf <- OwnProcess
  HostCount = 1
  Validity = 2
  BadHosts = {}
  FaultKinds = {"kill", "reject"}
  MaxFaults = 1
  Calls = {"lock"}
  MaxEvents = 1
  RunTime = 1
  TimeOutLimit = 0
  RetryPause = 1
  Expire = 2
  Prompt = {"delete", "acquire"}
  Horizon = 0
CHECK_DEADLOCK FALSE
PROPERTIES MtxReleased KeepLockReturns CrashRecovery LeftKeysExpire

SPECIFICATION Spec
CONSTANTS
  m1 = m1
  m2 = m2
  server = server
  Nobody = Nobody
  Mutexes = {m1, m2}
  Processes = {m1, m2}
  ProcOf <- OwnProcess
  HostCount = 2
  Validity = 2
  BadHosts = {}
  FaultKinds = {}
  MaxFaults = 0
  Calls = {"try_lock"}
  MaxEvents = 1
  RunTime = 3
  TimeOutLimit = 1
  RetryPause = 1
  Expire = 2
  Prompt = {"delete"}
  Horizon = 2
CHECK_DEADLOCK FALSE
INVARIANTS QuorumBacked

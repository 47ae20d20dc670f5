SPECIFICATION Spec
CONSTANTS
  m1 = m1
  m2 = m2
  server = server
  Nobody = Nobody
  Mutexes = {m1, m2}
  Processes = {m1, m2}
  ProcOf <- OwnProcess
  HostCount = 1
  Validity = 3
  BadHosts = {}
  FaultKinds = {}
  MaxFaults = 0
  Calls = {"lock"}
  MaxEvents = 1
  RunTime = 3
  TimeOutLimit = 1
  RetryPause = 1
  Expire = 2
  Prompt = {"delete", "acquire", "renew"}
  Horizon = 0
CHECK_DEADLOCK FALSE
PROPERTIES LockReturnsHolding

SPECIFICATION Spec
CONSTANTS
  m1 = m1
  m2 = m2
  server = server
  Nobody = Nobody
  Mutexes = {m1, m2}
  Processes = {server}
  ProcOf <- OneProcess
  HostCount = 2
  Validity = 2
  BadHosts = {}
  FaultKinds = {"reject", "lost", "cut", "kill"}
  MaxFaults = 2
  Calls = {"lock"}
  MaxEvents = 1
  RunTime = 1
  TimeOutLimit = 1
  RetryPause = 1
  Expire = 2
  Prompt = {"delete"}
  Horizon = 1
SYMMETRY Swap
CHECK_DEADLOCK FALSE
INVARIANTS TypeOK QuorumBacked RightDatabase
PROPERTIES KeysLostOnlyByOwner

SPECIFICATION Spec
CONSTANTS
  m1 = m1
  m2 = m2
  server = server
  Nobody = Nobody
  Mutexes = {m1, m2}
  Processes = {m1, m2}
  ProcOf <- OwnProcess
  HostCount = 1
  Validity = 3
  BadHosts = {}
  FaultKinds = {}
  MaxFaults = 0
  Calls = {"try_lock_for"}
  MaxEvents = 2
  RunTime = 3
  TimeOutLimit = 1
  RetryPause = 1
  Expire = 1
  Prompt = {"delete", "acquire", "renew"}
  Horizon = 3
SYMMETRY Swap
CHECK_DEADLOCK FALSE
INVARIANTS HeldExclusion RenewalFindsKey
PROPERTIES KeysLostOnlyByOwner ImplementsLeaseLock

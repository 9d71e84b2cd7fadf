SPECIFICATION FairSpec
CONSTANTS
  daemon = daemon
  once = once
  elsewhere = elsewhere
  here = here
  there = there
  Procs = {daemon, once, elsewhere}
  Daemons = {daemon}
  HostOf <- MCHostOf
  LastVersion = 2
  Pids = {1, 2}
  NoPid = NoPid
  NoLock = NoLock
  Interval = 2
  StaleAfter = 6
  MaxCycle = 1
  MaxFaults = 1
INVARIANTS IInv OneCapture RetriesGetFurther
PROPERTIES CaptureResumes
CHECK_DEADLOCK FALSE

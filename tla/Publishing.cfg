SPECIFICATION Spec
CONSTANTS
  daily = daily
  findings = findings
  network = network
  observers = observers
  homepage = homepage
  Publishers = {daily, findings}
  Waits = {daily}
  Docs = {network, observers}
  Pages = {homepage}
  Index = index
  Owns <- MCOwns
  NoLock = NoLock
  StaleAfter = 2
  MaxWait = 3
  MaxPublish = 2
  Period <- MCPeriod
  MaxTime = 10
  MaxFaults = 3
INVARIANTS OnePublisher NoWaiterGivesUp
PROPERTIES KeepsTheTree PublishMerges
CHECK_DEADLOCK FALSE

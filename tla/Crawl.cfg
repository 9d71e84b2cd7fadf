SPECIFICATION ReportSpec
CONSTANTS
  h1 = h1
  h2 = h2
  h3 = h3
  v6 = v6
  w1 = w1
  w2 = w2
  w3 = w3
  IPv4 = {h1, h2, h3}
  IPv6 = {v6}
  Workers = {w1, w2, w3}
  MaxNodes = 4
  Retries = 1
  Seeds <- MCSeeds
  Lists <- MCLists
  Range24 <- MCRange24
  Range16 <- MCRange16
  Version <- MCVersion
  Place <- MCPlace
  Lookups <- MCLookups
  Many <- MCMany
  Shown <- MCShown
INVARIANTS IInv NoFrontierIsLeft BetweennessCountsShortestPaths EveryComponentHasASeed ReportAddsUp
PROPERTIES NodesAreCrawledOnce CrawlSettles
CHECK_DEADLOCK FALSE

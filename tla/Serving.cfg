SPECIFICATION LiveSpec
CONSTANTS
  portal = portal
  script = script
  doc = doc
  page = page
  Polls <- MCPolls
  Clients = {portal, script}
  Gzip = {portal}
  Docs = {doc}
  Pages = {page}
  Index = index
  NoRequest = NoRequest
  MaxVersion = 2
INVARIANTS IInv
PROPERTIES CopiesNeverGoBack DocumentCopiesConverge
CHECK_DEADLOCK FALSE

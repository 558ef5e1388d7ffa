SPECIFICATION Spec
CONSTANTS
  Width = 8
  Bases = {0, 1, 2, 3, 7, 100, 127, 128, 200, 255}
  Caps = {0, 1, 15, 90, 254, 255}
  MaxAttempt = 12
  People = {"ann", "bob"}
  Mails <- MCMails
  Rcpts <- MCRcpts
  RuleLists <- MCRuleLists
  Parts <- MCParts
  Depth = 2
  HeaderLines <- MCHeaderLines
  Documents <- MCDocuments
INVARIANT OnlyNamedElementsRemoved
CHECK_DEADLOCK FALSE

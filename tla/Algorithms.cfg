\* 8-bit arithmetic, in which the power saturates at attempt 9 and the product
\* earlier; envelopes, messages and documents small enough to try them all.
SPECIFICATION Spec
CONSTANTS
  Width = 8
  Bases = {0, 1, 2, 3, 7, 100, 127, 128, 200, 255}
  Caps = {0, 1, 15, 90, 254, 255}
  MaxAttempt = 12
  People = {"ann", "bob"}
  Mails <- MCMails
  Rcpts <- MCRcpts
  RuleLists <- MCRuleLists
  Parts <- MCParts
  Depth = 2
  HeaderLines <- MCHeaderLines
  Documents <- MCDocuments
INVARIANTS
  MatchesExactFormula RoutedAsGiven RecipientsSurvive
  ShowsFirstText AttachmentsNamed SplitAtFirstBlank VisibleTextKept TidyText
CHECK_DEADLOCK FALSE

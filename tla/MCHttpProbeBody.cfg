\* Section 4 of README.md: both kinds of rules for the body.
CONSTANTS
  None = None
  Odd = Odd
  type = type
  text = text
  html = html
  up = up
  down = down
  full = full
  shop = shop
  sec = sec
  www = www
  old = old
  Modules <- BothRules
  Hosts <- MCHosts
  Site <- MCSite
  Starts <- MCStarts
  Headers <- MCHeaders
  Values <- MCValues
  Words <- MCWords
  JSON <- MCJSON
  MaxRedirects = 1
  LookupsHang = FALSE
SPECIFICATION Spec
INVARIANT AnswerJudged
CHECK_DEADLOCK FALSE

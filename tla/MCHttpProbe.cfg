\* Redirects without hanging lookups, and every rule of a module.
CONSTANTS
  None = None
  Odd = Odd
  type = type
  text = text
  html = html
  up = up
  down = down
  full = full
  shop = shop
  sec = sec
  www = www
  old = old
  Modules <- MCModules
  Hosts <- MCHosts
  Site <- MCSite
  Starts <- MCStarts
  Headers <- MCHeaders
  Values <- MCValues
  Words <- MCWords
  JSON <- MCJSON
  MaxRedirects = 3
  LookupsHang = FALSE
SPECIFICATION Spec
INVARIANTS TypeOK AnswerJudged PhasesMeasured
CHECK_DEADLOCK FALSE

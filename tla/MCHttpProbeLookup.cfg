\* Section 4 of README.md: a lookup that takes until the deadline.
CONSTANTS
  None = None
  Odd = Odd
  type = type
  text = text
  html = html
  up = up
  down = down
  full = full
  shop = shop
  sec = sec
  www = www
  old = old
  Modules <- Followers
  Hosts <- MCHosts
  Site <- MCSite
  Starts <- MCStarts
  Headers <- MCHeaders
  Values <- MCValues
  Words <- MCWords
  JSON <- MCJSON
  MaxRedirects = 1
  LookupsHang = TRUE
SPECIFICATION Spec
INVARIANT PhasesMeasured
CHECK_DEADLOCK FALSE

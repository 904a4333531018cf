\* One dashboard and all lookups while seven probes of one target with two
\* modules finish.
CONSTANTS
  MaxResults = 3
  Modules <- TwoModules
  Targets <- TwoTargets
  Probed <- OneHostTwice
  Dashboards = {d1}
  Absent = Absent
  NotFound = NotFound
  MaxAdds = 7
SPECIFICATION Spec
INVARIANTS TypeOK DashboardStable NewestFailuresKept LogsExact
PROPERTIES KeepsPromise
CHECK_DEADLOCK FALSE

\* A service, a loop and a --once worker; failed calls, a lost session, a crash.
CONSTANTS
  s1 = s1  s2 = s2  w1 = w1  w2 = w2  o1 = o1
  Services = {s1}
  Loops = {w1}
  Onces = {o1}
  Nobody = Nobody
  MaxErrors = 2
  FlockErrors = TRUE
  MaxLosses = 1
  MaxFailures = 2
  MaxCrashes = 1
SPECIFICATION FairSpec
INVARIANT CyclesExclude
PROPERTIES ImplementsLeaderLock StopTakesEffect SurvivorsConsolidate

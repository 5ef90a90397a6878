SPECIFICATION FairSpec
CONSTANTS
  d1 = d1
  d2 = d2
  o1 = o1
  r1 = r1
  q1 = q1
  NoHolder = NoHolder
  Deploys = {d1, d2}
  Operations = {o1}
  Restarts = {r1}
  Probes = {q1}
  ContentionGrace = 1
  RestartWait = 2
INVARIANTS MutualExclusion TagNamesHolder
PROPERTIES RefusedOutsideWindow ContendersAreAnswered

\* Overlapping requests and jobs, with re-renders, reruns and failures.
SPECIFICATION FairSpec
CONSTANTS
  Sims = {s1}
  Workers = {w1, w2}
  Runners = {r1, r2}
  None = None
  MaxReRenders = 1
  MaxCarnes = 1
  MaxReruns = 1
  MaxFaults = 1
INVARIANTS
  CancelledHasNoInstalments
  SchedulesFollowRenders
PROPERTY RenderEnds
CHECK_DEADLOCK FALSE

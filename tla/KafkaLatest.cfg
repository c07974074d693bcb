SPECIFICATION Spec
CONSTANTS
  m1 = m1
  m2 = m2
  p1 = p1
  p2 = p2
  Nobody = Nobody
  First = m1
  Member = {m1, m2}
  Partition = {p1, p2}
  Configs <- DaemonConfigs
  Bad <- FirstIsBad
  Published <- TwoAndNone
  MaxMoves = 0
  MaxFaults = 1
INVARIANTS
  StaysAvailable
CHECK_DEADLOCK FALSE

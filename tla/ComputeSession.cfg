SPECIFICATION Spec
CONSTANTS
  gi = gi
  mid = mid
  go = go
  s1 = s1
  s2 = s2
  r1 = r1
  r2 = r2
  Inputs = {gi}
  Outputs = {mid, go}
  ToGpu = {s1, s2}
  FromGpu = {r1, r2}
  Null = Null
  Pipelines = {p1, p2}
  Shaders <- MCShaders
  Values = {v1}
  Consts = {c1}
  Unset = Unset
INVARIANTS
  TypeOK
  FetchAfterWait
PROPERTY
  RunsJobsInOrder

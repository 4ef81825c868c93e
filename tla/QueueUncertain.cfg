CONSTANTS
  v1 = v1
  v2 = v2
  u1 = u1
  r1 = r1
  r2 = r2
  r3 = r3
  f1 = f1
  c1 = c1
  c2 = c2
  c3 = c3
  l1 = l1
  NoJob = NoJob
  Jobs = {c1}
  Videos = {v1}
  Users = {u1}
  Workers = {w1}
  VideoOf <- MCVideoOf
  StageOf <- MCStageOf
  ActorOf <- MCActorOf
  MaxAttempts <- OneAttempt
  LeaseTicks = 2
  QuotaLimit <- QuotaTwo
SPECIFICATION Spec
INVARIANTS
  UncertainNeedsAttention

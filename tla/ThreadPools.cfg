CONSTANTS
  Thread = {t1}
  SwarmThread = {t2}
  Client = {c1}
  Job = {j1}
  NoJob = NoJob
  Nobody = Nobody
  MaxPauses = 0
  MaxWaiters = 1
SPECIFICATION PoolsSpec
PROPERTIES OtherPoolJobsFinish
CHECK_DEADLOCK FALSE

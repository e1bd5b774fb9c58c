CONSTANTS
  Thread = {t1, t2}
  Client = {c1, c2}
  Job = {j1, j2}
  NoJob = NoJob
  Nobody = Nobody
  MaxPauses = 1
  MaxWaiters = 1
SPECIFICATION FairSpec
INVARIANTS TypeOK NoLostWakeup FreedAfterLastJob
PROPERTIES WaitReturnsWhenDone ImplementsJobService AcceptedJobsFinish  DestroyReturnsEventually

SPECIFICATION FairSpec
CONSTANTS
  sync = sync
  revoke = revoke
  alice = alice
  w1 = w1
  w2 = w2
  NoUser = NoUser
  NoWorker = NoWorker
  NoRequest = NoRequest
  NoJob = NoJob
  Jobs = {j1, j2}
  Workers = {w1, w2}
  Survivors = {w1}
  Requests = {sync, revoke}
  Deduped = {sync, revoke}
  Revocations = {revoke}
  Users = {alice}
  UserOf <- MCUserOf
  QueueOf <- MCQueueOf
  QueuesOf <- MCQueuesOf
  MaxAttempts = 2
  ClaimBound = 3
PROPERTIES EveryJobSettles OnlyNewestClaimFinishes ImplementsPromise
CHECK_DEADLOCK FALSE

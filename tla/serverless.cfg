CONSTANTS
  s1 = s1
  s2 = s2
  s3 = s3
  u1 = u1
  p1 = p1
  p2 = p2
  t1 = t1
  t2 = t2
  i1 = i1
  q1 = q1
  k1 = k1
  w1 = w1
  w2 = w2
  NoWorker = NoWorker
  NoJob = NoJob
  NoQueue = NoQueue
  NoKey = NoKey
  Jobs = {s1, s2, s3, u1, p1, p2}
  Queues = {q1}
  Workers = {w1, w2}
  QueueOf <- OneQueue
  KeyOf <- KeyOfPosted
  Priority <- FlatPriority
  MaxAttempts <- SomeTwoAttempts
  ConcurrencyLimit <- LimitOne
  Ticks = {t1, t2}
  Instances = {i1}
  InstanceOf <- OneInstance
  Failing = {s1, p1}
  Unparsable = {u1}
  Foreign = {p1}
  Pausable = {q1}
  Workloads <- SixWorkloads
SPECIFICATION FairSpec
INVARIANTS
  TypeOK
  ExclusiveUnlessTaken
  DeadListedUnlessCut
  ListedIsDead
  DeadLetterEarned
  OpenExecutionsOwned
  BoundedByTicks
  InFlightMatchesTick
  AnswersAgree
PROPERTIES
  CompletedStays
  JobsSettle

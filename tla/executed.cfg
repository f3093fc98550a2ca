CONSTANTS
  j1 = j1
  j2 = j2
  j3 = j3
  w1 = w1
  w2 = w2
  s1 = s1
  s2 = s2
  q1 = q1
  q2 = q2
  k1 = k1
  NoWorker = NoWorker
  NoJob = NoJob
  NoQueue = NoQueue
  NoKey = NoKey
  Workers = {w1, w2}
  Jobs = {j1, j2}
  Queues = {q1, q2}
  QueueOf <- QueuePerJob
  KeyOf <- SameKey
  Priority <- FlatPriority
  MaxAttempts <- OneAttempt
  ConcurrencyLimit <- LimitOne
  Slots = {s1, s2}
  Owner <- OwnerTwo
  Retriers = {}
  Submissions = {"immediate"}
  Pausable = {}
  Crashable = {}
  Terminable = {}
  Lossy = {}
  Lapsing = {}
SPECIFICATION Spec
INVARIANT CompletedWasExecuted

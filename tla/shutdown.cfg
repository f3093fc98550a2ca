CONSTANTS
  j1 = j1
  j2 = j2
  j3 = j3
  w1 = w1
  w2 = w2
  s1 = s1
  s2 = s2
  q1 = q1
  q2 = q2
  k1 = k1
  NoWorker = NoWorker
  NoJob = NoJob
  NoQueue = NoQueue
  NoKey = NoKey
  Workers = {w1, w2}
  Jobs = {j1}
  Queues = {q1}
  QueueOf <- OneQueue
  KeyOf <- NoKeys
  Priority <- FlatPriority
  MaxAttempts <- TwoAttempts
  ConcurrencyLimit <- LimitOne
  Slots = {s1, s2}
  Owner <- OwnerTwo
  Retriers = {}
  Submissions = {"immediate"}
  Pausable = {}
  Crashable = {}
  Terminable = {w1}
  Lossy = {}
  Lapsing = {}
SPECIFICATION Spec
INVARIANT ShutdownLeavesNoOrphan

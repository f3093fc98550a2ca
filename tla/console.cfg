CONSTANTS
  q1 = q1
  q2 = q2
  n1 = n1
  l1 = l1
  NoName = NoName
  NoLimit = NoLimit
  Queues = {q1, q2}
  Names = {n1}
  Limits = {l1}
  PageSize = 2
  Slots = {1, 2}
  Episodes <- AllEpisodes
SPECIFICATION FairSpec
INVARIANTS
  TypeOK
  BusyMatchesRequest
  OneRowPerForm
  SavesOwnQueue
  ShownMatchesFilters
PROPERTIES
  ViewsCatchUp

SPECIFICATION FairSpec
CONSTANTS
  l1 = l1
  l2 = l2
  l3 = l3
  l4 = l4
  t1 = t1
  t2 = t2
  Leech <- MCLeech
  Torrent <- MCTorrent
  Of <- MCOf
  Available <- MCAvailable
  Prompt = TRUE
INVARIANTS
  TypeOK
  NoOrphanCallback
  RunsOnce
PROPERTIES
  LeechGetsOn
  KeepsPromise
CHECK_DEADLOCK FALSE

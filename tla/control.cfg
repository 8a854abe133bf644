SPECIFICATION Spec
CONSTANTS
  Peer = {p1, p2}
  t1 = t1
  t2 = t2
  Torrent <- MCTorrent
  Announced <- MCAnnounced
  f = f
  Path <- MCPath
  PathOf <- MCPathOf
  NoTorrent = NoTorrent
  Grace = 1
  MaxTime = 3
  MaxCrashes = 1
INVARIANTS
  TypeOK
  SeedsHavePeers
  OutageNoticed
PROPERTY PausedAfterGrace
SYMMETRY Symmetry
CHECK_DEADLOCK FALSE

-------------------------- MODULE MCTorrentEngine --------------------------
(***************************************************************************)
(* TorrentEngine with four leeches, three of them of the same torrent, and *)
(* one torrent that no peer can send.                                      *)
(***************************************************************************)
EXTENDS TorrentEngine

CONSTANTS l1, l2, l3, l4, t1, t2

MCLeech     == {l1, l2, l3, l4}
MCTorrent   == {t1, t2}
MCOf        == [l \in MCLeech |-> IF l = l4 THEN t2 ELSE t1]
MCAvailable == {t1}
=============================================================================

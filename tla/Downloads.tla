----------------------------- MODULE Downloads -----------------------------
(***************************************************************************)
(* What internal/torrent/engine.go promises a caller of StartLeech and     *)
(* OnComplete, and what Syncer relies on: a callback that was registered   *)
(* runs once, after its torrent is complete, and does run.                 *)
(***************************************************************************)
CONSTANTS Leech,     \* calls of StartLeech followed by OnComplete
          Torrent,   \* torrents, by infohash
          Of         \* Of[l]: the torrent that l asks for

VARIABLES armed,     \* leeches whose callback is registered
          complete,  \* torrents with no byte missing
          ran        \* leeches whose callback has run

downloads == <<armed, complete, ran>>

Init == armed = {} /\ complete = {} /\ ran = {}

Arm(l) == /\ l \notin armed
          /\ armed' = armed \cup {l}
          /\ UNCHANGED <<complete, ran>>

Finish(t) == /\ t \notin complete
             /\ complete' = complete \cup {t}
             /\ UNCHANGED <<armed, ran>>

Run(l) == /\ l \in armed \ ran
          /\ Of[l] \in complete
          /\ ran' = ran \cup {l}
          /\ UNCHANGED <<armed, complete>>

Next == \/ \E l \in Leech : Arm(l) \/ Run(l)
        \/ \E t \in Torrent : Finish(t)

Spec == Init /\ [][Next]_downloads /\ \A l \in Leech : WF_downloads(Run(l))
=============================================================================

------------------------------- MODULE MCWatch -------------------------------
(* Small instances of Watch for TLC. *)
EXTENDS Watch

CONSTANTS s1, s2, w1, w2

TwoSessions == {s1, s2}
OneSession == {s1}
NoWatcher == {}
OneWatcher == {w1}
TwoWatchers == {w1, w2}
FullLadder == <<"restart", "rollback", "notify">>
ShortLadder == <<"restart", "rollback">>
=============================================================================

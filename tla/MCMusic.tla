------------------------------- MODULE MCMusic -------------------------------
(* Two sounds, of which the first one loops and is the instrument of the    *)
(* only music, two channels, and a music of two orders with two rows each.  *)
EXTENDS Music

CONSTANTS s1, s2, m1

MCInstruments == [m \in {m1} |-> {s1}]
MCNumOrder == [m \in {m1} |-> 2]
MCPositions == [m \in {m1} |-> {0, 1}]

\* Bound: after a start that is not as it should be the scripts load, play and start
\* nothing more.  They still stop and release, and the timers go on.
NothingMore == unruly /\ pc = "idle" => pc' \notin {"store", "start", "halted"} /\ loaded' = loaded

MCSpec == MusicInit /\ [][MusicNext /\ NothingMore]_musicVars /\ WF_musicVars(HandleEvents)
=============================================================================

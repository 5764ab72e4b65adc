------------------------------- MODULE MCGame -------------------------------
(* A small memlist.  Entries 1 to 3 are the segments of part 21, entries 10, *)
(* 4, 3 and 5 those of part 22 (parts share entries, as in parts.cpp).       *)
(* Entries 6 and 7 are a sound and a music that plays it, entry 8 is a       *)
(* picture, and entry 9 has no bank.  Part 22 leaves room for one of the     *)
(* sound and the music only.                                                 *)
EXTENDS Game, Sequences, TLC

\* A table by entry number, from 0.
Table(seq) == [e \in 0 .. Len(seq) - 1 |-> seq[e + 1]]

MCType   == Table(<<0, 3, 4, 5, 4, 6, 0, 1, 2, 0, 3>>)
MCSize   == Table(<<0, 1, 1, 1, 1, 1, 2, 1, 1, 1, 1>>)
MCRank   == Table(<<0, 2, 1, 1, 3, 1, 1, 1, 1, 1, 2>>)
MCBankId == Table(<<0, 1, 1, 1, 1, 2, 2, 2, 2, 0, 1>>)
MCMemListParts ==
  (21 :> [palette |-> 1, code |-> 2, cinematic |-> 3, video2 |-> 0])
    @@ (22 :> [palette |-> 10, code |-> 4, cinematic |-> 3, video2 |-> 5])
MCDemanded == 6 .. 9
MCPartIds == {21, 22, 23}
MCInstruments == 7 :> {6}
MCPaletteIds == {0, 32}

\* Bound: after a music was started as it should not be the scripts only stop it and
\* release the resources, and sounds end.
NothingMore ==
  orphaned => UNCHANGED <<loading, partVars, paletteVars>> /\ heard' \subseteq heard /\ (ticking' => ticking)

MCSpec == GameInit /\ [][GameNext /\ NothingMore]_gameVars /\ WF_gameVars(Loading)
=============================================================================

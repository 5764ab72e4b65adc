----------------------------- MODULE MCAudioOut -----------------------------
(* Sounds of a few bytes, at the sizes where the ends matter: one word, two,  *)
(* a loop behind the sound, a loop alone.                                     *)
EXTENDS AudioOut

MCChunks == {[len |-> 2, loopLen |-> 0], [len |-> 4, loopLen |-> 0],
             [len |-> 2, loopLen |-> 2], [len |-> 0, loopLen |-> 2]}
MCWithoutLoop == {[len |-> 4, loopLen |-> 0]}
MCSamples == {[len |-> 2, loopLen |-> 0, volume |-> 48]}
MCEffects == {[number |-> 0, amount |-> 16], [number |-> 5, amount |-> 32],
              [number |-> 6, amount |-> 50]}
MCNotes == {0, 400, STOP_NOTE, MARK}
MCBytes == {-128, 127}
=============================================================================

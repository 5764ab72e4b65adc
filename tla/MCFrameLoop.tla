----------------------------- MODULE MCFrameLoop -----------------------------
(* One direction stands for the four: they are treated alike.              *)
EXTENDS FrameLoop, TLC
=============================================================================

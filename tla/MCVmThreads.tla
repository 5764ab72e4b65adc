---------------------------- MODULE MCVmThreads ----------------------------
(* Small instances of VmThreads: three parts, of which 2 is neither the     *)
(* first nor the last, and an id, 9, that is no part.                       *)
EXTENDS VmThreads

MCFirstPart == 1
MCLastPart == 3
MCPartIds == {2, 9}
=============================================================================

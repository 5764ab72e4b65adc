---------------------------- MODULE ResourceStore ----------------------------
(***************************************************************************)
(* What the resource manager promises to the rest of the engine: which     *)
(* resources can be read, without memory, addresses or load order.         *)
(*                                                                         *)
(* A game part has its segments, which can be read for as long as it is    *)
(* played.  Other resources are demanded one by one and stay readable      *)
(* until they are released, all together.  Changing the part forgets       *)
(* everything and brings the segments of the new part in, one by one.      *)
(***************************************************************************)
CONSTANTS
  Resources,     \* the resources
  Parts,         \* the game parts
  SegmentsOf(_), \* the segments of a part
  NoPart         \* not a part

VARIABLES
  readable,      \* the resources whose data can be read
  part,          \* the part that is played
  switchingTo,   \* the part that is being brought in
  failed         \* a bank could not be read, or the part does not exist

vars == <<readable, part, switchingTo, failed>>

Init ==
  /\ readable = {}
  /\ part = NoPart
  /\ switchingTo = NoPart
  /\ failed = FALSE

Demand(r) ==
  /\ ~failed
  /\ switchingTo = NoPart
  /\ readable' = readable \cup {r}
  /\ UNCHANGED <<part, switchingTo, failed>>

Release ==
  /\ ~failed
  /\ switchingTo = NoPart
  /\ part # NoPart
  /\ readable' = SegmentsOf(part)
  /\ UNCHANGED <<part, switchingTo, failed>>

BeginSwitch(p) ==
  /\ ~failed
  /\ switchingTo = NoPart
  /\ p # part
  /\ switchingTo' = p
  /\ readable' = {}
  /\ UNCHANGED <<part, failed>>

Bring(r) ==
  /\ ~failed
  /\ switchingTo # NoPart
  /\ r \in SegmentsOf(switchingTo)
  /\ readable' = readable \cup {r}
  /\ UNCHANGED <<part, switchingTo, failed>>

EndSwitch ==
  /\ ~failed
  /\ switchingTo # NoPart
  /\ readable = SegmentsOf(switchingTo)
  /\ part' = switchingTo
  /\ switchingTo' = NoPart
  /\ UNCHANGED <<readable, failed>>

Fail ==
  /\ ~failed
  /\ failed' = TRUE
  /\ switchingTo' = NoPart
  /\ UNCHANGED <<readable, part>>

Next ==
  \/ \E r \in Resources : Demand(r) \/ Bring(r)
  \/ Release
  \/ \E p \in Parts : BeginSwitch(p)
  \/ EndSwitch
  \/ Fail

Spec == Init /\ [][Next]_vars
=============================================================================

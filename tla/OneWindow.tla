------------------------------ MODULE OneWindow ------------------------------
(***************************************************************************)
(* What the mpv manager promises about the screen: at most one player      *)
(* window, each play's window put up once, taking the previous one's place *)
(* in the same step.  A window whose process has already failed when its   *)
(* turn comes still takes the place.  MpvPlayer implements this.           *)
(***************************************************************************)
CONSTANT Windows
VARIABLES shown, opened
vars == <<shown, opened>>

Init == shown = {} /\ opened = {}

Open(w) ==
  /\ w \notin opened
  /\ opened' = opened \cup {w}
  /\ shown' \in {{w}, {}}

Close ==
  /\ shown' = {}
  /\ UNCHANGED opened

Next == Close \/ \E w \in Windows : Open(w)

Spec == Init /\ [][Next]_vars
=============================================================================

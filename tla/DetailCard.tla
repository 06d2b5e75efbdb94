------------------------------ MODULE DetailCard ------------------------------
(***************************************************************************)
(* What the two halves of the detail card share: DetailMetadata says how   *)
(* the card learns about its entry, DetailStreams how it lists streams.    *)
(***************************************************************************)
CONSTANTS
  Titles,   \* entries whose card the user may open
  Nothing   \* no card

VARIABLE screen   \* the open card (Model.detail), or Nothing
===============================================================================

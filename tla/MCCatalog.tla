------------------------------ MODULE MCCatalog ------------------------------
(***************************************************************************)
(* Catalog for TLC: movies, whose refresh is followed by a bulk pass and   *)
(* the enrichment of its entries, and music, which no plugin enriches    *)
(* and of which the client may ask a refresh.  The channel keeps two       *)
(* messages, so that either tab makes the subscribers of the other lag.    *)
(***************************************************************************)
EXTENDS Catalog, TLC
CONSTANTS movies, music
MCPasses == movies :> {"bulk"} @@ music :> {"over"}
===============================================================================

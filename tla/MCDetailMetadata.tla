-------------------------- MODULE MCDetailMetadata --------------------------
(***************************************************************************)
(* DetailMetadata for TLC: a film and a series that TMDB gives one number, *)
(* and a title of another catalogue, whose id has a prefix and which comes *)
(* with the film's IMDb id.  One plugin is asked with any id, the other    *)
(* only with an IMDb id, which enrich has to find.                         *)
(***************************************************************************)
EXTENDS DetailMetadata, TLC
CONSTANTS film, series, anime, tmdb, bridged, addon
MCSource == [t \in Titles |-> IF t = anime THEN "anilist" ELSE "tmdb"]
MCEntryId == [t \in Titles |-> IF t = anime THEN 2 ELSE 1]
MCAccepts == [t \in Titles |-> IF t = anime THEN {2, 3} ELSE {1}]
MCExternal == [t \in Titles |-> IF t = anime THEN [s \in {"imdb"} |-> 7] ELSE <<>>]
MCSources ==
  [v \in Verbs |-> [t \in Titles |->
     IF v = "enrich" THEN (IF t = anime THEN {} ELSE {tmdb})
     ELSE IF v = "credits" THEN (CASE t = film -> {tmdb, bridged} [] t = series -> {bridged} [] OTHER -> {tmdb})
     ELSE IF t = film THEN {addon} ELSE {}]]
MCNeeds ==
  [v \in Verbs |-> [p \in Plugins |-> [t \in Titles |-> IF p = tmdb THEN {} ELSE {"imdb"}]]]
MCBridges ==
  [p \in Plugins |-> [t \in Titles |-> IF p = tmdb THEN [s \in {"imdb"} |-> IF t = film THEN 7 ELSE 8] ELSE <<>>]]
=============================================================================
